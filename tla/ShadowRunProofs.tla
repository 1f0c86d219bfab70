---------------------------- MODULE ShadowRunProofs ----------------------------
(***************************************************************************)
(* What TLAPS proves of ShadowRun, for any processes, symbols, prices and  *)
(* bounds: its types, and that runs that overlap or die place at most one  *)
(* order for a symbol and entry bar, on a stored prediction that does not  *)
(* block it.                                                               *)
(***************************************************************************)
EXTENDS ShadowRun, TLAPS

\* What a run remembers exists in the market.
Fits(r, market) ==
  /\ r.pc \in {"critique", "save", "bridge", "submit"} =>
       r.signal \in SignalId /\ r.signal.entry <= market[r.signal.sym]
  /\ r.pc \in {"fetch", "bars"} => r.sym \in Symbol
  /\ r.pc = "bars" => r.next <= r.last /\ r.last <= market[r.sym]

RunsFit == \A p \in Process : Fits(run[p], shown)

ShadowTypes == TypeOK /\ RunsFit

-----------------------------------------------------------------------------
(* Steps of one run *)

\* The run of one process becomes r, and the market stays as it is.
LEMMA OneRunMoves ==
  ASSUME ShadowTypes, NEW p \in Process, NEW r \in Run, Fits(r, shown),
         run' = [run EXCEPT ![p] = r], shown' = shown
  PROVE  run' \in [Process -> Run] /\ RunsFit'
  <1>1. run \in [Process -> Run]
    BY DEF ShadowTypes, TypeOK
  <1>2. run' \in [Process -> Run]
    BY <1>1
  <1>3. ASSUME NEW q \in Process PROVE Fits(run'[q], shown)
    <2>1. CASE q = p
      BY <1>1, <2>1
    <2>2. CASE q # p
      BY <1>1, <2>2 DEF ShadowTypes, RunsFit
    <2> QED
      BY <2>1, <2>2
  <1> QED
    BY <1>2, <1>3 DEF RunsFit

LEMMA IdleRunFits == IdleRun \in Run /\ IdleRun.pc = "idle" /\ Fits(IdleRun, shown)
  <1>1. NewAccount \in Account
    BY DEF NewAccount, Account
  <1>2. 0 \in 0 .. MaxBar + 1 /\ 0 \in Bar0
    BY ShadowAssumption DEF Bar0
  <1>3. IdleRun \in Run
    BY <1>1, <1>2 DEF IdleRun, Run, Verdict, Blocking
  <1> QED
    BY <1>3 DEF IdleRun, Fits

\* A run that goes back to a loop holds nothing but its symbols and account.
LEMMA BackFits ==
  ASSUME NEW r \in Run, NEW pc \in {"decide", "advance"}, NEW mem \in Account
  PROVE  /\ Back(r, pc) \in Run /\ Fits(Back(r, pc), shown)
         /\ Back(r, pc).pc = pc
         /\ [Back(r, pc) EXCEPT !.mem = mem] \in Run
         /\ Fits([Back(r, pc) EXCEPT !.mem = mem], shown)
         /\ [Back(r, pc) EXCEPT !.mem = mem].pc = pc
  <1>1. IdleRun \in Run
    BY IdleRunFits
  <1>2. Back(r, pc) \in Run /\ Back(r, pc).pc = pc
    BY <1>1 DEF Back, Run
  <1>3. [Back(r, pc) EXCEPT !.mem = mem] \in Run /\ [Back(r, pc) EXCEPT !.mem = mem].pc = pc
    BY <1>2 DEF Run
  <1> QED
    BY <1>2, <1>3 DEF Fits

\* Tables and account that a step leaves alone keep their types.
Tables ==
  /\ shown \in [Symbol -> 1 .. MaxBar] /\ file \in [Symbol -> Bar0]
  /\ preds \subseteq [sym : Symbol, entry : 1 .. MaxBar, verdict : Verdict]
  /\ \A a, b \in preds : a.sym = b.sym /\ a.entry = b.entry => a = b
  /\ journal \subseteq [signal : SignalId, ordered : BOOLEAN]
  /\ pending \in [Symbol -> Bar0] /\ cursor \in [Symbol -> Bar0]
  /\ account \in Account /\ kill \in BOOLEAN /\ calm \in BOOLEAN
  /\ \A s \in Symbol : file[s] <= shown[s] /\ cursor[s] <= shown[s] /\ pending[s] <= shown[s]

LEMMA TypesAreTables == TypeOK <=> Tables /\ run \in [Process -> Run]
  BY DEF TypeOK, Tables

LEMMA KeepsTypes ==
  ASSUME ShadowTypes, Tables', NEW p \in Process, NEW r \in Run, Fits(r, shown),
         run' = [run EXCEPT ![p] = r], shown' = shown
  PROVE  ShadowTypes'
  <1>1. run' \in [Process -> Run] /\ RunsFit'
    BY OneRunMoves
  <1>2. TypeOK'
    BY <1>1 DEF TypeOK, Tables
  <1> QED
    BY <1>1, <1>2 DEF ShadowTypes

-----------------------------------------------------------------------------
(* Types *)

LEMMA InitTypes == Init => ShadowTypes
  <1> SUFFICES ASSUME Init PROVE ShadowTypes
    OBVIOUS
  <1>1. run \in [Process -> Run] /\ RunsFit
    BY IdleRunFits DEF Init, RunsFit, Fits
  <1>2. 0 \in Bar0 /\ 1 \in 1 .. MaxBar /\ NewAccount \in Account
    BY ShadowAssumption DEF Bar0, NewAccount, Account
  <1>3. /\ shown \in [Symbol -> 1 .. MaxBar] /\ file \in [Symbol -> Bar0]
        /\ pending \in [Symbol -> Bar0] /\ cursor \in [Symbol -> Bar0]
        /\ \A s \in Symbol : file[s] <= shown[s] /\ cursor[s] <= shown[s] /\ pending[s] <= shown[s]
    BY <1>2 DEF Init
  <1>4. kill \in BOOLEAN /\ calm \in BOOLEAN /\ preds = {} /\ journal = {} /\ account \in Account
    BY <1>2, Zenon DEF Init
  <1>5. Tables
    BY <1>3, <1>4 DEF Tables
  <1> QED
    BY <1>1, <1>5, TypesAreTables DEF ShadowTypes

LEMMA ScanKeepsTypes ==
  ASSUME ShadowTypes, NEW p \in Process, Start(p) PROVE ShadowTypes'
  <1>1. Tables /\ run \in [Process -> Run]
    BY TypesAreTables DEF ShadowTypes
  <1>2. PICK scanned \in SUBSET Symbol :
          /\ file' = [s \in Symbol |->
                        IF s \in scanned /\ file[s] = 0 THEN shown[s] ELSE file[s]]
          /\ run' = [run EXCEPT ![p] = [IdleRun EXCEPT !.pc = "decide", !.todo = scanned,
                                                       !.mem = account]]
    BY DEF Start
  <1> DEFINE r == [IdleRun EXCEPT !.pc = "decide", !.todo = scanned, !.mem = account]
  <1>3. r \in Run /\ r.pc = "decide"
    BY IdleRunFits, <1>1 DEF Run, Tables
  <1>4. Fits(r, shown)
    BY <1>3 DEF Fits
  <1>5. file' \in [Symbol -> Bar0] /\ \A s \in Symbol : file'[s] <= shown[s]
    BY <1>1, <1>2, ShadowAssumption DEF Tables, Bar0
  <1>6. calm' \in BOOLEAN
    BY <1>1, Zenon DEF Start, Tables
  <1>7. UNCHANGED <<shown, preds, journal, book, kill>>
    BY DEF Start
  <1>8. Tables'
    BY <1>1, <1>5, <1>6, <1>7 DEF Tables, book
  <1> QED
    BY <1>2, <1>3, <1>4, <1>7, <1>8, KeepsTypes

\* Steps that only move the run.
OnlyRun == UNCHANGED <<shown, file, preds, journal, book, kill, calm>>

LEMMA RunMovesKeepTypes ==
  ASSUME ShadowTypes, NEW p \in Process, NEW r \in Run, Fits(r, shown),
         run' = [run EXCEPT ![p] = r], OnlyRun
  PROVE  ShadowTypes'
  <1>1. Tables'
    BY TypesAreTables DEF ShadowTypes, OnlyRun, Tables, book
  <1> QED
    BY <1>1, KeepsTypes DEF OnlyRun

LEMMA PassKeepsTypes ==
  ASSUME ShadowTypes, NEW p \in Process, NEW s \in Symbol, Pass(p, s) PROVE ShadowTypes'
  <1> DEFINE r == [run[p] EXCEPT !.todo = @ \ {s}]
  <1>1. run \in [Process -> Run] /\ Fits(run[p], shown)
    BY DEF ShadowTypes, TypeOK, RunsFit
  <1>2. r \in Run /\ r.pc = "decide"
    BY <1>1 DEF Run, Pass
  <1>3. Fits(r, shown)
    BY <1>2 DEF Fits
  <1>4. run' = [run EXCEPT ![p] = r]
    BY DEF Pass
  <1> QED
    BY <1>2, <1>3, <1>4, RunMovesKeepTypes DEF Pass, OnlyRun

LEMMA DecideKeepsTypes ==
  ASSUME ShadowTypes, NEW p \in Process, NEW s \in Symbol, Decide(p, s) PROVE ShadowTypes'
  <1>1. Tables /\ run \in [Process -> Run]
    BY TypesAreTables DEF ShadowTypes
  <1>2. PICK price \in Price :
          run' = [run EXCEPT ![p].todo = @ \ {s}, ![p].pc = "critique",
                    ![p].signal = [sym |-> s, entry |-> shown[s], price |-> price]]
    BY DEF Decide
  <1> DEFINE signal == [sym |-> s, entry |-> shown[s], price |-> price]
             r == [run[p] EXCEPT !.todo = @ \ {s}, !.pc = "critique", !.signal = signal]
  <1>3. signal \in SignalId /\ signal.entry <= shown[signal.sym]
    BY <1>1, ShadowAssumption DEF SignalId, Tables
  <1>4. r \in Run /\ r.pc = "critique" /\ r.signal = signal
    <2> HIDE DEF signal
    <2> QED
      BY <1>1, <1>3 DEF Run
  <1>5. Fits(r, shown)
    BY <1>3, <1>4 DEF Fits
  <1>6. run' = [run EXCEPT ![p] = r]
    BY <1>1, <1>2
  <1> QED
    BY <1>4, <1>5, <1>6, RunMovesKeepTypes DEF Decide, OnlyRun

LEMMA CritiqueKeepsTypes ==
  ASSUME ShadowTypes, NEW p \in Process, Critique(p) PROVE ShadowTypes'
  <1>1. Tables /\ run \in [Process -> Run] /\ Fits(run[p], shown) /\ run[p] \in Run
    BY TypesAreTables DEF ShadowTypes, RunsFit
  <1>2. OnlyRun
    BY DEF Critique, OnlyRun
  <1>3. run[p].mem \in Account
    BY <1>1 DEF Run
  <1>4. CASE Predicted(run[p].signal)
    <2>1. run' = [run EXCEPT ![p] = Back(run[p], "decide")]
      BY <1>4 DEF Critique
    <2> QED
      BY <1>1, <1>2, <1>3, <2>1, BackFits, RunMovesKeepTypes
  <1>5. CASE ~Predicted(run[p].signal)
    <2>1. PICK v \in IF HardFailure(run[p].signal.sym) THEN {"REJECT"} ELSE FreeVerdict :
            run' = [run EXCEPT ![p].pc = "save", ![p].verdict = v]
      BY <1>5 DEF Critique
    <2> DEFINE r == [run[p] EXCEPT !.pc = "save", !.verdict = v]
    <2>2. v \in Verdict
      BY <2>1, ShadowAssumption DEF Verdict, Blocking
    <2>3. r \in Run /\ r.pc = "save" /\ r.signal = run[p].signal
      BY <1>1, <2>2 DEF Run
    <2>4. Fits(r, shown)
      BY <1>1, <2>3 DEF Fits, Critique
    <2>5. run' = [run EXCEPT ![p] = r]
      BY <1>1, <2>1
    <2> QED
      BY <1>2, <2>3, <2>4, <2>5, RunMovesKeepTypes
  <1> QED
    BY <1>4, <1>5

LEMMA SaveKeepsTypes ==
  ASSUME ShadowTypes, NEW p \in Process, SavePrediction(p) PROVE ShadowTypes'
  <1>1. Tables /\ run \in [Process -> Run] /\ Fits(run[p], shown) /\ run[p] \in Run
    BY TypesAreTables DEF ShadowTypes, RunsFit
  <1>2. run[p].mem \in Account /\ run[p].verdict \in Verdict
    BY <1>1 DEF Run
  <1>3. run[p].signal \in SignalId
    BY <1>1 DEF Fits, SavePrediction
  <1> DEFINE row == [sym |-> run[p].signal.sym, entry |-> run[p].signal.entry,
                     verdict |-> run[p].verdict]
  <1>4. row \in [sym : Symbol, entry : 1 .. MaxBar, verdict : Verdict]
    BY <1>2, <1>3 DEF SignalId
  <1>5. /\ preds' \subseteq [sym : Symbol, entry : 1 .. MaxBar, verdict : Verdict]
        /\ \A a, b \in preds' : a.sym = b.sym /\ a.entry = b.entry => a = b
    <2>1. CASE Duplicate(run[p].signal)
      BY <1>1, <2>1 DEF SavePrediction, Tables
    <2>2. CASE ~Duplicate(run[p].signal)
      <3>1. preds' = preds \cup {row}
        BY <2>2 DEF SavePrediction
      <3>2. \A a \in preds : ~(a.sym = row.sym /\ a.entry = row.entry)
        BY <2>2 DEF Duplicate, Predicted
      <3> HIDE DEF row
      <3> QED
        BY <1>1, <1>4, <3>1, <3>2 DEF Tables
    <2> QED
      BY <2>1, <2>2
  <1>6. Tables'
    BY <1>1, <1>5 DEF SavePrediction, Tables, book
  <1>7. PICK r \in {[run[p] EXCEPT !.pc = "bridge"], Back(run[p], "decide")} :
          run' = [run EXCEPT ![p] = r]
    BY DEF SavePrediction
  <1>8. r \in Run /\ Fits(r, shown)
    <2>1. CASE r = Back(run[p], "decide")
      BY <1>1, <1>2, <2>1, BackFits
    <2>2. CASE r = [run[p] EXCEPT !.pc = "bridge"]
      <3>1. r \in Run /\ r.pc = "bridge" /\ r.signal = run[p].signal
        BY <1>1, <2>2 DEF Run
      <3> QED
        BY <1>1, <3>1 DEF Fits, SavePrediction
    <2> QED
      BY <1>7, <2>1, <2>2
  <1>9. shown' = shown
    BY DEF SavePrediction
  <1> QED
    BY <1>6, <1>7, <1>8, <1>9, KeepsTypes

LEMMA BridgeKeepsTypes ==
  ASSUME ShadowTypes, NEW p \in Process, Bridge(p) PROVE ShadowTypes'
  <1>1. run \in [Process -> Run] /\ Fits(run[p], shown) /\ run[p] \in Run /\ run[p].mem \in Account
    BY DEF ShadowTypes, RunsFit, TypeOK, Run
  <1>2. PICK r \in {[run[p] EXCEPT !.pc = "submit"], Back(run[p], "decide")} :
          run' = [run EXCEPT ![p] = r]
    BY DEF Bridge
  <1>3. r \in Run /\ Fits(r, shown)
    <2>1. CASE r = Back(run[p], "decide")
      BY <1>1, <2>1, BackFits
    <2>2. CASE r = [run[p] EXCEPT !.pc = "submit"]
      <3>1. r \in Run /\ r.pc = "submit" /\ r.signal = run[p].signal
        BY <1>1, <2>2 DEF Run
      <3> QED
        BY <1>1, <3>1 DEF Fits, Bridge
    <2> QED
      BY <1>2, <2>1, <2>2
  <1> QED
    BY <1>2, <1>3, RunMovesKeepTypes DEF Bridge, OnlyRun

LEMMA SubmitKeepsTypes ==
  ASSUME ShadowTypes, NEW p \in Process, Submit(p) PROVE ShadowTypes'
  <1>1. Tables /\ run \in [Process -> Run] /\ Fits(run[p], shown) /\ run[p] \in Run
    BY TypesAreTables DEF ShadowTypes, RunsFit
  <1>2. run[p].mem \in Account /\ account \in Account
    BY <1>1 DEF Run, Tables
  <1> DEFINE signal == run[p].signal
  <1>3. signal \in SignalId /\ signal.entry <= shown[signal.sym] /\ signal.sym \in Symbol
    BY <1>1 DEF Fits, Submit, SignalId
  <1>4. CASE \E e \in journal : e.signal = signal
    <2>1. run' = [run EXCEPT ![p] = Back(run[p], "decide")] /\ UNCHANGED <<journal, pending>>
      BY <1>4 DEF Submit
    <2>2. OnlyRun
      BY <2>1 DEF Submit, OnlyRun, book
    <2> QED
      BY <1>1, <1>2, <2>1, <2>2, BackFits, RunMovesKeepTypes
  <1>5. CASE ~(\E e \in journal : e.signal = signal)
    <2>1. PICK ordered \in BOOLEAN :
            /\ journal' = journal \cup {[signal |-> signal, ordered |-> ordered]}
            /\ pending' = IF ordered THEN [pending EXCEPT ![signal.sym] = signal.entry] ELSE pending
            /\ run' = [run EXCEPT ![p] = [Back(run[p], "decide") EXCEPT !.mem = account]]
      BY <1>5 DEF Submit
    <2>2. UNCHANGED <<shown, file, preds, cursor, account, kill, calm>>
      BY DEF Submit
    <2>3. journal' \subseteq [signal : SignalId, ordered : BOOLEAN]
      BY <1>1, <1>3, <2>1 DEF Tables
    <2>4. pending' \in [Symbol -> Bar0] /\ \A s \in Symbol : pending'[s] <= shown[s]
      <3>1. signal.entry \in Bar0
        BY <1>3, ShadowAssumption DEF SignalId, Bar0
      <3> HIDE DEF signal
      <3> QED
        BY <1>1, <1>3, <2>1, <3>1 DEF Tables
    <2>5. Tables'
      BY <1>1, <2>2, <2>3, <2>4 DEF Tables
    <2> QED
      BY <1>1, <1>2, <2>1, <2>2, <2>5, BackFits, KeepsTypes
  <1> QED
    BY <1>4, <1>5

LEMMA GatherKeepsTypes ==
  ASSUME ShadowTypes, NEW p \in Process, Gather(p) PROVE ShadowTypes'
  <1> DEFINE todo == {s \in Symbol : pending[s] # 0 \/ account.open = s}
             r == [run[p] EXCEPT !.pc = "advance", !.todo = todo]
  <1>1. run \in [Process -> Run] /\ run[p] \in Run /\ todo \subseteq Symbol
    BY DEF ShadowTypes, TypeOK
  <1>2. run' = [run EXCEPT ![p] = r]
    BY <1>1 DEF Gather
  <1>3. r \in Run /\ r.pc = "advance"
    <2> HIDE DEF todo
    <2> QED
      BY <1>1 DEF Run
  <1>4. Fits(r, shown)
    BY <1>3 DEF Fits
  <1> QED
    BY <1>2, <1>3, <1>4, RunMovesKeepTypes DEF Gather, OnlyRun

LEMMA GuardKeepsTypes ==
  ASSUME ShadowTypes, NEW p \in Process, NEW s \in Symbol, Guard(p, s) PROVE ShadowTypes'
  <1>1. Tables /\ run \in [Process -> Run] /\ run[p] \in Run
    BY TypesAreTables DEF ShadowTypes
  <1>2. OnlyRun
    BY DEF Guard, OnlyRun
  <1> DEFINE left == [run[p] EXCEPT !.todo = @ \ {s}]
             going == [left EXCEPT !.pc = "fetch", !.sym = s, !.next = Baseline(s) + 1]
  <1>3. PICK r \in {left, going} : run' = [run EXCEPT ![p] = r]
    BY DEF Guard
  <1>4. Baseline(s) + 1 \in 0 .. MaxBar + 1
    BY <1>1, ShadowAssumption DEF Tables, Baseline, Bar0
  <1>5. left \in Run /\ left.pc = "advance"
    BY <1>1 DEF Run, Guard
  <1>6. going \in Run /\ going.pc = "fetch" /\ going.sym = s
    <2> HIDE DEF left
    <2> QED
      BY <1>4, <1>5 DEF Run
  <1>7. r \in Run /\ Fits(r, shown)
    <2> HIDE DEF left, going
    <2> QED
      BY <1>3, <1>5, <1>6 DEF Fits
  <1> QED
    BY <1>2, <1>3, <1>7, RunMovesKeepTypes

LEMMA FetchKeepsTypes ==
  ASSUME ShadowTypes, NEW p \in Process, Fetch(p) PROVE ShadowTypes'
  <1>1. Tables /\ run \in [Process -> Run] /\ run[p] \in Run /\ Fits(run[p], shown)
    BY TypesAreTables DEF ShadowTypes, RunsFit
  <1>2. run[p].sym \in Symbol /\ run[p].mem \in Account /\ run[p].next \in 0 .. MaxBar + 1
    BY <1>1 DEF Fits, Fetch, Run
  <1> DEFINE sym == run[p].sym
             end == IF file[sym] # 0 THEN file[sym] ELSE shown[sym]
             bars == [run[p] EXCEPT !.pc = "bars", !.last = end]
  <1>3. end \in Bar0 /\ end <= shown[sym]
    BY <1>1, <1>2, ShadowAssumption DEF Tables, Bar0
  <1>4. file' = [file EXCEPT ![sym] = end] /\ UNCHANGED <<shown, preds, journal, book, kill, calm>>
    BY DEF Fetch
  <1>5. Tables'
    <2> HIDE DEF end
    <2> QED
      BY <1>1, <1>2, <1>3, <1>4 DEF Tables, book
  <1>6. run' = [run EXCEPT ![p] = IF run[p].next > end THEN Back(run[p], "advance") ELSE bars]
    BY DEF Fetch
  <1>7. CASE run[p].next > end
    <2>1. run' = [run EXCEPT ![p] = Back(run[p], "advance")]
      BY <1>6, <1>7
    <2> QED
      BY <1>1, <1>2, <1>4, <1>5, <2>1, BackFits, KeepsTypes
  <1>8. CASE ~(run[p].next > end)
    <2>1. run' = [run EXCEPT ![p] = bars]
      BY <1>6, <1>8
    <2>2. bars \in Run /\ bars.pc = "bars" /\ bars.last = end
          /\ bars.next = run[p].next /\ bars.sym = sym
      <3> HIDE DEF end
      <3> QED
        BY <1>1, <1>3 DEF Run
    <2>3. Fits(bars, shown)
      <3>1. run[p].next <= end
        BY <1>2, <1>3, <1>8, ShadowAssumption DEF Bar0
      <3> HIDE DEF bars, end
      <3> QED
        BY <1>2, <1>3, <2>2, <3>1 DEF Fits
    <2> QED
      BY <1>4, <1>5, <2>1, <2>2, <2>3, KeepsTypes
  <1> QED
    BY <1>7, <1>8

LEMMA FetchFailsKeepsTypes ==
  ASSUME ShadowTypes, NEW p \in Process, FetchFails(p) PROVE ShadowTypes'
  <1>1. run[p] \in Run /\ run[p].mem \in Account
    BY DEF ShadowTypes, TypeOK, Run
  <1> QED
    BY <1>1, BackFits, RunMovesKeepTypes DEF FetchFails, OnlyRun

\* The run after a bar, with an account.
LEMMA AfterBarFits ==
  ASSUME ShadowTypes, NEW p \in Process, run[p].pc = "bars", NEW acct \in Account
  PROVE  /\ AfterBar(run[p], acct) \in Run /\ Fits(AfterBar(run[p], acct), shown)
         /\ run[p].sym \in Symbol /\ run[p].next \in 0 .. MaxBar /\ run[p].next <= shown[run[p].sym]
         /\ AfterBar(run[p], acct).pc \in {"bars", "advance"}
  <1>1. run[p] \in Run /\ Fits(run[p], shown) /\ shown \in [Symbol -> 1 .. MaxBar]
    BY DEF ShadowTypes, RunsFit, TypeOK
  <1>2. run[p].sym \in Symbol /\ run[p].next <= run[p].last /\ run[p].last <= shown[run[p].sym]
    BY <1>1 DEF Fits
  <1>3. run[p].next \in 0 .. MaxBar /\ run[p].last \in 0 .. MaxBar /\ run[p].next <= shown[run[p].sym]
    BY <1>1, <1>2, ShadowAssumption DEF Run, Bar0
  <1>4. CASE run[p].next = run[p].last
    BY <1>1, <1>2, <1>3, <1>4, BackFits DEF AfterBar
  <1>5. CASE run[p].next # run[p].last
    <2> DEFINE r == [run[p] EXCEPT !.next = @ + 1, !.mem = acct]
    <2>1. run[p].next + 1 \in 0 .. MaxBar + 1 /\ run[p].next + 1 <= run[p].last
      BY <1>2, <1>3, <1>5, ShadowAssumption
    <2>2. /\ r \in Run /\ r.pc = "bars" /\ r.sym = run[p].sym
          /\ r.next = run[p].next + 1 /\ r.last = run[p].last
      BY <1>1, <2>1 DEF Run
    <2>3. Fits(r, shown)
      <3> HIDE DEF r
      <3> QED
        BY <1>2, <2>1, <2>2 DEF Fits
    <2>4. AfterBar(run[p], acct) = r
      BY <1>5 DEF AfterBar
    <2> QED
      BY <1>2, <1>3, <2>2, <2>3, <2>4
  <1> QED
    BY <1>4, <1>5

LEMMA OldBarKeepsTypes ==
  ASSUME ShadowTypes, NEW p \in Process, OldBar(p) PROVE ShadowTypes'
  <1>1. run[p] \in Run /\ account \in Account /\ run[p].pc = "bars"
    BY DEF ShadowTypes, TypeOK, OldBar
  <1>2. PICK r \in {AfterBar(run[p], account), [Back(run[p], "advance") EXCEPT !.mem = account]} :
          run' = [run EXCEPT ![p] = r]
    BY DEF OldBar
  <1>3. r \in Run /\ Fits(r, shown)
    BY <1>1, <1>2, AfterBarFits, BackFits
  <1> QED
    BY <1>2, <1>3, RunMovesKeepTypes DEF OldBar, OnlyRun

LEMMA BarRaisesKeepsTypes ==
  ASSUME ShadowTypes, NEW p \in Process, BarRaises(p) PROVE ShadowTypes'
  <1>1. run[p] \in Run /\ account \in Account
    BY DEF ShadowTypes, TypeOK
  <1>2. run' = [run EXCEPT ![p] = [Back(run[p], "advance") EXCEPT !.mem = account]] /\ OnlyRun
    BY DEF BarRaises, OnlyRun
  <1> QED
    BY <1>1, <1>2, BackFits, RunMovesKeepTypes

LEMMA NewBarKeepsTypes ==
  ASSUME ShadowTypes, NEW p \in Process, NewBarProcessed(p) PROVE ShadowTypes'
  <1>1. Tables /\ run[p].pc = "bars"
    BY TypesAreTables DEF ShadowTypes, NewBarProcessed
  <1> DEFINE sym == run[p].sym
             next == run[p].next
  <1>2. account' \in Account
    <2>1. account' \in AccountAfter(sym)
      BY DEF NewBarProcessed
    <2>2. sym \in Symbol
      BY <1>1, AfterBarFits, <2>1 DEF Tables
    <2>3. account.open \in Symbol \cup {NoSymbol} /\ account.halted \in BOOLEAN
      BY <1>1 DEF Tables, Account
    <2> QED
      BY <2>1, <2>2, <2>3 DEF AccountAfter, Account
  <1>3. /\ AfterBar(run[p], account') \in Run /\ Fits(AfterBar(run[p], account'), shown)
        /\ sym \in Symbol /\ next \in 0 .. MaxBar /\ next <= shown[sym]
    BY <1>1, <1>2, AfterBarFits
  <1>4. /\ cursor' = [cursor EXCEPT ![sym] = next]
        /\ pending' = IF account.open = sym THEN pending ELSE [pending EXCEPT ![sym] = 0]
        /\ run' = [run EXCEPT ![p] = AfterBar(run[p], account')]
        /\ UNCHANGED <<shown, file, preds, journal, kill, calm>>
    BY DEF NewBarProcessed
  <1>5. cursor' \in [Symbol -> Bar0] /\ \A s \in Symbol : cursor'[s] <= shown[s]
    <2> HIDE DEF sym, next
    <2> QED
      BY <1>1, <1>3, <1>4 DEF Tables, Bar0
  <1>6. pending' \in [Symbol -> Bar0] /\ \A s \in Symbol : pending'[s] <= shown[s]
    <2> HIDE DEF sym, next
    <2> QED
      BY <1>1, <1>3, <1>4, ShadowAssumption DEF Tables, Bar0
  <1>7. Tables'
    BY <1>1, <1>2, <1>4, <1>5, <1>6 DEF Tables
  <1> QED
    BY <1>3, <1>4, <1>7, KeepsTypes

LEMMA FinishKeepsTypes ==
  ASSUME ShadowTypes, NEW p \in Process, Finish(p) \/ Crash(p) PROVE ShadowTypes'
  <1>1. run' = [run EXCEPT ![p] = IdleRun] /\ OnlyRun
    BY DEF Finish, Crash, OnlyRun
  <1> QED
    BY <1>1, IdleRunFits, RunMovesKeepTypes

\* The market, the switch and the cache files change; the runs do not.
LEMMA EnvironmentKeepsTypes ==
  ASSUME ShadowTypes, (\E s \in Symbol : Publish(s)) \/ ToggleKill \/ DeleteFiles
  PROVE  ShadowTypes'
  <1>1. Tables /\ run \in [Process -> Run] /\ RunsFit
    BY TypesAreTables DEF ShadowTypes
  <1>2. ASSUME NEW s \in Symbol, Publish(s) PROVE ShadowTypes'
    <2>1. /\ shown' = [shown EXCEPT ![s] = @ + 1] /\ shown[s] < MaxBar
          /\ UNCHANGED <<file, preds, journal, book, kill, run, calm>>
      BY <1>2 DEF Publish
    <2>2. shown' \in [Symbol -> 1 .. MaxBar] /\ \A x \in Symbol : shown[x] <= shown'[x]
      BY <1>1, <2>1, ShadowAssumption DEF Tables
    <2>3. \A x \in Symbol : /\ file'[x] <= shown'[x] /\ cursor'[x] <= shown'[x]
                            /\ pending'[x] <= shown'[x]
      BY <1>1, <2>1, <2>2, ShadowAssumption DEF Tables, Bar0, book
    <2>4. Tables'
      BY <1>1, <2>1, <2>2, <2>3 DEF Tables, book
    <2>5. ASSUME NEW p \in Process PROVE Fits(run'[p], shown')
      <3>1. run[p] \in Run /\ Fits(run[p], shown)
        BY <1>1 DEF RunsFit
      <3>2. run[p].pc \in {"critique", "save", "bridge", "submit"} =>
              run[p].signal.entry <= shown'[run[p].signal.sym]
        BY <1>1, <2>2, <3>1, ShadowAssumption DEF Fits, SignalId, Tables
      <3>3. run[p].pc = "bars" => run[p].last <= shown'[run[p].sym]
        BY <1>1, <2>2, <3>1, ShadowAssumption DEF Fits, Run, Bar0, Tables
      <3> QED
        BY <2>1, <3>1, <3>2, <3>3 DEF Fits
    <2> QED
      BY <1>1, <2>1, <2>4, <2>5, TypesAreTables DEF ShadowTypes, RunsFit, TypeOK, Tables
  <1>3. CASE ToggleKill
    <2>1. kill' \in BOOLEAN /\ calm' \in BOOLEAN
      BY <1>1, <1>3, Zenon DEF ToggleKill, Tables
    <2>2. UNCHANGED <<shown, file, preds, journal, book, run>>
      BY <1>3 DEF ToggleKill
    <2>3. Tables'
      BY <1>1, <2>1, <2>2 DEF Tables, book
    <2> QED
      BY <1>1, <2>2, <2>3 DEF ShadowTypes, RunsFit, TypeOK, Tables
  <1>4. CASE DeleteFiles
    <2>1. file' \in [Symbol -> Bar0] /\ \A s \in Symbol : file'[s] <= shown[s]
      BY <1>1, <1>4, ShadowAssumption DEF DeleteFiles, Tables, Bar0
    <2>2. UNCHANGED <<shown, preds, journal, book, kill, run, calm>>
      BY <1>4 DEF DeleteFiles
    <2>3. Tables'
      BY <1>1, <2>1, <2>2 DEF Tables, book
    <2> QED
      BY <1>1, <2>2, <2>3 DEF ShadowTypes, RunsFit, TypeOK, Tables
  <1> QED
    BY <1>2, <1>3, <1>4

LEMMA NextKeepsTypes == ShadowTypes /\ [Next]_vars => ShadowTypes'
  <1> SUFFICES ASSUME ShadowTypes, [Next]_vars PROVE ShadowTypes'
    OBVIOUS
  <1>1. ASSUME NEW p \in Process, RunNext(p) PROVE ShadowTypes'
    <2>1. CASE Start(p) \/ Critique(p) \/ SavePrediction(p) \/ Bridge(p) \/ Submit(p)
      BY <2>1, ScanKeepsTypes, CritiqueKeepsTypes, SaveKeepsTypes, BridgeKeepsTypes,
         SubmitKeepsTypes
    <2>2. CASE Gather(p) \/ Fetch(p) \/ FetchFails(p) \/ OldBar(p) \/ BarRaises(p)
      BY <2>2, GatherKeepsTypes, FetchKeepsTypes, FetchFailsKeepsTypes, OldBarKeepsTypes,
         BarRaisesKeepsTypes
    <2>3. CASE NewBarProcessed(p) \/ Finish(p) \/ Crash(p)
      BY <2>3, NewBarKeepsTypes, FinishKeepsTypes
    <2>4. CASE \E s \in Symbol : Pass(p, s) \/ Decide(p, s) \/ Guard(p, s)
      BY <2>4, PassKeepsTypes, DecideKeepsTypes, GuardKeepsTypes
    <2> QED
      BY <1>1, <2>1, <2>2, <2>3, <2>4 DEF RunNext
  <1>2. CASE UNCHANGED vars
    BY <1>2 DEF vars, book, ShadowTypes, RunsFit, TypeOK
  <1> QED
    BY <1>1, <1>2, EnvironmentKeepsTypes DEF Next

-----------------------------------------------------------------------------
(* One order for a prediction *)

SameEntry(a, b) == a.sym = b.sym /\ a.entry = b.entry

\* A run that has stored its prediction and not yet submitted.
Holds(p) == run[p].pc \in {"bridge", "submit"}

Backed(signal) ==
  \E prediction \in preds :
    SameEntry(prediction, signal) /\ prediction.verdict \notin Blocking

\* The prediction is the token: whoever stored it is alone with its entry.
HoldersAreBacked == \A p \in Process : Holds(p) => Backed(run[p].signal)
HoldersAreFirst ==
  \A p \in Process : Holds(p) => \A e \in journal : ~SameEntry(e.signal, run[p].signal)
HoldersDiffer ==
  \A p, q \in Process :
    Holds(p) /\ Holds(q) /\ p # q => ~SameEntry(run[p].signal, run[q].signal)
EntriesAreBacked == \A e \in journal : Backed(e.signal)
EntriesDiffer == \A a, b \in journal : SameEntry(a.signal, b.signal) => a = b

TokenInv ==
  HoldersAreBacked /\ HoldersAreFirst /\ HoldersDiffer /\ EntriesAreBacked /\ EntriesDiffer

\* A step that touches neither table and lets no run begin to hold.
Tokenless ==
  /\ UNCHANGED <<preds, journal>>
  /\ \A p \in Process : Holds(p)' => Holds(p) /\ run'[p].signal = run[p].signal

LEMMA TokenlessKeepsTokens ==
  ASSUME TokenInv, Tokenless PROVE TokenInv'
  BY DEF TokenInv, Tokenless, HoldersAreBacked, HoldersAreFirst, HoldersDiffer,
         EntriesAreBacked, EntriesDiffer, Backed

\* A run that moves to a place where it does not hold, or holds on.
LEMMA MovesAreTokenless ==
  ASSUME ShadowTypes, NEW p \in Process, NEW r \in Run, run' = [run EXCEPT ![p] = r],
         r.pc \in {"bridge", "submit"} => Holds(p) /\ r.signal = run[p].signal,
         UNCHANGED <<preds, journal>>
  PROVE  Tokenless
  <1>1. run \in [Process -> Run]
    BY DEF ShadowTypes, TypeOK
  <1> QED
    BY <1>1 DEF Tokenless, Holds

LEMMA BackIsTokenless ==
  ASSUME ShadowTypes, NEW p \in Process, NEW pc \in {"decide", "advance"},
         NEW mem \in Account, UNCHANGED <<preds, journal>>,
         \/ run' = [run EXCEPT ![p] = Back(run[p], pc)]
         \/ run' = [run EXCEPT ![p] = [Back(run[p], pc) EXCEPT !.mem = mem]]
         \/ run' = [run EXCEPT ![p] = IdleRun]
  PROVE  Tokenless
  <1>1. run[p] \in Run
    BY DEF ShadowTypes, TypeOK
  <1> QED
    BY <1>1, BackFits, IdleRunFits, MovesAreTokenless

\* The tables of predictions and journal change in SavePrediction and Submit only.
LEMMA RunStepsAreTokenless ==
  ASSUME ShadowTypes, NEW p \in Process, RunNext(p), ~SavePrediction(p), ~Submit(p)
  PROVE  Tokenless
  <1>1. Tables /\ run \in [Process -> Run] /\ run[p] \in Run /\ account \in Account
    BY TypesAreTables DEF ShadowTypes, Tables
  <1>2. run[p].mem \in Account
    BY <1>1 DEF Run
  <1>3. UNCHANGED <<preds, journal>>
    BY DEF RunNext, Start, Critique, SavePrediction, Bridge, Submit, Gather, Fetch, FetchFails,
           OldBar, BarRaises, NewBarProcessed, Finish, Crash, Pass, Decide, Guard
  <1>4. CASE Start(p)
    <2>1. ~(run'[p].pc \in {"bridge", "submit"}) /\ \A q \in Process : q # p => run'[q] = run[q]
      BY <1>1, <1>4, IdleRunFits DEF Start, Run
    <2> QED
      BY <1>3, <2>1 DEF Tokenless, Holds
  <1>5. ASSUME NEW s \in Symbol, Pass(p, s) \/ Decide(p, s) \/ Guard(p, s) PROVE Tokenless
    <2>1. CASE Pass(p, s)
      BY <1>1, <1>3, <2>1 DEF Pass, Tokenless, Holds, Run
    <2>2. CASE Decide(p, s)
      BY <1>1, <1>3, <2>2 DEF Decide, Tokenless, Holds, Run
    <2>3. CASE Guard(p, s)
      <3>1. run[p].pc = "advance" /\ run'[p].pc \in {"advance", "fetch"}
            /\ \A q \in Process : q # p => run'[q] = run[q]
        BY <1>1, <2>3 DEF Guard, Run
      <3> QED
        BY <1>3, <3>1 DEF Tokenless, Holds
    <2> QED
      BY <1>5, <2>1, <2>2, <2>3
  <1>6. CASE Critique(p)
    <2>1. CASE Predicted(run[p].signal)
      BY <1>1, <1>2, <1>3, <1>6, <2>1, BackIsTokenless DEF Critique
    <2>2. CASE ~Predicted(run[p].signal)
      <3>1. run'[p].pc = "save" /\ \A q \in Process : q # p => run'[q] = run[q]
        BY <1>1, <1>6, <2>2 DEF Critique, Run
      <3> QED
        BY <1>3, <3>1 DEF Tokenless, Holds
    <2> QED
      BY <2>1, <2>2
  <1>7. CASE Bridge(p)
    <2>1. CASE kill
      BY <1>1, <1>2, <1>3, <1>7, <2>1, BackIsTokenless DEF Bridge
    <2>2. CASE ~kill
      BY <1>1, <1>3, <1>7, <2>2 DEF Bridge, Tokenless, Holds, Run
    <2> QED
      BY <2>1, <2>2
  <1>8. CASE Gather(p)
    <2>1. run'[p].pc = "advance" /\ \A q \in Process : q # p => run'[q] = run[q]
      BY <1>1, <1>8 DEF Gather, Run
    <2> QED
      BY <1>3, <2>1 DEF Tokenless, Holds
  <1>9. CASE Fetch(p)
    <2>1. run'[p].pc \in {"bars", "advance"} /\ \A q \in Process : q # p => run'[q] = run[q]
      BY <1>1, <1>2, <1>9, BackFits DEF Fetch, Run
    <2> QED
      BY <1>3, <2>1 DEF Tokenless, Holds
  <1>10. CASE FetchFails(p) \/ BarRaises(p) \/ Finish(p) \/ Crash(p)
    BY <1>1, <1>2, <1>3, <1>10, BackIsTokenless DEF FetchFails, BarRaises, Finish, Crash
  <1>11. CASE OldBar(p)
    <2>1. PICK r \in {AfterBar(run[p], account), [Back(run[p], "advance") EXCEPT !.mem = account]} :
            run' = [run EXCEPT ![p] = r]
      BY <1>11 DEF OldBar
    <2>2. r \in Run /\ r.pc \in {"bars", "advance"}
      <3>1. CASE r = AfterBar(run[p], account)
        BY <1>1, <1>11, <3>1, AfterBarFits DEF OldBar
      <3>2. CASE r = [Back(run[p], "advance") EXCEPT !.mem = account]
        BY <1>1, <3>2, BackFits
      <3> QED
        BY <2>1, <3>1, <3>2
    <2> QED
      BY <1>3, <2>1, <2>2, MovesAreTokenless
  <1>12. CASE NewBarProcessed(p)
    <2>1. account' \in Account
      BY <1>12, NewBarKeepsTypes DEF ShadowTypes, TypeOK
    <2>2. AfterBar(run[p], account') \in Run /\ AfterBar(run[p], account').pc \in {"bars", "advance"}
      BY <1>12, <2>1, AfterBarFits DEF NewBarProcessed
    <2>3. run' = [run EXCEPT ![p] = AfterBar(run[p], account')]
      BY <1>12 DEF NewBarProcessed
    <2> QED
      BY <1>3, <2>2, <2>3, MovesAreTokenless
  <1> QED
    BY <1>4, <1>5, <1>6, <1>7, <1>8, <1>9, <1>10, <1>11, <1>12 DEF RunNext

\* The unique index gives the token to one run at most.
LEMMA SaveKeepsTokens ==
  ASSUME ShadowTypes, TokenInv, NEW p \in Process, SavePrediction(p) PROVE TokenInv'
  <1>1. run \in [Process -> Run] /\ run[p] \in Run /\ run[p].mem \in Account
    BY DEF ShadowTypes, TypeOK, Run
  <1>2. journal' = journal
    BY DEF SavePrediction
  <1>3. CASE Duplicate(run[p].signal)
    <2>1. UNCHANGED <<preds, journal>> /\ run' = [run EXCEPT ![p] = Back(run[p], "decide")]
      BY <1>2, <1>3 DEF SavePrediction
    <2> QED
      BY <1>1, <2>1, BackIsTokenless, TokenlessKeepsTokens
  <1>4. CASE ~Duplicate(run[p].signal)
    <2> DEFINE row == [sym |-> run[p].signal.sym, entry |-> run[p].signal.entry,
                       verdict |-> run[p].verdict]
    <2>1. preds' = preds \cup {row}
      BY <1>4 DEF SavePrediction
    <2>2. ASSUME NEW signal, Backed(signal) PROVE Backed(signal)' /\ ~SameEntry(signal, run[p].signal)
      <3>1. PICK prediction \in preds :
              SameEntry(prediction, signal) /\ prediction.verdict \notin Blocking
        BY <2>2 DEF Backed
      <3>2. ~SameEntry(prediction, run[p].signal)
        BY <1>4, <3>1 DEF Duplicate, Predicted, SameEntry
      <3>3. (SameEntry(prediction, signal) /\ prediction.verdict \notin Blocking)'
            => Backed(signal)'
        BY <2>1, <3>1 DEF Backed
      <3> QED
        BY <3>1, <3>2, <3>3 DEF SameEntry
    <2>3. EntriesAreBacked'
      BY <1>2, <2>2 DEF TokenInv, EntriesAreBacked
    <2>4. EntriesDiffer'
      BY <1>2 DEF TokenInv, EntriesDiffer
    <2>5. CASE Blocks(run[p].verdict)
      <3>1. run' = [run EXCEPT ![p] = Back(run[p], "decide")]
        BY <1>4, <2>5 DEF SavePrediction
      <3>2. \A q \in Process : Holds(q)' => Holds(q) /\ run'[q] = run[q]
        BY <1>1, <3>1, BackFits DEF Holds
      <3>3. HoldersAreBacked'
        BY <2>2, <3>2 DEF TokenInv, HoldersAreBacked
      <3>4. HoldersAreFirst' /\ HoldersDiffer'
        BY <1>2, <3>2 DEF TokenInv, HoldersAreFirst, HoldersDiffer
      <3> QED
        BY <2>3, <2>4, <3>3, <3>4 DEF TokenInv
    <2>6. CASE ~Blocks(run[p].verdict)
      <3>1. run' = [run EXCEPT ![p] = [run[p] EXCEPT !.pc = "bridge"]]
        BY <1>4, <2>6 DEF SavePrediction
      <3>2. /\ run'[p].signal = run[p].signal
            /\ \A q \in Process : q # p => run'[q] = run[q]
        BY <1>1, <3>1 DEF Run
      <3>3. Backed(run[p].signal)'
        <4>1. row \in preds'
          BY <2>1
        <4>2. row.sym = run'[p].signal.sym /\ row.entry = run'[p].signal.entry
          BY <3>2
        <4>3. row.verdict \notin Blocking
          BY <2>6 DEF Blocks
        <4> HIDE DEF row
        <4> QED
          BY <4>1, <4>2, <4>3 DEF Backed, SameEntry
      <3>4. ASSUME NEW q \in Process, q # p, Holds(q)'
            PROVE  /\ Holds(q) /\ run'[q].signal = run[q].signal
                   /\ Backed(run[q].signal)' /\ ~SameEntry(run[q].signal, run[p].signal)
        <4>1. Holds(q) /\ run'[q] = run[q]
          BY <3>2, <3>4 DEF Holds
        <4> QED
          BY <2>2, <3>2, <3>4, <4>1 DEF TokenInv, HoldersAreBacked
      <3>5. HoldersAreBacked'
        BY <3>2, <3>3, <3>4 DEF HoldersAreBacked
      <3>6. HoldersAreFirst'
        BY <1>2, <2>2, <3>2, <3>4 DEF HoldersAreFirst, TokenInv, EntriesAreBacked
      <3>7. HoldersDiffer'
        BY <3>2, <3>4 DEF HoldersDiffer, TokenInv, SameEntry
      <3> QED
        BY <2>3, <2>4, <3>5, <3>6, <3>7 DEF TokenInv
    <2> QED
      BY <2>5, <2>6
  <1> QED
    BY <1>3, <1>4

\* Submitting gives the token away.
LEMMA SubmitKeepsTokens ==
  ASSUME ShadowTypes, TokenInv, NEW p \in Process, Submit(p) PROVE TokenInv'
  <1>1. run \in [Process -> Run] /\ run[p] \in Run /\ run[p].mem \in Account /\ account \in Account
    BY DEF ShadowTypes, TypeOK, Run
  <1>2. preds' = preds /\ run[p].pc = "submit"
    BY DEF Submit
  <1>3. Holds(p)
    BY <1>2 DEF Holds
  <1>4. PICK r \in {Back(run[p], "decide"), [Back(run[p], "decide") EXCEPT !.mem = account]} :
          run' = [run EXCEPT ![p] = r]
    BY DEF Submit
  <1>5. ~Holds(p)' /\ \A q \in Process : q # p => run'[q] = run[q]
    BY <1>1, <1>4, BackFits DEF Holds
  <1>6. \A q \in Process : Holds(q)' => q # p /\ Holds(q) /\ run'[q] = run[q]
    BY <1>5 DEF Holds
  <1>7. HoldersAreBacked' /\ HoldersDiffer'
    BY <1>2, <1>6 DEF TokenInv, HoldersAreBacked, HoldersDiffer, Backed
  <1>8. ~(\E e \in journal : e.signal = run[p].signal)
    BY <1>3 DEF TokenInv, HoldersAreFirst, SameEntry
  <1>9. PICK ordered \in BOOLEAN :
          journal' = journal \cup {[signal |-> run[p].signal, ordered |-> ordered]}
    BY <1>8 DEF Submit
  <1>10. HoldersAreFirst'
    BY <1>3, <1>6, <1>9 DEF TokenInv, HoldersAreFirst, HoldersDiffer, SameEntry
  <1>11. EntriesAreBacked'
    BY <1>2, <1>3, <1>9 DEF TokenInv, EntriesAreBacked, HoldersAreBacked, Backed
  <1>12. EntriesDiffer'
    BY <1>3, <1>9 DEF TokenInv, EntriesDiffer, HoldersAreFirst, SameEntry
  <1> QED
    BY <1>7, <1>10, <1>11, <1>12 DEF TokenInv

LEMMA ShadowInvariant == Spec => [](ShadowTypes /\ TokenInv)
  <1>1. Init => ShadowTypes /\ TokenInv
    <2>1. Init => TokenInv
      BY DEF Init, IdleRun, TokenInv, Holds, HoldersAreBacked, HoldersAreFirst, HoldersDiffer,
             EntriesAreBacked, EntriesDiffer
    <2> QED
      BY <2>1, InitTypes
  <1>2. ShadowTypes /\ TokenInv /\ [Next]_vars => (ShadowTypes /\ TokenInv)'
    <2> SUFFICES ASSUME ShadowTypes, TokenInv, [Next]_vars PROVE TokenInv'
      BY NextKeepsTypes
    <2>1. ASSUME NEW p \in Process, RunNext(p) PROVE TokenInv'
      BY <2>1, RunStepsAreTokenless, TokenlessKeepsTokens, SaveKeepsTokens, SubmitKeepsTokens
    <2>2. CASE (\E s \in Symbol : Publish(s)) \/ ToggleKill \/ DeleteFiles \/ UNCHANGED vars
      <3>1. UNCHANGED <<preds, journal, run>>
        BY <2>2 DEF Publish, ToggleKill, DeleteFiles, vars
      <3> QED
        BY <3>1, TokenlessKeepsTokens DEF Tokenless, Holds
    <2> QED
      BY <2>1, <2>2 DEF Next
  <1> QED
    BY <1>1, <1>2, PTL DEF Spec

-----------------------------------------------------------------------------

\* The tables of shadow-run and paper/advance.py are well typed, predictions
\* are unique in symbol and entry, and nothing is cached, processed or ordered
\* for a bar that was not published.
THEOREM ShadowTypeCorrect == Spec => []TypeOK
  BY ShadowInvariant, PTL DEF ShadowTypes

\* save_prediction before submit_signal is enough: however many runs overlap,
\* and wherever they die, a symbol and entry bar is ordered once at most, on a
\* stored prediction that does not block it.
THEOREM OneOrder == Spec => []OneOrderPerPrediction
  <1>1. TokenInv => OneOrderPerPrediction
    BY DEF TokenInv, EntriesDiffer, EntriesAreBacked, Backed, SameEntry, OneOrderPerPrediction
  <1> QED
    BY <1>1, ShadowInvariant, PTL

-----------------------------------------------------------------------------
(* A halt holds fills *)

\* Submit orders only when nothing is held, and a fill takes the order away.
HeldHasNoOrder == \A s \in Symbol : account.open = s => pending[s] = 0

\* While it is calm, only one run is under way ...
Alone == \A p, q \in Process : run[p].pc # "idle" /\ run[q].pc # "idle" => p = q

\* ... so the account it remembers is the committed one ...
Aware == \A p \in Process : run[p].pc # "idle" => run[p].mem = account

\* ... and the symbol it advances has no order, or nothing that holds it back.
MayFill(s) == pending[s] = 0 \/ (~account.halted /\ ~kill)
Cleared == \A p \in Process : run[p].pc \in {"fetch", "bars"} => MayFill(run[p].sym)

CalmRun == Alone /\ Aware /\ Cleared

HaltInv == ShadowTypes /\ HeldHasNoOrder /\ (calm => CalmRun)

\* The run under way goes on, or ends.
LEMMA CalmRunGoesOn ==
  ASSUME ShadowTypes, CalmRun, NEW p \in Process, NEW r \in Run, run[p].pc # "idle",
         run' = [run EXCEPT ![p] = r],
         r.pc # "idle" => r.mem = account',
         r.pc \in {"fetch", "bars"} =>
           pending'[r.sym] = 0 \/ (~account'.halted /\ ~kill')
  PROVE  CalmRun'
  <1>1. run' = [q \in Process |-> IF q = p THEN r ELSE run[q]]
    BY DEF ShadowTypes, TypeOK
  <1>2. \A q \in Process : q # p => run'[q].pc = "idle"
    BY <1>1 DEF CalmRun, Alone
  <1>3. run'[p] = r
    BY <1>1
  <1>4. Alone'
    BY <1>2 DEF Alone
  <1>5. Aware'
    BY <1>2, <1>3 DEF Aware
  <1>6. ASSUME NEW q \in Process, run'[q].pc \in {"fetch", "bars"} PROVE MayFill(run[q].sym)'
    <2>1. q = p
      BY <1>2, <1>6
    <2> QED
      BY <1>3, <1>6, <2>1 DEF MayFill
  <1>7. Cleared'
    BY <1>6 DEF Cleared
  <1> QED
    BY <1>4, <1>5, <1>7 DEF CalmRun

\* Account, orders and switch, which the advance is held back by.
Scene == <<account, pending, kill>>

LEMMA SceneKeeps ==
  ASSUME UNCHANGED Scene
  PROVE  /\ HeldHasNoOrder => HeldHasNoOrder'
         /\ \A s \in Symbol : MayFill(s) <=> MayFill(s)'
         /\ account' = account
  BY DEF Scene, HeldHasNoOrder, MayFill

\* A run that goes on without a change of the scene, and with what it knew.
LEMMA CalmRunMoves ==
  ASSUME ShadowTypes, CalmRun, NEW p \in Process, NEW r \in Run, run[p].pc # "idle",
         run' = [run EXCEPT ![p] = r], UNCHANGED Scene,
         r.pc # "idle" => r.mem \in {run[p].mem, account},
         r.pc \in {"fetch", "bars"} => r.sym \in Symbol /\ MayFill(r.sym)
  PROVE  CalmRun'
  <1>1. run[p].mem = account
    BY DEF CalmRun, Aware
  <1>2. r.pc # "idle" => r.mem = account'
    BY <1>1, SceneKeeps
  <1>3. r.pc \in {"fetch", "bars"} =>
          pending'[r.sym] = 0 \/ (~account'.halted /\ ~kill')
    BY Zenon DEF Scene, MayFill
  <1> QED
    BY <1>2, <1>3, CalmRunGoesOn

\* Back keeps the account the run knows; the new one is given where it has one.
LEMMA BackKnows ==
  ASSUME NEW r \in Run, NEW pc \in {"decide", "advance"}, NEW mem \in Account
  PROVE  /\ Back(r, pc).mem = r.mem
         /\ [Back(r, pc) EXCEPT !.mem = mem].mem = mem
  <1>1. IdleRun \in Run
    BY IdleRunFits
  <1>2. Back(r, pc) \in Run /\ Back(r, pc).pc = pc /\ Back(r, pc).mem = r.mem
    BY <1>1 DEF Back, Run
  <1> QED
    BY <1>2, BackFits DEF Run

LEMMA BackKeepsCalmRun ==
  ASSUME ShadowTypes, CalmRun, NEW p \in Process, NEW pc \in {"decide", "advance"},
         run[p].pc # "idle", UNCHANGED Scene,
         \/ run' = [run EXCEPT ![p] = Back(run[p], pc)]
         \/ run' = [run EXCEPT ![p] = [Back(run[p], pc) EXCEPT !.mem = account]]
         \/ run' = [run EXCEPT ![p] = IdleRun]
  PROVE  CalmRun'
  <1>1. run[p] \in Run /\ run[p].mem \in Account /\ account \in Account
    BY DEF ShadowTypes, TypeOK, Run
  <1>2. CASE run' = [run EXCEPT ![p] = Back(run[p], pc)]
    <2> DEFINE r == Back(run[p], pc)
    <2>1. r \in Run /\ r.pc \notin {"fetch", "bars"} /\ r.mem = run[p].mem
      <3>1. r \in Run /\ r.pc = pc
        BY <1>1, BackFits
      <3>2. r.mem = run[p].mem
        BY <1>1, BackKnows
      <3> QED
        BY <3>1, <3>2
    <2> HIDE DEF r
    <2>2. run' = [run EXCEPT ![p] = r]
      BY <1>2 DEF r
    <2> QED
      BY <2>1, <2>2, CalmRunMoves
  <1>3. CASE run' = [run EXCEPT ![p] = [Back(run[p], pc) EXCEPT !.mem = account]]
    <2> DEFINE r == [Back(run[p], pc) EXCEPT !.mem = account]
    <2>1. r \in Run /\ r.pc \notin {"fetch", "bars"} /\ r.mem = account
      BY <1>1, BackFits, BackKnows
    <2>2. run' = [run EXCEPT ![p] = r]
      BY <1>3
    <2> HIDE DEF r
    <2> QED
      BY <2>1, <2>2, CalmRunMoves
  <1>4. CASE run' = [run EXCEPT ![p] = IdleRun]
    BY <1>4, IdleRunFits, CalmRunMoves
  <1> QED
    BY <1>2, <1>3, <1>4

\* Every step of a run but its start is a step of a run that is under way; the
\* scene changes in Submit and NewBarProcessed only.
LEMMA QuietStepsKeepCalmRun ==
  ASSUME ShadowTypes, CalmRun, HeldHasNoOrder, NEW p \in Process, RunNext(p),
         ~Start(p), ~Submit(p), ~NewBarProcessed(p)
  PROVE  CalmRun' /\ UNCHANGED Scene
  <1>1. UNCHANGED Scene
    BY DEF RunNext, Critique, SavePrediction, Bridge, Gather, Fetch, FetchFails, OldBar,
           BarRaises, Finish, Crash, Pass, Decide, Guard, Scene, book
  <1>2. run \in [Process -> Run] /\ run[p] \in Run /\ run[p].mem \in Account /\ Fits(run[p], shown)
    BY DEF ShadowTypes, TypeOK, RunsFit, Run
  <1>3. ASSUME NEW s \in Symbol, Pass(p, s) PROVE CalmRun'
    <2> DEFINE r == [run[p] EXCEPT !.todo = @ \ {s}]
    <2>1. r \in Run /\ r.pc = "decide" /\ r.mem = run[p].mem /\ run[p].pc = "decide"
      BY <1>2, <1>3 DEF Run, Pass
    <2>2. run' = [run EXCEPT ![p] = r]
      BY <1>3 DEF Pass
    <2> HIDE DEF r
    <2> QED
      BY <1>1, <2>1, <2>2, CalmRunMoves
  <1>4. ASSUME NEW s \in Symbol, Decide(p, s) PROVE CalmRun'
    <2>1. PICK price \in Price :
            run' = [run EXCEPT ![p].todo = @ \ {s}, ![p].pc = "critique",
                      ![p].signal = [sym |-> s, entry |-> shown[s], price |-> price]]
      BY <1>4 DEF Decide
    <2> DEFINE signal == [sym |-> s, entry |-> shown[s], price |-> price]
               r == [run[p] EXCEPT !.todo = @ \ {s}, !.pc = "critique", !.signal = signal]
    <2>2. signal \in SignalId
      <3>1. shown[s] \in 1 .. MaxBar
        BY DEF ShadowTypes, TypeOK
      <3> QED
        BY <3>1 DEF SignalId
    <2>3. run' = [run EXCEPT ![p] = r]
      BY <1>2, <2>1
    <2>4. r \in Run /\ r.pc = "critique" /\ r.mem = run[p].mem /\ run[p].pc = "decide"
      <3> HIDE DEF signal
      <3> QED
        BY <1>2, <1>4, <2>2 DEF Run, Decide
    <2> HIDE DEF r
    <2> QED
      BY <1>1, <2>3, <2>4, CalmRunMoves
  <1>5. CASE Critique(p)
    <2>1. run[p].pc = "critique"
      BY <1>5 DEF Critique
    <2>2. CASE Predicted(run[p].signal)
      BY <1>1, <1>5, <2>1, <2>2, BackKeepsCalmRun DEF Critique
    <2>3. CASE ~Predicted(run[p].signal)
      <3>1. PICK v \in IF HardFailure(run[p].signal.sym) THEN {"REJECT"} ELSE FreeVerdict :
              run' = [run EXCEPT ![p].pc = "save", ![p].verdict = v]
        BY <1>5, <2>3 DEF Critique
      <3> DEFINE r == [run[p] EXCEPT !.pc = "save", !.verdict = v]
      <3>2. v \in Verdict
        BY <3>1, ShadowAssumption DEF Verdict, Blocking
      <3>3. run' = [run EXCEPT ![p] = r]
        BY <1>2, <3>1
      <3>4. r \in Run /\ r.pc = "save" /\ r.mem = run[p].mem
        BY <1>2, <3>2 DEF Run
      <3> HIDE DEF r
      <3> QED
        BY <1>1, <2>1, <3>3, <3>4, CalmRunMoves
    <2> QED
      BY <2>2, <2>3
  <1>6. CASE SavePrediction(p)
    <2>1. run[p].pc = "save"
      BY <1>6 DEF SavePrediction
    <2>2. PICK r \in {[run[p] EXCEPT !.pc = "bridge"], Back(run[p], "decide")} :
            run' = [run EXCEPT ![p] = r]
      BY <1>6 DEF SavePrediction
    <2>3. CASE r = Back(run[p], "decide")
      BY <1>1, <2>1, <2>2, <2>3, BackKeepsCalmRun
    <2>4. CASE r = [run[p] EXCEPT !.pc = "bridge"]
      <3>1. r \in Run /\ r.pc = "bridge" /\ r.mem = run[p].mem
        BY <1>2, <2>4 DEF Run
      <3> QED
        BY <1>1, <2>1, <2>2, <3>1, CalmRunMoves
    <2> QED
      BY <2>2, <2>3, <2>4
  <1>7. CASE Bridge(p)
    <2>1. run[p].pc = "bridge"
      BY <1>7 DEF Bridge
    <2>2. PICK r \in {[run[p] EXCEPT !.pc = "submit"], Back(run[p], "decide")} :
            run' = [run EXCEPT ![p] = r]
      BY <1>7 DEF Bridge
    <2>3. CASE r = Back(run[p], "decide")
      BY <1>1, <2>1, <2>2, <2>3, BackKeepsCalmRun
    <2>4. CASE r = [run[p] EXCEPT !.pc = "submit"]
      <3>1. r \in Run /\ r.pc = "submit" /\ r.mem = run[p].mem
        BY <1>2, <2>4 DEF Run
      <3> QED
        BY <1>1, <2>1, <2>2, <3>1, CalmRunMoves
    <2> QED
      BY <2>2, <2>3, <2>4
  <1>8. CASE Gather(p)
    <2> DEFINE todo == {s \in Symbol : pending[s] # 0 \/ account.open = s}
               r == [run[p] EXCEPT !.pc = "advance", !.todo = todo]
    <2>1. run' = [run EXCEPT ![p] = r] /\ run[p].pc = "decide"
      BY <1>2, <1>8 DEF Gather
    <2>2. r \in Run /\ r.pc = "advance" /\ r.mem = run[p].mem
      <3>1. todo \subseteq Symbol
        OBVIOUS
      <3> HIDE DEF todo
      <3> QED
        BY <1>2, <3>1 DEF Run
    <2> HIDE DEF r
    <2> QED
      BY <1>1, <2>1, <2>2, CalmRunMoves
  <1>9. CASE Fetch(p)
    <2> DEFINE sym == run[p].sym
               end == IF file[sym] # 0 THEN file[sym] ELSE shown[sym]
               r == [run[p] EXCEPT !.pc = "bars", !.last = end]
    <2>1. run[p].pc = "fetch" /\ sym \in Symbol /\ MayFill(sym)
      BY <1>2, <1>9 DEF Fetch, Fits, CalmRun, Cleared
    <2>2. \/ run' = [run EXCEPT ![p] = Back(run[p], "advance")]
          \/ run' = [run EXCEPT ![p] = r]
      BY <1>9 DEF Fetch
    <2>3. r \in Run /\ r.pc = "bars" /\ r.sym = sym /\ r.mem = run[p].mem
      <3>1. end \in Bar0
        BY <2>1, ShadowAssumption DEF ShadowTypes, TypeOK, Bar0
      <3> HIDE DEF end
      <3> QED
        BY <1>2, <3>1 DEF Run
    <2> HIDE DEF r
    <2> QED
      BY <1>1, <2>1, <2>2, <2>3, BackKeepsCalmRun, CalmRunMoves
  <1>10. CASE FetchFails(p) \/ BarRaises(p) \/ Finish(p) \/ Crash(p)
    BY <1>1, <1>10, BackKeepsCalmRun DEF FetchFails, BarRaises, Finish, Crash
  <1>11. CASE OldBar(p)
    <2>1. run[p].pc = "bars" /\ run[p].sym \in Symbol /\ MayFill(run[p].sym) /\ account \in Account
      BY <1>2, <1>11 DEF OldBar, Fits, CalmRun, Cleared, ShadowTypes, TypeOK
    <2> DEFINE r == [run[p] EXCEPT !.next = @ + 1, !.mem = account]
    <2>2. \/ run' = [run EXCEPT ![p] = [Back(run[p], "advance") EXCEPT !.mem = account]]
          \/ run' = [run EXCEPT ![p] = r] /\ AfterBar(run[p], account) = r
      BY <1>11 DEF OldBar, AfterBar
    <2>3. AfterBar(run[p], account) \in Run
      BY <2>1, AfterBarFits
    <2>4. AfterBar(run[p], account) = r =>
            r \in Run /\ r.pc = "bars" /\ r.sym = run[p].sym /\ r.mem = account
      BY <1>2, <2>1, <2>3 DEF Run
    <2> HIDE DEF r
    <2> QED
      BY <1>1, <2>1, <2>2, <2>4, BackKeepsCalmRun, CalmRunMoves
  <1>12. ASSUME NEW s \in Symbol, Guard(p, s) PROVE CalmRun'
    <2> DEFINE left  == [run[p] EXCEPT !.todo = @ \ {s}]
               going == [left EXCEPT !.pc = "fetch", !.sym = s, !.next = Baseline(s) + 1]
    <2>1. run[p].pc = "advance"
      BY <1>12 DEF Guard
    <2>2. \/ run' = [run EXCEPT ![p] = left]
          \/ run' = [run EXCEPT ![p] = going] /\ ~HeldBack(s, run[p].mem)
      BY <1>12 DEF Guard
    <2>3. left \in Run /\ left.pc = "advance" /\ left.mem = run[p].mem
      BY <1>2, <2>1 DEF Run
    <2>4. going \in Run /\ going.pc = "fetch" /\ going.sym = s /\ going.mem = run[p].mem
      <3>1. Baseline(s) + 1 \in 0 .. MaxBar + 1
        BY ShadowAssumption DEF ShadowTypes, TypeOK, Baseline, Bar0
      <3> HIDE DEF left
      <3> QED
        BY <2>3, <3>1 DEF Run
    <2>5. run[p].mem = account
      BY <2>1 DEF CalmRun, Aware
    <2>6. ~HeldBack(s, run[p].mem) => MayFill(s)
      BY <2>5, Zenon DEF HeldBack, MayFill, HeldHasNoOrder
    <2> HIDE DEF left, going
    <2> QED
      BY <1>1, <2>1, <2>2, <2>3, <2>4, <2>6, CalmRunMoves
  <1>13. CalmRun'
    BY <1>3, <1>4, <1>5, <1>6, <1>7, <1>8, <1>9, <1>10, <1>11, <1>12 DEF RunNext
  <1> QED
    BY <1>1, <1>13

\* Only a run that starts when there is no other is calm, and it is alone.
LEMMA StartKeepsHaltInv ==
  ASSUME HaltInv, NEW p \in Process, Start(p)
  PROVE  HeldHasNoOrder' /\ (calm' => CalmRun')
  <1>1. UNCHANGED Scene
    BY DEF Start, Scene, book
  <1>2. HeldHasNoOrder'
    BY <1>1, SceneKeeps DEF HaltInv
  <1>3. run \in [Process -> Run] /\ account \in Account
    BY DEF HaltInv, ShadowTypes, TypeOK
  <1>4. ASSUME calm' PROVE CalmRun'
    <2>1. \A q \in Process : run[q].pc = "idle"
      BY <1>4, Zenon DEF Start, Active
    <2>2. PICK scanned \in SUBSET Symbol :
            run' = [run EXCEPT ![p] = [IdleRun EXCEPT !.pc = "decide", !.todo = scanned,
                                                      !.mem = account]]
      BY DEF Start
    <2>3. run'[p].pc = "decide" /\ run'[p].mem = account
      BY <1>3, <2>2, IdleRunFits DEF Run
    <2>4. \A q \in Process : q # p => run'[q].pc = "idle"
      BY <1>3, <2>1, <2>2
    <2>5. account' = account
      BY <1>1, SceneKeeps
    <2> QED
      BY <2>3, <2>4, <2>5 DEF CalmRun, Alone, Aware, Cleared
  <1> QED
    BY <1>2, <1>4

\* An order is only made when the account holds nothing.
LEMMA SubmitKeepsHaltInv ==
  ASSUME HaltInv, NEW p \in Process, Submit(p)
  PROVE  HeldHasNoOrder' /\ (calm' => CalmRun') /\ \A s \in Symbol : ~FillsOn(s)
  <1>1. /\ run[p].pc = "submit" /\ run[p] \in Run /\ account \in Account
        /\ pending \in [Symbol -> Bar0] /\ NoSymbol \notin Symbol
    BY ShadowAssumption DEF HaltInv, ShadowTypes, TypeOK, Submit
  <1>2. run[p].signal \in SignalId
    BY <1>1 DEF HaltInv, ShadowTypes, RunsFit, Fits
  <1>3. account' = account /\ kill' = kill /\ calm' = calm
    BY DEF Submit
  <1>4. \/ pending' = pending
        \/ account.open = NoSymbol
           /\ pending' = [pending EXCEPT ![run[p].signal.sym] = run[p].signal.entry]
    BY DEF Submit
  <1>5. HeldHasNoOrder'
    BY <1>1, <1>3, <1>4 DEF HaltInv, HeldHasNoOrder
  <1>6. \A s \in Symbol : ~FillsOn(s)
    BY <1>1, <1>2, <1>4 DEF FillsOn, SignalId
  <1>7. PICK r \in {Back(run[p], "decide"), [Back(run[p], "decide") EXCEPT !.mem = account]} :
          run' = [run EXCEPT ![p] = r]
    BY DEF Submit
  <1>8. ASSUME calm PROVE CalmRun'
    <2>1. ShadowTypes /\ CalmRun /\ run[p].mem = account
      BY <1>1, <1>8 DEF HaltInv, CalmRun, Aware
    <2>2. CASE r = Back(run[p], "decide")
      <3>1. r \in Run /\ r.pc = "decide"
        BY <1>1, <2>2, BackFits
      <3>2. r.mem = run[p].mem
        BY <1>1, <2>2, BackKnows
      <3> QED
        BY <1>1, <1>3, <1>7, <2>1, <3>1, <3>2, CalmRunGoesOn
    <2>3. CASE r = [Back(run[p], "decide") EXCEPT !.mem = account]
      <3>1. r \in Run /\ r.pc = "decide" /\ r.mem = account
        BY <1>1, <2>3, BackFits, BackKnows
      <3> QED
        BY <1>1, <1>3, <1>7, <2>1, <3>1, CalmRunGoesOn
    <2> QED
      BY <1>7, <2>2, <2>3
  <1> QED
    BY <1>3, <1>5, <1>6, <1>8, Zenon

\* A bar fills only what Guard let through; what it fills is an order no more,
\* so the halts it brings hold for the bars that follow.
LEMMA NewBarKeepsHaltInv ==
  ASSUME HaltInv, NEW p \in Process, NewBarProcessed(p)
  PROVE  /\ HeldHasNoOrder' /\ (calm' => CalmRun')
         /\ calm => \A s \in Symbol : FillsOn(s) => ~account.halted /\ ~kill
  <1> DEFINE sym == run[p].sym
  <1>1. /\ run[p].pc = "bars" /\ run[p] \in Run /\ sym \in Symbol
        /\ account \in Account /\ pending \in [Symbol -> Bar0] /\ NoSymbol \notin Symbol
    BY ShadowAssumption DEF HaltInv, ShadowTypes, TypeOK, RunsFit, Fits, NewBarProcessed
  <1>2. /\ pending' = IF account.open = sym THEN pending ELSE [pending EXCEPT ![sym] = 0]
        /\ run' = [run EXCEPT ![p] = AfterBar(run[p], account')]
        /\ kill' = kill /\ calm' = calm /\ account' \in AccountAfter(sym)
        /\ pending[sym] = 0 \/ account.open \in {NoSymbol, sym}
    BY DEF NewBarProcessed
  <1>3. pending'[sym] = 0 /\ \A s \in Symbol : s # sym => pending'[s] = pending[s]
    BY <1>1, <1>2 DEF HaltInv, HeldHasNoOrder
  <1>4. account'.open \in {account.open, sym, NoSymbol}
    BY <1>2 DEF AccountAfter
  <1>5. HeldHasNoOrder'
    BY <1>1, <1>3, <1>4 DEF HaltInv, HeldHasNoOrder
  <1>6. account' \in Account
    BY NewBarKeepsTypes DEF HaltInv, ShadowTypes, TypeOK
  <1>7. ASSUME calm PROVE CalmRun'
    <2>1. ShadowTypes /\ CalmRun
      BY <1>7 DEF HaltInv
    <2> DEFINE r == AfterBar(run[p], account')
    <2>2. r \in Run /\ r.pc \in {"bars", "advance"}
      BY <1>1, <1>6, <2>1, AfterBarFits
    <2>3. r.mem = account' /\ (r.pc = "bars" => r.sym = sym)
      <3>1. CASE run[p].next = run[p].last
        <4>1. r = [Back(run[p], "advance") EXCEPT !.mem = account']
          BY <3>1 DEF AfterBar
        <4> HIDE DEF r
        <4> QED
          BY <1>1, <1>6, <4>1, BackFits, BackKnows
      <3>2. CASE run[p].next # run[p].last
        BY <1>1, <3>2 DEF AfterBar, Run
      <3> QED
        BY <3>1, <3>2
    <2>5. r.pc \in {"fetch", "bars"} => pending'[r.sym] = 0
      BY <1>3, <2>2, <2>3
    <2>6. run' = [run EXCEPT ![p] = r]
      BY <1>2
    <2> HIDE DEF r
    <2> QED
      BY <1>1, <2>1, <2>2, <2>3, <2>5, <2>6, CalmRunGoesOn
  <1>8. ASSUME calm, NEW s \in Symbol, FillsOn(s) PROVE ~account.halted /\ ~kill
    <2>1. s = sym
      BY <1>3, <1>8 DEF FillsOn
    <2>2. MayFill(sym)
      BY <1>1, <1>8 DEF HaltInv, CalmRun, Cleared
    <2> QED
      BY <1>8, <2>1, <2>2, Zenon DEF MayFill, FillsOn
  <1> QED
    BY <1>2, <1>5, <1>7, <1>8, Zenon

\* The switch that moves during a run ends the calm; nothing else of the
\* environment touches what a run is held back by.
LEMMA EnvironmentKeepsHaltInv ==
  ASSUME HaltInv, (\E s \in Symbol : Publish(s)) \/ ToggleKill \/ DeleteFiles \/ UNCHANGED vars
  PROVE  HeldHasNoOrder' /\ (calm' => CalmRun') /\ pending' = pending
  <1>1. run' = run /\ account' = account /\ pending' = pending
    BY DEF Publish, ToggleKill, DeleteFiles, vars, book
  <1>2. HeldHasNoOrder'
    BY <1>1 DEF HaltInv, HeldHasNoOrder
  <1>3. CASE ToggleKill
    <2>1. ASSUME calm' PROVE CalmRun'
      <3>1. Active = {}
        BY <1>3, <2>1, Zenon DEF ToggleKill
      <3>2. \A q \in Process : run'[q].pc = "idle"
        BY <1>1, <3>1 DEF Active
      <3> QED
        BY <3>2 DEF CalmRun, Alone, Aware, Cleared
    <2> QED
      BY <1>1, <1>2, <2>1, Zenon
  <1>4. CASE (\E s \in Symbol : Publish(s)) \/ DeleteFiles \/ UNCHANGED vars
    <2>1. kill' = kill /\ calm' = calm
      BY <1>4 DEF Publish, DeleteFiles, vars
    <2>2. ASSUME calm PROVE CalmRun'
      <3>1. CalmRun
        BY <2>2 DEF HaltInv
      <3> QED
        BY <1>1, <2>1, <3>1, Zenon DEF CalmRun, Alone, Aware, Cleared, MayFill
    <2> QED
      BY <1>1, <1>2, <2>1, <2>2, Zenon
  <1> QED
    BY <1>3, <1>4

LEMMA NextKeepsHaltInv ==
  ASSUME HaltInv, [Next]_vars
  PROVE  HaltInv' /\ (calm => \A s \in Symbol : FillsOn(s) => ~account.halted /\ ~kill)
  <1>1. ShadowTypes'
    BY NextKeepsTypes DEF HaltInv
  <1>2. ASSUME NEW p \in Process, RunNext(p), ~Start(p), ~Submit(p), ~NewBarProcessed(p)
        PROVE  HeldHasNoOrder' /\ (calm' => CalmRun') /\ \A s \in Symbol : ~FillsOn(s)
    <2>1. calm' = calm /\ UNCHANGED Scene
      BY <1>2 DEF RunNext, Critique, SavePrediction, Bridge, Gather, Fetch, FetchFails, OldBar,
                  BarRaises, Finish, Crash, Pass, Decide, Guard, Scene, book
    <2>2. calm => CalmRun'
      BY <1>2, QuietStepsKeepCalmRun DEF HaltInv
    <2>3. \A s \in Symbol : ~FillsOn(s)
      BY <2>1 DEF Scene, FillsOn
    <2> QED
      BY <2>1, <2>2, <2>3, SceneKeeps DEF HaltInv
  <1>3. ASSUME NEW p \in Process, Start(p) PROVE \A s \in Symbol : ~FillsOn(s)
    BY <1>3 DEF Start, book, FillsOn
  <1>4. ASSUME NEW p \in Process, RunNext(p)
        PROVE  /\ HeldHasNoOrder' /\ (calm' => CalmRun')
               /\ calm => \A s \in Symbol : FillsOn(s) => ~account.halted /\ ~kill
    <2>1. CASE Start(p)
      BY <1>3, <2>1, StartKeepsHaltInv
    <2>2. CASE Submit(p)
      BY <2>2, SubmitKeepsHaltInv
    <2>3. CASE NewBarProcessed(p)
      BY <2>3, NewBarKeepsHaltInv
    <2>4. CASE ~Start(p) /\ ~Submit(p) /\ ~NewBarProcessed(p)
      BY <1>2, <1>4, <2>4
    <2> QED
      BY <2>1, <2>2, <2>3, <2>4
  <1>5. CASE (\E s \in Symbol : Publish(s)) \/ ToggleKill \/ DeleteFiles \/ UNCHANGED vars
    <2>1. \A s \in Symbol : ~FillsOn(s)
      BY <1>5, EnvironmentKeepsHaltInv DEF FillsOn
    <2> QED
      BY <1>1, <1>5, <2>1, EnvironmentKeepsHaltInv DEF HaltInv
  <1> QED
    BY <1>1, <1>4, <1>5 DEF HaltInv, Next

LEMMA InitHaltInv == Init => HaltInv
  <1> SUFFICES ASSUME Init PROVE HaltInv
    OBVIOUS
  <1>1. ShadowTypes
    BY InitTypes
  <1>2. \A p \in Process : run[p].pc = "idle"
    BY DEF Init, IdleRun
  <1>3. HeldHasNoOrder
    BY DEF Init, HeldHasNoOrder
  <1> QED
    BY <1>1, <1>2, <1>3 DEF HaltInv, CalmRun, Alone, Aware, Cleared

\* A process that is alone with the book and the switch fills no old order
\* once the account is halted or the switch is on, whichever symbol of the same
\* advance brought the halt, and wherever earlier runs died.
THEOREM HaltsHoldFills == Spec => HaltHoldsFills
  <1>1. Spec => []HaltInv
    BY InitHaltInv, NextKeepsHaltInv, PTL DEF Spec
  <1>2. HaltInv /\ [Next]_vars =>
          [calm => \A s \in Symbol : FillsOn(s) => ~account.halted /\ ~kill]_vars
    BY NextKeepsHaltInv
  <1> QED
    BY <1>1, <1>2, PTL DEF Spec, HaltHoldsFills
===============================================================================
