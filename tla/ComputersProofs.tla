-------------------------- MODULE ComputersProofs --------------------------
(* What TLAPS proves of the sandbox manager and the computer service, for  *)
(* any requests and any bounds: browser actions exclude each other, and    *)
(* the idle monitor spares the containers that are in use; an agent's      *)
(* request that arrives while the user holds the computer waits, whatever  *)
(* is read, refreshed, woken and written back meanwhile; every variable    *)
(* keeps its type; the team shares one computer; and no container is left  *)
(* without a row.                                                          *)
EXTENDS Computers, FiniteSetTheorems, NaturalsInduction, WellFoundedInduction, TLAPS

-----------------------------------------------------------------------------
(* Types, as far as the proofs need them.                                  *)

Boxes == {"none", "created", "running", "exited"}
Sessions == [status : Statuses \cup {"none"}, control : Nat]
Busy == {"find", "make", "start", "stop", "delete", "run", "running"}
Over == {"none", "ok", "failed"}
Mops == [op : {"create", "browser", "exec", "remove", "none"}, id : Ids \cup {NoId},
         pc : Busy \cup Over \cup {"queued"}, tries : Nat]
Pcs == {"idle", "rows", "boxes", "write", "lapse", "decide", "calls", "joins", "undo",
        "undoBox", "erase", "done", "failed"}
Reqs == [kind : Kinds \cup {"none"}, pc : Pcs, id : Ids \cup {NoId}, creates : BOOLEAN,
         left : SUBSET Ids, seen : [Ids -> Boxes], mine : [Ids -> Sessions],
         under : (Ids \cup {NoId}) \X Nat]

SandboxTyped ==
    /\ box \in [Ids -> Boxes]
    /\ used \in [Ids -> {"unknown", "fresh", "old"}]
    /\ lock \in Seq(Slots)
    /\ commands \subseteq Slots
    /\ mop \in [Slots -> Mops]
    /\ failures \in Nat
ServiceTyped ==
    /\ row \in [Ids -> Sessions]
    /\ req \in [Slots -> Reqs]
    /\ nextId \in Nat \ {0}
    /\ taken \in Nat
    /\ grip \in (Ids \cup {NoId}) \X Nat
Typed == SandboxTyped /\ ServiceTyped

LEMMA InitTyped == Init => Typed
<1> SUFFICES ASSUME Init PROVE Typed
  OBVIOUS
<1>1. SandboxTyped
  BY SandboxAssumption
     DEF Init, SandboxInit, SandboxTyped, Boxes, Mops, Busy, Over, NoMop, NoId
<1>2. NoReq \in Reqs
  BY DEF NoReq, Reqs, Kinds, Acts, Execs, Pcs, Boxes, Sessions, NoRow, NoGrip, Watch, NoId
<1>3. ServiceTyped
  BY <1>2 DEF Init, ServiceTyped, Sessions, NoRow, Statuses, NoGrip, Watch, NoId
<1> QED
  BY <1>1, <1>3 DEF Typed

\* A request in whose record some fields change.
LEMMA PcSet ==
  ASSUME NEW q \in Reqs, NEW pc \in Pcs
  PROVE  [q EXCEPT !.pc = pc] \in Reqs
  BY DEF Reqs
LEMMA MineSet ==
  ASSUME NEW q \in Reqs, NEW mine \in [Ids -> Sessions]
  PROVE  [q EXCEPT !.mine = mine] \in Reqs
  BY DEF Reqs
LEMMA LeftSet ==
  ASSUME NEW q \in Reqs, NEW left \in SUBSET Ids
  PROVE  [q EXCEPT !.left = left] \in Reqs
  BY DEF Reqs
LEMMA SeenSet ==
  ASSUME NEW q \in Reqs, NEW seen \in [Ids -> Boxes]
  PROVE  [q EXCEPT !.seen = seen] \in Reqs
  BY DEF Reqs
LEMMA CreatesSet ==
  ASSUME NEW q \in Reqs, NEW creates \in BOOLEAN
  PROVE  [q EXCEPT !.creates = creates] \in Reqs
  BY DEF Reqs

\* Sessions as the service rewrites them.
LEMMA StatusSet ==
  ASSUME NEW s \in Sessions
  PROVE  /\ [s EXCEPT !.status = "running"] \in Sessions
         /\ \A b : WithSandbox(s, b) \in Sessions
  BY DEF Sessions, WithSandbox, Status, Statuses
LEMMA ControlSet ==
  ASSUME NEW s \in Sessions, NEW k \in Nat
  PROVE  [s EXCEPT !.control = k] \in Sessions
  BY DEF Sessions

-----------------------------------------------------------------------------
(* The steps of the service.                                               *)

\* Request r goes on as q.
Turns(r, q) == q \in Reqs /\ req' = [req EXCEPT ![r] = q]

\* A request that reads, refreshes or begins.
LEMMA ReadingTurns ==
  ASSUME Typed, NEW r \in Slots,
         \/ \E kind \in Kinds : Begin(r, kind)
         \/ ReadRows(r) \/ ReadBoxes(r) \/ WriteBack(r) \/ NormalizeLease(r)
  PROVE  /\ \E q : Turns(r, q)
         /\ row' \in [Ids -> Sessions]
         /\ req[r].pc \in {"idle", "rows", "boxes", "write", "lapse"}
         /\ UNCHANGED <<sandboxVars, nextId, taken, grip>>
<1> USE DEF Typed, ServiceTyped
<1> PICK old \in Reqs : old = req[r]
  OBVIOUS
<1>1. ASSUME NEW kind \in Kinds, Begin(r, kind) PROVE \E q : Turns(r, q)
  <2>1. PICK i \in Ids \cup {NoId} :
           req' = [req EXCEPT ![r].kind = kind, ![r].pc = "rows", ![r].id = i, ![r].under = grip]
    BY <1>1 DEF Begin
  <2>2. [old EXCEPT !.kind = kind, !.pc = "rows", !.id = i, !.under = grip] \in Reqs
    BY DEF Reqs, Pcs
  <2>3. req' = [req EXCEPT ![r] = [old EXCEPT !.kind = kind, !.pc = "rows", !.id = i, !.under = grip]]
    BY <2>1
  <2> QED
    BY <2>2, <2>3 DEF Turns
<1>2. ASSUME ReadRows(r) PROVE \E q : Turns(r, q)
  <2> DEFINE ids == IF req[r].id = NoId THEN Rows ELSE Rows \cap {req[r].id}
             m == [i \in Ids |-> IF i \in ids THEN row[i] ELSE NoRow]
  <2>1. NoRow \in Sessions
    BY DEF NoRow, Sessions, Watch
  <2>2. m \in [Ids -> Sessions] /\ ids \in SUBSET Ids
    BY <2>1 DEF Rows
  <2>3. PICK pc \in Pcs : req' = [req EXCEPT ![r].pc = pc, ![r].left = ids, ![r].mine = m]
    BY <1>2 DEF ReadRows, Pcs
  <2> HIDE DEF ids, m
  <2>4. req' = [req EXCEPT ![r] = [old EXCEPT !.pc = pc, !.left = ids, !.mine = m]]
    BY <2>3
  <2>5. [old EXCEPT !.pc = pc, !.left = ids, !.mine = m] \in Reqs
    BY <2>2 DEF Reqs
  <2> QED
    BY <2>4, <2>5 DEF Turns
<1>3. ASSUME ReadBoxes(r) PROVE \E q : Turns(r, q)
  <2>1. PICK pc \in Pcs : req' = [req EXCEPT ![r].seen = box, ![r].pc = pc]
    BY <1>3 DEF ReadBoxes, After, Pcs
  <2>2. req' = [req EXCEPT ![r] = [old EXCEPT !.seen = box, !.pc = pc]]
    BY <2>1
  <2>3. [old EXCEPT !.seen = box, !.pc = pc] \in Reqs
    BY DEF SandboxTyped, Reqs
  <2> QED
    BY <2>2, <2>3 DEF Turns
<1>4. ASSUME WriteBack(r) PROVE (\E q : Turns(r, q)) /\ row' \in [Ids -> Sessions]
  <2>1. PICK i \in Ids, s \in Sessions, left \in SUBSET Ids, pc \in Pcs :
           /\ row' = [row EXCEPT ![i] = s]
           /\ req' = [req EXCEPT ![r].mine[i] = s, ![r].left = left, ![r].pc = pc,
                                 ![r].seen[i] = "none"]
    <3>1. PICK i \in req[r].left :
             LET s == WithSandbox(req[r].mine[i], req[r].seen[i]) IN
             /\ row' = [row EXCEPT ![i] = s]
             /\ req' = [req EXCEPT ![r].mine[i] = s,
                           ![r].left = IF Expired(s.control) THEN {i} \cup @ ELSE @ \ {i},
                           ![r].pc = IF Expired(s.control) THEN "lapse"
                                     ELSE IF req[r].left = {i} THEN After(r) ELSE "write",
                           ![r].seen[i] = "none"]
      BY <1>4 DEF WriteBack
    <3>2. i \in Ids /\ req[r].left \in SUBSET Ids /\ req[r].mine[i] \in Sessions
      BY DEF Reqs
    <3> DEFINE s == WithSandbox(req[r].mine[i], req[r].seen[i])
               left == IF Expired(s.control) THEN {i} \cup req[r].left ELSE req[r].left \ {i}
               pc == IF Expired(s.control) THEN "lapse"
                     ELSE IF req[r].left = {i} THEN After(r) ELSE "write"
    <3>3. s \in Sessions /\ left \in SUBSET Ids /\ pc \in Pcs
      BY <3>2, StatusSet DEF After, Pcs
    <3>4. req' = [req EXCEPT ![r].mine[i] = s, ![r].left = left, ![r].pc = pc,
                                 ![r].seen[i] = "none"]
      BY <3>1 DEF Reqs
    <3>5. row' = [row EXCEPT ![i] = s]
      BY <3>1
    <3> HIDE DEF s, left, pc
    <3> QED
      BY <3>2, <3>3, <3>4, <3>5
  <2> DEFINE q == [old EXCEPT !.mine = [old.mine EXCEPT ![i] = s], !.left = left, !.pc = pc,
                              !.seen = [old.seen EXCEPT ![i] = "none"]]
  <2>2. req' = [req EXCEPT ![r] = q]
    BY <2>1 DEF Reqs
  <2>3. [old.mine EXCEPT ![i] = s] \in [Ids -> Sessions] /\ [old.seen EXCEPT ![i] = "none"] \in [Ids -> Boxes]
    BY DEF Reqs, Boxes
  <2>4. q \in Reqs
    BY <2>3 DEF Reqs
  <2> QED
    BY <2>1, <2>2, <2>4 DEF Turns
<1>5. ASSUME NormalizeLease(r) PROVE (\E q : Turns(r, q)) /\ row' \in [Ids -> Sessions]
  <2>1. PICK i \in old.left :
           /\ row' = [row EXCEPT ![i] = [old.mine[i] EXCEPT !.control = Watch]]
           /\ req' = [req EXCEPT ![r].mine[i].control = Watch, ![r].left = @ \ {i},
                                ![r].pc = IF old.left = {i} THEN After(r) ELSE "write"]
    BY <1>5 DEF NormalizeLease
  <2>2. i \in Ids /\ old.mine[i] \in Sessions
    BY DEF Reqs
  <2>3. PICK s \in Sessions : s = [old.mine[i] EXCEPT !.control = Watch]
    BY <2>2, ControlSet DEF Watch
  <2>4. PICK pc \in Pcs : pc = IF old.left = {i} THEN After(r) ELSE "write"
    BY DEF After, Pcs
  <2>5. req' = [req EXCEPT ![r] = [old EXCEPT !.mine = [old.mine EXCEPT ![i] = s],
                                      !.left = old.left \ {i}, !.pc = pc]]
    BY <2>1, <2>3, <2>4 DEF Reqs
  <2>6. [old EXCEPT !.mine = [old.mine EXCEPT ![i] = s], !.left = old.left \ {i}, !.pc = pc] \in Reqs
    BY <2>2 DEF Reqs
  <2> QED
    BY <2>1, <2>3, <2>5, <2>6 DEF Turns
<1>6. UNCHANGED <<sandboxVars, nextId, taken, grip>>
  BY DEF Begin, ReadRows, ReadBoxes, WriteBack, NormalizeLease
<1>7. req[r].pc \in {"idle", "rows", "boxes", "write", "lapse"}
  BY DEF Begin, ReadRows, ReadBoxes, WriteBack, NormalizeLease, Pc
<1>8. ASSUME NEW kind \in Kinds, Begin(r, kind) \/ ReadRows(r) \/ ReadBoxes(r)
      PROVE  row' \in [Ids -> Sessions]
  BY <1>8 DEF Begin, ReadRows, ReadBoxes
<1>9. "list" \in Kinds
  BY DEF Kinds
<1> QED
  BY <1>1, <1>2, <1>3, <1>4, <1>5, <1>6, <1>7, <1>8, <1>9

\* What a call of the manager is.
LEMMA CallTyped ==
  ASSUME Typed, NEW r \in Slots, NEW op \in {"create", "browser", "exec", "remove"},
         NEW i \in Ids \cup {NoId}, Call(r, op, i)
  PROVE  \E m \in Mops :
            /\ m.op = op /\ m.id = i
            /\ m.pc = IF op = "browser" THEN "queued" ELSE "find"
            /\ mop' = [mop EXCEPT ![r] = m]
            /\ lock' = IF op = "browser" THEN Append(lock, r) ELSE lock
<1> DEFINE m == [op |-> op, id |-> i, tries |-> 0,
                 pc |-> IF op = "browser" THEN "queued" ELSE "find"]
<1>1. m \in Mops
  BY DEF Mops, Busy
<1> QED
  BY <1>1 DEF Call

\* Of some computers one is the newest.
LEMMA GreatestExists ==
  ASSUME NEW S \in SUBSET Ids, S # {}
  PROVE  \E i \in S : \A j \in S : j <= i
<1> DEFINE T == {MaxComputers - i : i \in S}
           R == OpToRel(<, Nat)
<1>1. \A i \in S : i \in Nat /\ i <= MaxComputers /\ MaxComputers - i \in Nat
  BY SandboxAssumption DEF Ids
<1>2. T \in SUBSET Nat /\ T # {}
  BY <1>1
<1>3. IsWellFoundedOn(R, Nat)
  BY NatLessThanWellFounded
<1>4. ASSUME NEW m \in Nat, NEW n \in Nat, n < m PROVE <<n, m>> \in R
  BY <1>4 DEF OpToRel
<1> HIDE DEF R, T
<1>5. PICK m \in T : \A n \in T : <<n, m>> \notin R
  BY <1>2, <1>3, WFMin
<1>6. PICK i \in S : m = MaxComputers - i
  BY DEF T
<1>7. ASSUME NEW j \in S PROVE j <= i
  <2>1. MaxComputers - j \in T /\ MaxComputers - j \in Nat /\ m \in Nat
    BY <1>1, <1>2, <1>5 DEF T
  <2>2. ~(MaxComputers - j < m)
    BY <1>4, <1>5, <2>1
  <2> QED
    BY <1>1, <1>6, <2>1, <2>2, SandboxAssumption
<1> QED
  BY <1>7

\* What a request acts on is a computer, or none.
LEMMA TargetTyped ==
  ASSUME Typed, NEW r \in Slots
  PROVE  Target(r) \in Ids \cup {NoId}
<1>1. ASSUME Read(r) # {} PROVE Newest(r) \in Ids
  <2>1. Read(r) \in SUBSET Ids
    BY DEF Read
  <2>2. \E i \in Read(r) : \A j \in Read(r) : j <= i
    BY <1>1, <2>1, GreatestExists
  <2> QED
    BY <1>1, <2>1, <2>2 DEF Newest
<1>2. req[r].id \in Ids \cup {NoId}
  BY DEF Typed, ServiceTyped, Reqs
<1> QED
  BY <1>1, <1>2 DEF Target, Newest

\* A request that has read its computer and decides, alone.
LEMMA DecidingTurns ==
  ASSUME Typed, NEW r \in Slots,
         \/ TakeOver(r) \/ ReturnControl(r) \/ Provision(r) \/ Act(r) \/ Wake(r) \/ Create(r)
         \/ RemoveComputer(r)
  PROVE  /\ req[r].pc = "decide"
         /\ row' \in [Ids -> Sessions]
         /\ nextId' \in Nat \ {0} /\ taken' \in Nat /\ grip' \in (Ids \cup {NoId}) \X Nat
         /\ UNCHANGED <<box, used, commands, stopping, failures>>
         /\ \E q : /\ Turns(r, q)
                  /\ \/ UNCHANGED <<mop, lock>>
                     \/ \E i \in Ids \cup {NoId}, op \in {"create", "browser", "exec", "remove"} :
                           /\ Call(r, op, i)
                           /\ q.pc = "calls"
<1> USE DEF Typed, ServiceTyped
<1> PICK old \in Reqs : old = req[r]
  OBVIOUS
<1>1. Target(r) \in Ids \cup {NoId}
  BY TargetTyped
<1>2. ASSUME NEW pc \in Pcs, Answers(r, pc)
      PROVE  \E q : Turns(r, q) /\ q.pc = pc
  <2>1. [old EXCEPT !.pc = pc] \in Reqs /\ [old EXCEPT !.pc = pc].pc = pc
    BY PcSet DEF Reqs
  <2>2. req' = [req EXCEPT ![r] = [old EXCEPT !.pc = pc]]
    BY <1>2 DEF Answers
  <2> QED
    BY <2>1, <2>2 DEF Turns
<1>3. {"done", "failed", "calls", "joins", "rows"} \subseteq Pcs
  BY DEF Pcs
<1>4. ASSUME NEW s \in Sessions, NEW i, row' = [row EXCEPT ![i] = s]
      PROVE  row' \in [Ids -> Sessions]
  BY <1>4
<1>5. CASE TakeOver(r)
  <2>1. Answers(r, "done") \/ Answers(r, "failed")
    BY <1>5 DEF TakeOver
  <2>2. row' \in [Ids -> Sessions] /\ taken' \in Nat
    <3>1. UNCHANGED <<row, taken>> \/
          /\ row' = [row EXCEPT ![Target(r)] = [Session(r) EXCEPT !.control = taken + 1]]
          /\ taken' = taken + 1
      BY <1>5 DEF TakeOver
    <3>2. Target(r) \in Ids => Session(r) \in Sessions
      BY DEF Session, Reqs
    <3>3. Target(r) \in Ids => [Session(r) EXCEPT !.control = taken + 1] \in Sessions
      BY <3>2, ControlSet
    <3> QED
      BY <3>1, <3>3
  <2>3. grip' \in (Ids \cup {NoId}) \X Nat
    <3>1. grip' \in {grip, NoGrip, <<Target(r), taken + 1>>}
      BY <1>5 DEF TakeOver
    <3> QED
      BY <1>1, <3>1 DEF NoGrip, Watch
  <2>4. req[r].pc = "decide" /\ UNCHANGED <<sandboxVars, nextId>>
    BY <1>5 DEF TakeOver, Pc
  <2> QED
    BY <1>2, <1>3, <2>1, <2>2, <2>3, <2>4 DEF sandboxVars
<1>6. CASE ReturnControl(r)
  <2>1. row' = [row EXCEPT ![Target(r)] = [Session(r) EXCEPT !.control = Watch]]
    BY <1>6 DEF ReturnControl
  <2>2. Target(r) \in Ids => [Session(r) EXCEPT !.control = Watch] \in Sessions
    BY ControlSet DEF Session, Reqs, Watch
  <2>3. row' \in [Ids -> Sessions]
    BY <2>1, <2>2
  <2>4. /\ req[r].pc = "decide" /\ Answers(r, "done") /\ grip' = NoGrip
        /\ UNCHANGED <<sandboxVars, nextId, taken>>
    BY <1>6 DEF ReturnControl, Pc
  <2> QED
    BY <1>2, <1>3, <2>3, <2>4 DEF sandboxVars, NoGrip, Watch
<1>7. CASE Provision(r)
  <2>1. \/ Answers(r, "failed") \/ Answers(r, "joins")
        \/ req' = [req EXCEPT ![r].pc = "rows", ![r].creates = TRUE]
    BY <1>7 DEF Provision
  <2>2. ASSUME req' = [req EXCEPT ![r].pc = "rows", ![r].creates = TRUE]
        PROVE  \E q : Turns(r, q)
    <3>1. req' = [req EXCEPT ![r] = [old EXCEPT !.pc = "rows", !.creates = TRUE]]
      BY <2>2
    <3>2. [old EXCEPT !.pc = "rows", !.creates = TRUE] \in Reqs
      BY DEF Reqs, Pcs
    <3> QED
      BY <3>1, <3>2 DEF Turns
  <2>3. req[r].pc = "decide" /\ UNCHANGED <<sandboxVars, row, nextId, taken, grip>>
    BY <1>7 DEF Provision, Pc
  <2> QED
    BY <1>2, <1>3, <2>1, <2>2, <2>3 DEF sandboxVars
<1>8. CASE Act(r)
  <2>1. \/ \E op \in {"browser", "exec"} : Call(r, op, Target(r)) /\ Answers(r, "calls")
        \/ Answers(r, "failed") /\ UNCHANGED <<mop, lock>>
    BY <1>8 DEF Act
  <2>2. /\ req[r].pc = "decide"
        /\ UNCHANGED <<box, used, commands, stopping, failures, row, nextId, taken, grip>>
    BY <1>8 DEF Act, Pc
  <2> QED
    BY <1>1, <1>2, <1>3, <2>1, <2>2
<1>9. CASE Wake(r) \/ RemoveComputer(r)
  <2>1. \E op \in {"create", "remove"} : Call(r, op, Target(r)) /\ Answers(r, "calls")
    BY <1>9 DEF Wake, RemoveComputer
  <2>2. /\ req[r].pc = "decide"
        /\ UNCHANGED <<box, used, commands, stopping, failures, row, nextId, taken, grip>>
    BY <1>9 DEF Wake, RemoveComputer, Pc
  <2> QED
    BY <1>1, <1>2, <1>3, <2>1, <2>2
<1>10. CASE Create(r)
  <2>1. PICK s : /\ s = [status |-> "creating", control |-> Watch]
                 /\ row' = [row EXCEPT ![nextId] = s]
                 /\ req' = [req EXCEPT ![r].pc = "calls", ![r].mine[nextId] = s]
    BY <1>10 DEF Create
  <2>2. s \in Sessions
    BY <2>1 DEF Sessions, Statuses, Watch
  <2>3. req' = [req EXCEPT ![r] = [old EXCEPT !.pc = "calls", !.mine = [old.mine EXCEPT ![nextId] = s]]]
    BY <2>1 DEF Reqs
  <2> DEFINE q == [old EXCEPT !.pc = "calls", !.mine = [old.mine EXCEPT ![nextId] = s]]
  <2>4. [old.mine EXCEPT ![nextId] = s] \in [Ids -> Sessions]
    BY <2>2 DEF Reqs
  <2>5. q \in Reqs /\ q.pc = "calls"
    BY <1>3, <2>4 DEF Reqs
  <2>6. /\ req[r].pc = "decide" /\ nextId \in Ids
        /\ Call(r, "create", nextId) /\ nextId' = nextId + 1
        /\ UNCHANGED <<box, used, commands, stopping, failures, taken, grip>>
    BY <1>10, SandboxAssumption DEF Create, Pc, Ids
  <2>7. Turns(r, q)
    BY <2>3, <2>5 DEF Turns
  <2> HIDE DEF q
  <2> QED
    BY <2>1, <2>2, <2>5, <2>6, <2>7
<1> QED
  BY <1>5, <1>6, <1>7, <1>8, <1>9, <1>10

\* A creation that ends takes along the requests that joined it.
LEMMA ResolvesTyped ==
  ASSUME Typed, NEW r \in Slots, NEW q \in [Slots -> Reqs], NEW pc, NEW s \in [Ids -> Sessions],
         \A t \in Slots : t # r => q[t] = req[t],
         Resolves(r, q, pc, s)
  PROVE  /\ req' \in [Slots -> Reqs]
         /\ \A t \in Slots : t = r \/ req'[t] = req[t] \/ req[t].pc = "joins"
<1>1. ASSUME NEW t \in Slots
      PROVE  Resolved(r, q, pc, s)[t] \in Reqs
  <2>1. PICK old \in Reqs : old = q[t]
    OBVIOUS
  <2>2. PICK x \in Pcs : x = IF pc = "failed" THEN "failed"
                            ELSE IF q[t].kind = "create" THEN "done" ELSE "decide"
    BY DEF Pcs
  <2>3. [old EXCEPT !.pc = x, !.mine = s, !.creates = FALSE] \in Reqs
    BY DEF Reqs
  <2> QED
    BY <2>1, <2>2, <2>3 DEF Resolved
<1>2. Resolved(r, q, pc, s) = [t \in Slots |-> Resolved(r, q, pc, s)[t]]
  BY DEF Resolved
<1>3. \A t \in Slots : t = r \/ Resolved(r, q, pc, s)[t] = req[t] \/ req[t].pc = "joins"
  BY DEF Resolved
<1>4. req' = Resolved(r, q, pc, s)
  BY DEF Resolves
<1> HIDE DEF Resolved
<1> QED
  BY <1>1, <1>2, <1>3, <1>4

\* A request that has its answer from the manager, or needs none.
LEMMA AnsweredTurns ==
  ASSUME Typed, NEW r \in Slots,
         \/ Found(r) \/ CreateReturns(r) \/ CreateFails(r) \/ Undo(r) \/ UndoBox(r)
         \/ ActReturns(r) \/ RemoveReturns(r) \/ Erase(r)
  PROVE  /\ ServiceTyped'
         /\ \A t \in Slots : t = r \/ req'[t] = req[t] \/ req[t].pc = "joins"
         /\ \/ req[r].pc \in {"decide", "undo", "undoBox", "erase"}
            \/ mop[r].op \in {"create", "remove"}
            \/ req'[r].pc \in {"done", "failed"}
         /\ UNCHANGED <<lock, mop, stopping>>
         /\ failures' \in {failures, failures + 1}
         /\ \/ UNCHANGED <<box, used, commands>>
            \/ \E i \in Ids \cup {NoId} :
                  /\ box' = [box EXCEPT ![i] = "none"]
                  /\ commands' = commands \ InBox(i)
                  /\ used' = [used EXCEPT ![i] = "unknown"]
<1> USE DEF Typed, ServiceTyped
<1>1. ASSUME NEW pc \in Pcs, Answers(r, pc)
      PROVE  /\ req' \in [Slots -> Reqs]
             /\ req'[r].pc = pc
             /\ \A t \in Slots : t = r \/ req'[t] = req[t]
  <2>1. PICK old \in Reqs : old = req[r]
    OBVIOUS
  <2>2. [old EXCEPT !.pc = pc] \in Reqs /\ [old EXCEPT !.pc = pc].pc = pc
    BY PcSet DEF Reqs
  <2>3. req' = [req EXCEPT ![r] = [old EXCEPT !.pc = pc]]
    BY <1>1, <2>1 DEF Answers
  <2> QED
    BY <2>2, <2>3
<1>2. {"done", "failed", "undo", "undoBox", "erase"} \subseteq Pcs
  BY DEF Pcs
<1>3. req[r].mine \in [Ids -> Sessions] /\ mop[r].id \in Ids \cup {NoId}
  BY DEF Reqs, SandboxTyped, Mops
<1>4. NoRow \in Sessions /\ NoGrip \in (Ids \cup {NoId}) \X Nat
  BY DEF NoRow, NoGrip, Sessions, Watch
<1>5. CASE Found(r)
  <2>1. /\ Resolves(r, req, "ok", req[r].mine) /\ req[r].pc = "decide"
        /\ UNCHANGED <<sandboxVars, row, nextId, taken, grip>>
    BY <1>5 DEF Found, Pc
  <2>2. /\ req' \in [Slots -> Reqs]
        /\ \A t \in Slots : t = r \/ req'[t] = req[t] \/ req[t].pc = "joins"
    BY <1>3, <2>1, ResolvesTyped
  <2> QED
    BY <2>1, <2>2 DEF sandboxVars
<1>6. CASE CreateReturns(r)
  <2>1. PICK s, q : /\ s = [req[r].mine[mop[r].id] EXCEPT !.status = "running"]
                    /\ row' = [row EXCEPT ![mop[r].id] = s]
                    /\ q = [req EXCEPT ![r].mine[mop[r].id] = s]
                    /\ Resolves(r, q, "ok", q[r].mine)
    BY <1>6 DEF CreateReturns
  <2>2. mop[r].id \in Ids => s \in Sessions
    BY <1>3, <2>1, StatusSet
  <2>3. PICK m \in [Ids -> Sessions] : m = [req[r].mine EXCEPT ![mop[r].id] = s]
    BY <1>3, <2>2
  <2>4. PICK old \in Reqs : old = req[r]
    OBVIOUS
  <2>5. q = [req EXCEPT ![r] = [old EXCEPT !.mine = m]]
    BY <2>1, <2>3, <2>4 DEF Reqs
  <2>6. [old EXCEPT !.mine = m] \in Reqs /\ [old EXCEPT !.mine = m].mine = m
    BY MineSet DEF Reqs
  <2>7. q \in [Slots -> Reqs] /\ q[r].mine = m /\ \A t \in Slots : t # r => q[t] = req[t]
    BY <2>5, <2>6
  <2>8. /\ req' \in [Slots -> Reqs]
        /\ \A t \in Slots : t = r \/ req'[t] = req[t] \/ req[t].pc = "joins"
    BY <2>1, <2>7, ResolvesTyped
  <2>9. row' \in [Ids -> Sessions]
    BY <2>1, <2>2
  <2>10. /\ mop[r].op = "create"
         /\ UNCHANGED <<lock, mop, stopping, failures, box, used, commands, nextId, taken, grip>>
    BY <1>6 DEF CreateReturns, Succeeded
  <2> QED
    BY <2>8, <2>9, <2>10
<1>7. failures' \in {failures, failures + 1}
  BY DEF Found, CreateReturns, CreateFails, Undo, UndoBox, ActReturns, RemoveReturns, Erase,
         Succeeded, Failed, GivesUp, sandboxVars
<1>8. CASE CreateFails(r)
  <2>1. Answers(r, "undo") \/ Resolves(r, req, "failed", req[r].mine)
    BY <1>8 DEF CreateFails
  <2>2. /\ req' \in [Slots -> Reqs]
        /\ \A t \in Slots : t = r \/ req'[t] = req[t] \/ req[t].pc = "joins"
    BY <1>1, <1>2, <1>3, <2>1, ResolvesTyped
  <2>3. /\ mop[r].op = "create"
        /\ UNCHANGED <<lock, mop, stopping, box, used, commands, row, nextId, taken, grip>>
    BY <1>8 DEF CreateFails
  <2> QED
    BY <1>7, <2>2, <2>3
<1>9. CASE Undo(r) \/ Erase(r)
  <2>1. /\ Answers(r, "undoBox") \/ Answers(r, "done")
        /\ req[r].pc \in {"undo", "erase"}
        /\ \E i : row' = [row EXCEPT ![i] = NoRow]
        /\ grip' \in {NoGrip, grip}
        /\ UNCHANGED <<sandboxVars, nextId, taken>>
    BY <1>9 DEF Undo, Erase, Pc
  <2> QED
    BY <1>1, <1>2, <1>4, <2>1 DEF sandboxVars
<1>10. CASE UndoBox(r)
  <2>1. /\ Resolves(r, req, "failed", req[r].mine) /\ req[r].pc = "undoBox"
        /\ UNCHANGED <<lock, mop, stopping, row, nextId, taken, grip>>
        /\ \/ UNCHANGED <<box, used, commands>>
           \/ /\ box' = [box EXCEPT ![mop[r].id] = "none"]
              /\ commands' = commands \ InBox(mop[r].id)
              /\ used' = [used EXCEPT ![mop[r].id] = "unknown"]
    BY <1>10 DEF UndoBox, Pc
  <2>2. /\ req' \in [Slots -> Reqs]
        /\ \A t \in Slots : t = r \/ req'[t] = req[t] \/ req[t].pc = "joins"
    BY <1>3, <2>1, ResolvesTyped
  <2> QED
    BY <1>3, <1>7, <2>1, <2>2
<1>11. CASE ActReturns(r)
  <2>1. /\ Answers(r, "done") \/ Answers(r, "failed")
        /\ UNCHANGED <<lock, mop, stopping, box, used, commands, row, nextId, taken, grip>>
    BY <1>11 DEF ActReturns
  <2> QED
    BY <1>1, <1>2, <1>7, <2>1
<1>12. CASE RemoveReturns(r)
  <2>1. /\ Answers(r, "erase") \/ Answers(r, "failed")
        /\ mop[r].op = "remove"
        /\ UNCHANGED <<lock, mop, stopping, box, used, commands, row, nextId, taken, grip>>
    BY <1>12 DEF RemoveReturns
  <2> QED
    BY <1>1, <1>2, <1>7, <2>1
<1> QED
  BY <1>5, <1>6, <1>8, <1>9, <1>10, <1>11, <1>12

-----------------------------------------------------------------------------
(* The lock and the idle monitor: the invariant.                           *)

\* Only a request that waits for the manager's answer, or has ended, has an
\* action or a command there.
Called == \A r \in Slots :
    mop[r].op \in {"browser", "exec"} => req[r].pc \in {"calls", "done", "failed"}

\* The queue is the browser actions under way, each once, and whoever is past
\* waiting is its head.
InLine(r) == mop[r].op = "browser" /\ mop[r].pc \notin Over
Queue ==
    /\ \A m, n \in 1..Len(lock) : lock[m] = lock[n] => m = n
    /\ \A n \in 1..Len(lock) : InLine(lock[n])
    /\ \A r \in Slots : InLine(r) => \E n \in 1..Len(lock) : lock[n] = r
    /\ \A r \in Slots : InLine(r) /\ mop[r].pc # "queued" => lock[1] = r

\* Commands are those of actions and of exec, waited for or cut off.
CommandsAreCalls == \A r \in Slots :
    /\ mop[r].pc \in {"run", "running"} => mop[r].op \in {"browser", "exec"}
    /\ r \in commands => mop[r].op \in {"browser", "exec"} /\ mop[r].pc \in {"running", "failed"}

\* Nothing runs, or is about to, in a container last used long ago.
OldIsUnused == \A i \in Ids : used[i] = "old" =>
    \A r \in Slots : mop[r].id = i => r \notin commands /\ mop[r].pc \notin {"run", "running"}

\* Each browser command that was cut off cost a failure.
CutOffs == {r \in commands : mop[r].op = "browser" /\ mop[r].pc # "running"}
CutOffIsCounted == Cardinality(CutOffs) <= failures

CInv == Typed /\ Called /\ Queue /\ CommandsAreCalls /\ OldIsUnused /\ CutOffIsCounted

LEMMA InitCInv == Init => CInv
<1> SUFFICES ASSUME Init PROVE CInv
  OBVIOUS
<1>1. /\ lock = <<>> /\ commands = {} /\ failures = 0
      /\ \A r \in Slots : mop[r] = NoMop
      /\ \A i \in Ids : used[i] = "unknown"
  BY DEF Init, SandboxInit
<1>2. Called /\ Queue /\ CommandsAreCalls /\ OldIsUnused
  BY <1>1 DEF Called, Queue, InLine, Over, CommandsAreCalls, OldIsUnused, NoMop
<1>3. CutOffs = {}
  BY <1>1 DEF CutOffs
<1>4. CutOffIsCounted
  BY <1>1, <1>3, FS_EmptySet DEF CutOffIsCounted
<1> QED
  BY <1>2, <1>4, InitTyped DEF CInv

-----------------------------------------------------------------------------
(* What the steps of the manager have in common.                           *)

\* An operation of the manager goes on as m, or ends.
WorkStep(r, m) ==
    /\ mop[r].pc \in Busy \cup {"queued"}
    /\ mop[r].pc = "queued" => Holds(r)
    /\ m \in Mops /\ m.op = mop[r].op /\ m.id = mop[r].id
    /\ mop' = [mop EXCEPT ![r] = m]
    /\ \/ m.pc \in Busy /\ UNCHANGED lock
       \/ m.pc \in {"ok", "failed"} /\ mop[r].pc \in Busy /\ lock' = Released(r, m.pc)
    /\ box' \in [Ids -> Boxes]
    /\ used' \in [Ids -> {"unknown", "fresh", "old"}]
    /\ \A i \in Ids : used'[i] = "old" => used[i] = "old" /\ (m.pc = "run" => i # m.id)
    /\ m.pc = "run" => m.op \in {"browser", "exec"}
    /\ m.pc = "running" => mop[r].pc = "run"
    /\ commands' \subseteq commands \cup {r}
    /\ r \in commands' => \/ m.pc = "running" /\ mop[r].pc = "run" /\ UNCHANGED failures
                          \/ m.pc = "failed" /\ failures' = failures + 1
                             /\ mop[r].pc = "running" /\ r \in commands
    /\ failures' \in {failures, failures + 1}
    /\ UNCHANGED stopping

LEMMA TriesSet ==
  ASSUME NEW m \in Mops, NEW y \in Nat
  PROVE  /\ [m EXCEPT !.tries = y] \in Mops
         /\ [m EXCEPT !.tries = y].pc = m.pc
         /\ [m EXCEPT !.tries = y].op = m.op
         /\ [m EXCEPT !.tries = y].id = m.id
  BY DEF Mops

LEMMA WorksShape ==
  ASSUME Typed, CommandsAreCalls, NEW r \in Slots, Works(r) \/ CutOff(r) \/ DockerFails(r)
  PROVE  \E m : WorkStep(r, m)
<1> USE DEF Typed, SandboxTyped
<1> PICK old \in Mops : old = mop[r]
  OBVIOUS
<1>1. ASSUME NEW pc \in Busy \cup Over
      PROVE  /\ [old EXCEPT !.pc = pc] \in Mops
             /\ [old EXCEPT !.pc = pc].pc = pc
             /\ [old EXCEPT !.pc = pc].op = old.op
             /\ [old EXCEPT !.pc = pc].id = old.id
  BY DEF Mops
<1> DEFINE As(pc) == [old EXCEPT !.pc = pc]
<1>2. \A pc : Goes(r, pc) => mop' = [mop EXCEPT ![r] = As(pc)]
  BY DEF Goes
<1>3. \A i : /\ MarkActive(i) \in [Ids -> {"unknown", "fresh", "old"}]
             /\ \A j \in Ids : MarkActive(i)[j] = "old" => used[j] = "old" /\ j # i
  BY DEF MarkActive
<1>4. r \in commands => old.pc \in {"running", "failed"}
  BY DEF CommandsAreCalls
<1>5. ASSUME NEW pc \in Busy, Goes(r, pc), UNCHANGED lock,
             old.pc \in (Busy \cup {"queued"}) \ {"running"}, old.pc = "queued" => Holds(r),
             pc \notin {"run", "running"},
             box' \in [Ids -> Boxes], used' \in [Ids -> {"unknown", "fresh", "old"}],
             \A i \in Ids : used'[i] = "old" => used[i] = "old",
             commands' \subseteq commands, UNCHANGED <<failures, stopping>>
      PROVE  WorkStep(r, As(pc))
  BY <1>1, <1>2, <1>4, <1>5 DEF WorkStep, Busy
<1>6. ASSUME NEW pc \in {"ok", "failed"}, Ends(r, pc), old.pc \in Busy \ {"running"},
             box' \in [Ids -> Boxes], used' \in [Ids -> {"unknown", "fresh", "old"}],
             \A i \in Ids : used'[i] = "old" => used[i] = "old",
             commands' \subseteq commands, failures' \in {failures, failures + 1},
             UNCHANGED stopping
      PROVE  WorkStep(r, As(pc))
  BY <1>1, <1>2, <1>4, <1>6 DEF WorkStep, Busy, Over, Ends
<1>7. CASE Acquire(r)
  BY <1>5, <1>7 DEF Acquire, At, Busy
<1>8. CASE Find(r)
  <2> USE <1>8
  <2>1. old.pc = "find" /\ UNCHANGED <<box, commands, stopping, failures>>
    BY DEF Find, At
  <2>2. \/ Goes(r, "make") /\ UNCHANGED <<used, lock>>
        \/ Goes(r, "start") /\ UNCHANGED <<used, lock>>
        \/ Goes(r, "stop") /\ UNCHANGED <<used, lock>>
        \/ Goes(r, "delete") /\ UNCHANGED <<used, lock>>
        \/ (Ends(r, "ok") \/ Ends(r, "failed")) /\ used' \in {used, MarkActive(old.id)}
        \/ /\ old.op \in {"browser", "exec"} /\ Goes(r, "run")
           /\ used' = MarkActive(old.id) /\ UNCHANGED lock
    BY DEF Find, MarksAtStart
  <2>3. ASSUME old.op \in {"browser", "exec"}, Goes(r, "run"), used' = MarkActive(old.id),
               UNCHANGED lock
        PROVE  WorkStep(r, As("run"))
    <3>1. /\ As("run") \in Mops /\ As("run").pc = "run"
          /\ As("run").op = old.op /\ As("run").id = old.id
          /\ mop' = [mop EXCEPT ![r] = As("run")]
      BY <1>1, <1>2, <2>3 DEF Busy
    <3>2. /\ used' \in [Ids -> {"unknown", "fresh", "old"}]
          /\ \A j \in Ids : used'[j] = "old" => used[j] = "old" /\ j # old.id
      BY <1>3, <2>3
    <3>3. r \notin commands
      BY <1>4, <2>1
    <3> HIDE DEF As
    <3> QED
      BY <2>1, <2>3, <3>1, <3>2, <3>3 DEF WorkStep, Busy
  <2> HIDE DEF As
  <2> QED
    BY <1>3, <1>5, <1>6, <2>1, <2>2, <2>3 DEF Busy
<1>9. CASE Make(r)
  <2>1. old.pc = "make" /\ UNCHANGED <<used, commands, stopping, failures>>
    BY <1>9 DEF Make, At
  <2>2. \/ Goes(r, "start") /\ UNCHANGED lock /\ box' = [box EXCEPT ![old.id] = "created"]
        \/ Ends(r, "failed") /\ UNCHANGED box
    BY <1>9 DEF Make
  <2>3. box' \in [Ids -> Boxes]
    BY <2>2 DEF Boxes
  <2> HIDE DEF As
  <2> QED
    BY <1>5, <1>6, <2>1, <2>2, <2>3 DEF Busy
<1>10. CASE Start(r)
  <2>1. old.pc = "start" /\ UNCHANGED <<commands, stopping, failures>>
    BY <1>10 DEF Start, At
  <2>2. /\ Ends(r, "ok") \/ Ends(r, "failed")
        /\ box' = [box EXCEPT ![old.id] = "running"] \/ UNCHANGED box
        /\ used' \in {used, MarkActive(old.id)}
    BY <1>10 DEF Start
  <2>3. box' \in [Ids -> Boxes]
    BY <2>2 DEF Boxes
  <2> HIDE DEF As
  <2> QED
    BY <1>3, <1>6, <2>1, <2>2, <2>3 DEF Busy
<1>11. CASE Stop(r)
  <2>1. old.pc = "stop" /\ UNCHANGED <<used, stopping, failures>>
    BY <1>11 DEF Stop, At
  <2>2. /\ (Goes(r, "delete") /\ UNCHANGED lock) \/ Ends(r, "failed")
        /\ box' = [box EXCEPT ![old.id] = "exited"] \/ UNCHANGED box
        /\ commands' \subseteq commands
    BY <1>11 DEF Stop, Stopped
  <2>3. box' \in [Ids -> Boxes]
    BY <2>2 DEF Boxes
  <2> HIDE DEF As
  <2> QED
    BY <1>5, <1>6, <2>1, <2>2, <2>3 DEF Busy
<1>12. CASE Delete(r)
  <2>1. old.pc = "delete" /\ UNCHANGED <<commands, stopping, failures>>
    BY <1>12 DEF Delete, At
  <2>2. /\ Ends(r, "ok") \/ Ends(r, "failed")
        /\ box' = [box EXCEPT ![old.id] = "none"] \/ UNCHANGED box
        /\ used' = [used EXCEPT ![old.id] = "unknown"] \/ UNCHANGED used
    BY <1>12 DEF Delete
  <2>3. box' \in [Ids -> Boxes]
    BY <2>2 DEF Boxes
  <2>4. /\ used' \in [Ids -> {"unknown", "fresh", "old"}]
        /\ \A i \in Ids : used'[i] = "old" => used[i] = "old"
    BY <2>2
  <2> HIDE DEF As
  <2> QED
    BY <1>6, <2>1, <2>2, <2>3, <2>4 DEF Busy
<1>13. CASE Run(r)
  <2>1. old.pc = "run" /\ UNCHANGED <<box, used, stopping, failures>>
    BY <1>13 DEF Run, At
  <2>2. \/ Goes(r, "running") /\ UNCHANGED lock /\ commands' = commands \cup {r}
        \/ Ends(r, "failed") /\ UNCHANGED commands
    BY <1>13 DEF Run
  <2>3. ASSUME Goes(r, "running"), UNCHANGED lock, commands' = commands \cup {r}
        PROVE  WorkStep(r, As("running"))
    BY <1>1, <1>2, <2>1, <2>3 DEF WorkStep, Busy
  <2> HIDE DEF As
  <2> QED
    BY <1>6, <2>1, <2>2, <2>3 DEF Busy
<1>14. CASE Answer(r)
  <2>1. /\ old.pc = "running" /\ r \notin commands
        /\ used' = MarkActive(old.id)
        /\ UNCHANGED <<box, commands, stopping, failures>>
    BY <1>14 DEF Answer, At
  <2>2. ASSUME NEW pc \in {"ok", "failed"}, Ends(r, pc) PROVE WorkStep(r, As(pc))
    BY <1>1, <1>2, <1>3, <2>1, <2>2 DEF WorkStep, Busy, Over, Ends
  <2>3. ASSUME mop' = [mop EXCEPT ![r].pc = "find", ![r].tries = @ + 1], UNCHANGED lock
        PROVE  \E m : WorkStep(r, m)
    <3> DEFINE m == [old EXCEPT !.pc = "find", !.tries = old.tries + 1]
    <3>1. m \in Mops /\ m.pc = "find" /\ m.op = old.op /\ m.id = old.id
      <4>1. PICK x \in Mops : x = [old EXCEPT !.pc = "find"]
        BY <1>1 DEF Busy
      <4>2. x.pc = "find" /\ x.op = old.op /\ x.id = old.id
        BY <1>1, <4>1 DEF Busy
      <4>3. PICK y \in Nat : y = old.tries + 1
        BY DEF Mops
      <4>4. m = [x EXCEPT !.tries = y]
        BY <4>1, <4>3
      <4> HIDE DEF m
      <4> QED
        BY <4>2, <4>4, TriesSet
    <3>2. mop' = [mop EXCEPT ![r] = m]
      BY <2>3 DEF Mops
    <3> HIDE DEF m
    <3>3. WorkStep(r, m)
      BY <1>3, <2>1, <2>3, <3>1, <3>2 DEF WorkStep, Busy
    <3> QED
      BY <3>3
  <2> HIDE DEF As
  <2> QED
    BY <1>14, <2>2, <2>3 DEF Answer
<1>15. CASE CutOff(r)
  <2>1. /\ old.pc = "running" /\ r \in commands /\ failures' = failures + 1
        /\ Ends(r, "failed") /\ UNCHANGED <<box, used, commands, stopping>>
    BY <1>15 DEF CutOff, At
  <2>2. WorkStep(r, As("failed"))
    BY <1>1, <1>2, <2>1 DEF WorkStep, Busy, Over, Ends
  <2> QED
    BY <2>2
<1>16. CASE DockerFails(r)
  BY <1>6, <1>16 DEF DockerFails, Busy
<1> QED
  BY <1>7, <1>8, <1>9, <1>10, <1>11, <1>12, <1>13, <1>14, <1>15, <1>16 DEF Works

\* A request calls the manager, which begins operation m for it.
CallStep(r, m) ==
    /\ m \in Mops
    /\ m.pc = IF m.op = "browser" THEN "queued" ELSE "find"
    /\ mop' = [mop EXCEPT ![r] = m]
    /\ lock' = IF m.op = "browser" THEN Append(lock, r) ELSE lock
    /\ req[r].pc = "decide"
    /\ \E q : Turns(r, q) /\ q.pc = "calls"
    /\ UNCHANGED <<box, used, commands, stopping, failures>>

\* Every other step leaves the operations of the manager alone.
StaysCalled == \A r \in Slots :
    mop[r].op \in {"browser", "exec"} /\ req[r].pc \in {"calls", "done", "failed"}
        => req'[r].pc \in {"calls", "done", "failed"}
OtherStep ==
    /\ UNCHANGED <<mop, lock>>
    /\ commands' \subseteq commands
    /\ failures' \in {failures, failures + 1}
    /\ box' \in [Ids -> Boxes]
    /\ used' \in [Ids -> {"unknown", "fresh", "old"}]
    /\ \A i \in Ids : used'[i] = "old" =>
          \/ used[i] = "old"
          \/ \A r \in Slots : mop[r].id = i => r \notin commands /\ mop[r].pc \notin {"run", "running"}
    /\ \A i \in stopping' \ stopping : i \in Ids /\ used[i] = "old"
    /\ StaysCalled

\* One request turns, and none that waits for an action or has ended.
LEMMA TurnStays ==
  ASSUME Typed, Called, NEW r \in Slots, NEW q, Turns(r, q),
         mop[r].op \notin {"browser", "exec"} \/ q.pc \in {"calls", "done", "failed"}
  PROVE  StaysCalled
  BY DEF Typed, ServiceTyped, StaysCalled, Turns

LEMMA ContainersShape ==
  ASSUME Typed, NEW i \in Ids, UNCHANGED req,
         Dies(i) \/ Ages(i) \/ Suspends(i) \/ Suspended(i) \/ View(i)
  PROVE  OtherStep
<1> USE DEF Typed, SandboxTyped
<1>1. StaysCalled
  BY DEF StaysCalled
<1>2. UNCHANGED <<mop, lock>> /\ commands' \subseteq commands
  BY DEF Dies, Ages, Suspends, Suspended, View, Stopped
<1>3. failures' \in {failures, failures + 1}
  BY DEF Dies, Ages, Suspends, Suspended, View
<1>4. box' \in [Ids -> Boxes]
  <2>1. UNCHANGED box \/ box' = [box EXCEPT ![i] = "exited"]
    BY DEF Dies, Ages, Suspends, Suspended, View, Stopped
  <2> QED
    BY <2>1 DEF Boxes
<1>5. /\ \/ UNCHANGED used
         \/ used' = [used EXCEPT ![i] = "fresh"]
         \/ used' = [used EXCEPT ![i] = "unknown"]
         \/ Ages(i)
  BY DEF Dies, Suspends, Suspended, View, MarkActive
<1>6. CASE Ages(i)
  <2>1. used' = [used EXCEPT ![i] = "old"] /\ UNCHANGED stopping
    BY <1>6 DEF Ages
  <2>2. \A r \in Slots : mop[r].id = i => r \notin commands /\ mop[r].pc \notin {"run", "running"}
    BY <1>6 DEF Ages, InBox
  <2> QED
    BY <1>1, <1>2, <1>3, <1>4, <2>1, <2>2 DEF OtherStep
<1>7. \A j \in stopping' \ stopping : j \in Ids /\ used[j] = "old"
  BY DEF Dies, Ages, Suspends, Suspended, View
<1> QED
  BY <1>1, <1>2, <1>3, <1>4, <1>5, <1>6, <1>7 DEF OtherStep

LEMMA ServesShape ==
  ASSUME Typed, Called, NEW r \in Slots, Serves(r) \/ \E kind \in Kinds : Begin(r, kind)
  PROVE  ServiceTyped' /\ (OtherStep \/ \E m : CallStep(r, m))
<1>1. ASSUME UNCHANGED sandboxVars, StaysCalled
      PROVE  OtherStep
  BY <1>1 DEF OtherStep, sandboxVars, Typed, SandboxTyped
<1>2. ASSUME NEW q, Turns(r, q)
      PROVE  req' \in [Slots -> Reqs]
  BY <1>2 DEF Turns, Typed, ServiceTyped
<1>3. CASE \/ \E kind \in Kinds : Begin(r, kind)
           \/ ReadRows(r) \/ ReadBoxes(r) \/ WriteBack(r) \/ NormalizeLease(r)
  <2>1. /\ \E q : Turns(r, q)
        /\ row' \in [Ids -> Sessions]
        /\ req[r].pc \in {"idle", "rows", "boxes", "write", "lapse"}
        /\ UNCHANGED <<sandboxVars, nextId, taken, grip>>
    BY <1>3, ReadingTurns
  <2>2. mop[r].op \notin {"browser", "exec"}
    BY <2>1 DEF Called
  <2>3. StaysCalled
    BY <2>1, <2>2, TurnStays
  <2>4. ServiceTyped'
    BY <1>2, <2>1 DEF Typed, ServiceTyped
  <2> QED
    BY <1>1, <2>1, <2>3, <2>4
<1>4. CASE \/ TakeOver(r) \/ ReturnControl(r) \/ Provision(r) \/ Act(r) \/ Wake(r) \/ Create(r)
           \/ RemoveComputer(r)
  <2>1. /\ req[r].pc = "decide"
        /\ row' \in [Ids -> Sessions]
        /\ nextId' \in Nat \ {0} /\ taken' \in Nat /\ grip' \in (Ids \cup {NoId}) \X Nat
        /\ UNCHANGED <<box, used, commands, stopping, failures>>
        /\ \E q : /\ Turns(r, q)
                  /\ \/ UNCHANGED <<mop, lock>>
                     \/ \E i \in Ids \cup {NoId}, op \in {"create", "browser", "exec", "remove"} :
                           /\ Call(r, op, i)
                           /\ q.pc = "calls"
    BY <1>4, DecidingTurns
  <2>2. PICK q : /\ Turns(r, q)
                 /\ \/ UNCHANGED <<mop, lock>>
                    \/ \E i \in Ids \cup {NoId}, op \in {"create", "browser", "exec", "remove"} :
                          /\ Call(r, op, i)
                          /\ q.pc = "calls"
    BY <2>1
  <2>3. ServiceTyped'
    BY <1>2, <2>1, <2>2 DEF ServiceTyped
  <2>4. ASSUME UNCHANGED <<mop, lock>> PROVE OtherStep
    <3>1. mop[r].op \notin {"browser", "exec"}
      BY <2>1 DEF Called
    <3> QED
      BY <1>1, <2>1, <2>2, <2>4, <3>1, TurnStays DEF sandboxVars
  <2>5. ASSUME NEW i \in Ids \cup {NoId}, NEW op \in {"create", "browser", "exec", "remove"},
               Call(r, op, i), q.pc = "calls"
        PROVE  \E m : CallStep(r, m)
    <3>1. PICK m \in Mops : /\ m.op = op /\ m.id = i
                            /\ m.pc = IF op = "browser" THEN "queued" ELSE "find"
                            /\ mop' = [mop EXCEPT ![r] = m]
                            /\ lock' = IF op = "browser" THEN Append(lock, r) ELSE lock
      BY <2>5, CallTyped
    <3>2. CallStep(r, m)
      BY <2>1, <2>2, <2>5, <3>1 DEF CallStep
    <3> QED
      BY <3>2
  <2> QED
    BY <2>2, <2>3, <2>4, <2>5
<1>5. CASE \/ Found(r) \/ CreateReturns(r) \/ CreateFails(r) \/ Undo(r) \/ UndoBox(r)
           \/ ActReturns(r) \/ RemoveReturns(r) \/ Erase(r)
  <2>1. /\ ServiceTyped'
        /\ \A t \in Slots : t = r \/ req'[t] = req[t] \/ req[t].pc = "joins"
        /\ \/ req[r].pc \in {"decide", "undo", "undoBox", "erase"}
           \/ mop[r].op \in {"create", "remove"}
           \/ req'[r].pc \in {"done", "failed"}
        /\ UNCHANGED <<lock, mop, stopping>>
        /\ failures' \in {failures, failures + 1}
        /\ \/ UNCHANGED <<box, used, commands>>
           \/ \E i \in Ids \cup {NoId} :
                 /\ box' = [box EXCEPT ![i] = "none"]
                 /\ commands' = commands \ InBox(i)
                 /\ used' = [used EXCEPT ![i] = "unknown"]
    BY <1>5, AnsweredTurns
  <2>2. StaysCalled
    BY <2>1 DEF StaysCalled
  <2>3. /\ commands' \subseteq commands
        /\ box' \in [Ids -> Boxes]
        /\ used' \in [Ids -> {"unknown", "fresh", "old"}]
        /\ \A i \in Ids : used'[i] = "old" => used[i] = "old"
    BY <2>1 DEF Typed, SandboxTyped, Boxes
  <2> QED
    BY <2>1, <2>2, <2>3 DEF OtherStep
<1> QED
  BY <1>3, <1>4, <1>5 DEF Serves

LEMMA NextShape ==
  ASSUME CInv, [Next]_vars
  PROVE  /\ ServiceTyped'
         /\ \/ \E r \in Slots : \E m : WorkStep(r, m) /\ UNCHANGED req
            \/ \E r \in Slots : \E m : CallStep(r, m)
            \/ OtherStep
<1> USE DEF CInv
<1>1. ASSUME UNCHANGED <<row, req, nextId, taken, grip>>
      PROVE  ServiceTyped'
  BY <1>1 DEF Typed, ServiceTyped
<1>2. CASE UNCHANGED vars
  BY <1>1, <1>2 DEF vars, sandboxVars, serviceVars, OtherStep, StaysCalled, Typed, SandboxTyped
<1>3. ASSUME NEW r \in Slots, Serves(r) \/ \E kind \in Kinds : Begin(r, kind)
      PROVE  ServiceTyped' /\ (OtherStep \/ \E m : CallStep(r, m))
  BY <1>3, ServesShape
<1>4. ASSUME NEW r \in Slots, Works(r) \/ CutOff(r) \/ DockerFails(r), UNCHANGED serviceVars
      PROVE  ServiceTyped' /\ \E m : WorkStep(r, m) /\ UNCHANGED req
  BY <1>1, <1>4, WorksShape DEF serviceVars
<1>5. ASSUME NEW r \in Slots, CommandEnds(r), UNCHANGED serviceVars
      PROVE  ServiceTyped' /\ OtherStep
  BY <1>1, <1>5 DEF CommandEnds, serviceVars, OtherStep, StaysCalled, Typed, SandboxTyped
<1>6. ASSUME NEW k \in Leases, Lapse(k)
      PROVE  ServiceTyped' /\ OtherStep
  BY <1>6 DEF Lapse, sandboxVars, OtherStep, StaysCalled, Typed, SandboxTyped, ServiceTyped,
              NoGrip, Watch
<1>7. ASSUME Containers, UNCHANGED serviceVars
      PROVE  ServiceTyped' /\ OtherStep
  BY <1>1, <1>7, ContainersShape DEF Containers, serviceVars
<1> QED
  BY <1>2, <1>3, <1>4, <1>5, <1>6, <1>7 DEF Next, Manages

-----------------------------------------------------------------------------
(* Each part of it is preserved.                                           *)

LEMMA WorkKeeps ==
  ASSUME CInv, NEW r \in Slots, NEW m, WorkStep(r, m), UNCHANGED req
  PROVE  SandboxTyped' /\ Called' /\ CommandsAreCalls' /\ OldIsUnused'
<1> USE DEF CInv, Typed, SandboxTyped
<1>1. /\ m \in Mops /\ m.op = mop[r].op /\ m.id = mop[r].id
      /\ mop' = [mop EXCEPT ![r] = m]
  BY DEF WorkStep
<1>2. mop' \in [Slots -> Mops] /\ mop'[r] = m /\ \A t \in Slots : t # r => mop'[t] = mop[t]
  BY <1>1
<1>3. commands' \subseteq commands \cup {r}
  BY DEF WorkStep
<1>4. SandboxTyped'
  <2>1. lock # <<>> => Tail(lock) \in Seq(Slots)
    OBVIOUS
  <2>2. UNCHANGED lock \/ (lock # <<>> /\ lock' = Tail(lock))
    BY DEF WorkStep, Released, HasLock
  <2>3. lock' \in Seq(Slots)
    BY <2>1, <2>2
  <2> QED
    BY <1>2, <1>3, <2>3 DEF WorkStep
<1>5. Called'
  BY <1>1, <1>2 DEF Called
<1>6. CommandsAreCalls'
  <2>1. m.pc \in {"run", "running"} => m.op \in {"browser", "exec"}
    BY <1>1 DEF WorkStep, CommandsAreCalls
  <2>2. r \in commands' => m.op \in {"browser", "exec"} /\ m.pc \in {"running", "failed"}
    BY <1>1, <2>1 DEF WorkStep, CommandsAreCalls
  <2> QED
    BY <1>2, <1>3, <2>1, <2>2 DEF CommandsAreCalls
<1>7. OldIsUnused'
  <2> SUFFICES ASSUME NEW i \in Ids, used'[i] = "old", NEW t \in Slots, mop'[t].id = i
               PROVE  t \notin commands' /\ mop'[t].pc \notin {"run", "running"}
    BY DEF OldIsUnused
  <2>1. used[i] = "old" /\ (m.pc = "run" => i # m.id)
    BY DEF WorkStep
  <2>2. mop[t].id = i
    BY <1>1, <1>2
  <2>3. t \notin commands /\ mop[t].pc \notin {"run", "running"}
    BY <2>1, <2>2 DEF OldIsUnused
  <2>4. CASE t = r
    BY <1>1, <1>2, <2>1, <2>2, <2>3, <2>4 DEF WorkStep
  <2> QED
    BY <1>2, <1>3, <2>3, <2>4
<1> QED
  BY <1>4, <1>5, <1>6, <1>7

LEMMA WorkKeepsQueue ==
  ASSUME CInv, NEW r \in Slots, NEW m, WorkStep(r, m)
  PROVE  Queue'
<1> USE DEF CInv, Typed, SandboxTyped
<1>1. /\ m \in Mops /\ m.op = mop[r].op
      /\ mop' = [mop EXCEPT ![r] = m]
      /\ mop[r].pc \in Busy \cup {"queued"}
  BY DEF WorkStep
<1>2. mop'[r] = m /\ \A t \in Slots : t # r => mop'[t] = mop[t]
  BY <1>1
<1>3. \A t \in Slots : t # r => InLine(t)' <=> InLine(t)
  BY <1>2 DEF InLine
<1>4. InLine(r) <=> m.op = "browser"
  BY <1>1 DEF InLine, Busy, Over
<1>5. \A n \in 1..Len(lock) : lock[n] \in Slots
  OBVIOUS
<1>6. lock # <<>> => Head(lock) = lock[1] /\ 1 \in 1..Len(lock)
  OBVIOUS
<1>7. InLine(r) => lock # <<>> /\ lock[1] = r
  <2>1. InLine(r) => lock # <<>>
    BY DEF Queue
  <2>2. InLine(r) /\ mop[r].pc # "queued" => lock[1] = r
    BY DEF Queue
  <2>3. mop[r].pc = "queued" => Head(lock) = r
    BY DEF WorkStep, Holds
  <2> QED
    BY <1>6, <2>1, <2>2, <2>3
<1>8. CASE m.pc \in Busy /\ UNCHANGED lock
  <2>1. InLine(r)' <=> InLine(r)
    BY <1>2, <1>4, <1>8 DEF InLine, Busy, Over
  <2>2. \A t \in Slots : InLine(t)' <=> InLine(t)
    BY <1>3, <2>1
  <2>3. \A t \in Slots : InLine(t)' /\ mop'[t].pc # "queued" => lock[1] = t
    BY <1>2, <1>7, <2>2 DEF Queue
  <2> QED
    BY <1>5, <1>8, <2>2, <2>3 DEF Queue
<1>9. CASE m.pc \in {"ok", "failed"} /\ lock' = Released(r, m.pc)
  <2>1. ~InLine(r)'
    BY <1>2, <1>9 DEF InLine, Over
  <2>2. CASE InLine(r)
    <3>1. lock' = Tail(lock) /\ lock # <<>> /\ lock[1] = r
      BY <1>6, <1>7, <1>9, <2>2 DEF Released, HasLock
    <3>2. Len(lock') = Len(lock) - 1 /\ \A n \in 1..Len(lock') : lock'[n] = lock[n + 1]
      BY <3>1
    <3>3. \A n \in 1..Len(lock') : n + 1 \in 1..Len(lock)
      BY <3>2
    <3>4. \A a, b \in 1..Len(lock') : lock'[a] = lock'[b] => a = b
      <4> TAKE a, b \in 1..Len(lock')
      <4>1. a + 1 \in 1..Len(lock) /\ b + 1 \in 1..Len(lock)
        BY <3>3
      <4>2. lock[a + 1] = lock[b + 1] => a + 1 = b + 1
        BY <4>1 DEF Queue
      <4> QED
        BY <3>2, <4>2
    <3>5. \A n \in 1..Len(lock') : lock'[n] \in Slots /\ lock'[n] # r
      BY <1>5, <1>6, <3>1, <3>2, <3>3 DEF Queue
    <3>6. \A n \in 1..Len(lock') : /\ mop[lock'[n]].op = "browser"
                                    /\ mop[lock'[n]].pc \notin Over
      BY <3>2, <3>3 DEF Queue, InLine
    <3>7. \A t \in Slots : InLine(t)' => t # r /\ InLine(t)
      BY <1>3, <2>1
    <3>8. ASSUME NEW t \in Slots, InLine(t)'
          PROVE  \E n \in 1..Len(lock') : lock'[n] = t
      <4>1. PICK n \in 1..Len(lock) : lock[n] = t
        BY <3>7, <3>8 DEF Queue
      <4>2. n # 1
        BY <3>1, <3>7, <3>8, <4>1
      <4>3. n - 1 \in 1..Len(lock') /\ lock'[n - 1] = lock[n]
        BY <3>2, <4>2
      <4> QED
        BY <4>1, <4>3
    <3>9. \A t \in Slots : InLine(t)' => mop'[t].pc = "queued"
      BY <1>2, <3>1, <3>7 DEF Queue
    <3>10. \A n \in 1..Len(lock') : /\ mop'[lock'[n]].op = "browser"
                                     /\ mop'[lock'[n]].pc \notin Over
      BY <1>2, <3>5, <3>6
    <3> QED
      <4>1. \A n \in 1..Len(lock') : InLine(lock[n])'
        BY <3>10 DEF InLine
      <4> QED
        BY <3>4, <3>8, <3>9, <4>1 DEF Queue
  <2>3. CASE ~InLine(r)
    <3>1. ~HasLock(r)
      BY <1>6, <2>3 DEF HasLock, Queue
    <3>2. UNCHANGED lock
      BY <1>9, <3>1 DEF Released
    <3>3. \A t \in Slots : InLine(t)' <=> InLine(t)
      BY <1>3, <2>1, <2>3
    <3>4. \A t \in Slots : InLine(t)' /\ mop'[t].pc # "queued" => lock[1] = t
      BY <1>2, <2>1, <3>3 DEF Queue
    <3> QED
      BY <1>5, <3>2, <3>3, <3>4 DEF Queue
  <2> QED
    BY <2>2, <2>3
<1> QED
  BY <1>8, <1>9 DEF WorkStep

\* The sets that are counted are finite.
LEMMA FiniteRequests ==
  ASSUME NEW S \in SUBSET Slots
  PROVE  IsFiniteSet(S) /\ Cardinality(S) \in Nat
  BY SandboxAssumption, FS_Subset, FS_CardinalityType

LEMMA OneMore ==
  ASSUME NEW S \in SUBSET Slots, NEW x
  PROVE  /\ IsFiniteSet(S \cup {x})
         /\ Cardinality(S \cup {x}) \in Nat
         /\ Cardinality(S \cup {x}) <= Cardinality(S) + 1
<1>1. IsFiniteSet(S) /\ Cardinality(S) \in Nat
  BY FiniteRequests
<1>2. /\ IsFiniteSet(S \cup {x})
      /\ Cardinality(S \cup {x}) = IF x \in S THEN Cardinality(S) ELSE Cardinality(S) + 1
  BY <1>1, FS_AddElement
<1> QED
  BY <1>1, <1>2

LEMMA FewerCutOffs ==
  ASSUME CInv, CutOffs' \subseteq CutOffs, failures' \in {failures, failures + 1}
  PROVE  CutOffIsCounted'
<1> USE DEF CInv, Typed, SandboxTyped
<1>1. CutOffs \in SUBSET Slots
  BY DEF CutOffs
<1>2. PICK S \in SUBSET Slots : S = CutOffs'
  BY <1>1
<1>3. Cardinality(S) <= Cardinality(CutOffs)
  BY <1>1, <1>2, FiniteRequests, FS_Subset
<1>4. Cardinality(S) <= failures
  BY <1>1, <1>3, FiniteRequests DEF CutOffIsCounted
<1>5. Cardinality(S) <= failures'
  BY <1>2, <1>4, FiniteRequests
<1> QED
  BY <1>2, <1>5 DEF CutOffIsCounted

LEMMA WorkKeepsCount ==
  ASSUME CInv, NEW r \in Slots, NEW m, WorkStep(r, m)
  PROVE  CutOffIsCounted'
<1> USE DEF CInv, Typed, SandboxTyped
<1>1. /\ mop'[r] = m /\ m.op = mop[r].op /\ \A t \in Slots : t # r => mop'[t] = mop[t]
      /\ commands' \subseteq commands \cup {r}
      /\ failures' \in {failures, failures + 1}
  BY DEF WorkStep
<1>2. CASE r \notin CutOffs'
  <2>1. CutOffs' \subseteq CutOffs
    BY <1>1, <1>2 DEF CutOffs
  <2> QED
    BY <1>1, <2>1, FewerCutOffs
<1>3. CASE r \in CutOffs'
  <2>1. r \in commands' /\ m.pc # "running"
    BY <1>1, <1>3 DEF CutOffs
  <2>2. failures' = failures + 1
    BY <2>1 DEF WorkStep
  <2>3. CutOffs \in SUBSET Slots
    BY DEF CutOffs
  <2>4. PICK S \in SUBSET Slots : S = CutOffs'
    BY <1>1 DEF CutOffs
  <2>5. CutOffs' \subseteq CutOffs \cup {r}
    BY <1>1 DEF CutOffs
  <2>6. /\ IsFiniteSet(CutOffs \cup {r})
        /\ Cardinality(CutOffs \cup {r}) \in Nat
        /\ Cardinality(CutOffs \cup {r}) <= Cardinality(CutOffs) + 1
    BY <2>3, OneMore
  <2>7. Cardinality(S) <= Cardinality(CutOffs \cup {r})
    BY <2>4, <2>5, <2>6, FS_Subset
  <2>8. Cardinality(S) <= failures'
    BY <2>2, <2>3, <2>6, <2>7, FiniteRequests DEF CutOffIsCounted
  <2> QED
    BY <2>4, <2>8 DEF CutOffIsCounted
<1> QED
  BY <1>2, <1>3

LEMMA CallKeeps ==
  ASSUME CInv, NEW r \in Slots, NEW m, CallStep(r, m)
  PROVE  /\ SandboxTyped' /\ Called' /\ Queue'
         /\ CommandsAreCalls' /\ OldIsUnused' /\ CutOffIsCounted'
<1> USE DEF CInv, Typed, SandboxTyped
<1>1. /\ m \in Mops /\ mop'[r] = m /\ mop' \in [Slots -> Mops]
      /\ \A t \in Slots : t # r => mop'[t] = mop[t]
      /\ UNCHANGED <<box, used, commands, failures>>
  BY DEF CallStep
<1>2. m.pc \in {"queued", "find"} /\ m.pc = IF m.op = "browser" THEN "queued" ELSE "find"
  BY DEF CallStep
<1>3. mop[r].op \notin {"browser", "exec"}
  BY DEF CallStep, Called
<1>4. r \notin commands
  BY <1>3 DEF CommandsAreCalls
<1>5. ~InLine(r)
  BY <1>3 DEF InLine
<1>6. SandboxTyped'
  <2>1. Append(lock, r) \in Seq(Slots)
    OBVIOUS
  <2>2. lock' \in {lock, Append(lock, r)}
    BY DEF CallStep
  <2> QED
    BY <1>1, <2>1, <2>2
<1>7. Called'
  <2>1. PICK q : Turns(r, q) /\ q.pc = "calls"
    BY DEF CallStep
  <2>2. req'[r].pc = "calls" /\ \A t \in Slots : t # r => req'[t] = req[t]
    BY <2>1 DEF Turns, ServiceTyped
  <2> QED
    BY <1>1, <2>2 DEF Called
<1>8. CommandsAreCalls' /\ OldIsUnused'
  BY <1>1, <1>2, <1>4 DEF CommandsAreCalls, OldIsUnused
<1>9. CutOffIsCounted'
  <2>1. CutOffs' \subseteq CutOffs
    BY <1>1, <1>4 DEF CutOffs
  <2> QED
    BY <1>1, <2>1, FewerCutOffs
<1>10. Queue'
  <2>1. \A t \in Slots : t # r => (InLine(t)' <=> InLine(t))
    BY <1>1 DEF InLine
  <2>2. \A n \in 1..Len(lock) : lock[n] \in Slots /\ lock[n] # r
    BY <1>5 DEF Queue
  <2>3. CASE m.op # "browser"
    <3>1. UNCHANGED lock
      BY <2>3 DEF CallStep
    <3>2. ~InLine(r)'
      BY <1>1, <2>3 DEF InLine
    <3>3. \A t \in Slots : InLine(t)' <=> InLine(t)
      BY <1>5, <2>1, <3>2
    <3>4. \A t \in Slots : InLine(t)' /\ mop'[t].pc # "queued" => lock[1] = t
      BY <1>1, <3>2, <3>3 DEF Queue
    <3> QED
      BY <2>2, <3>1, <3>3, <3>4 DEF Queue
  <2>4. CASE m.op = "browser"
    <3>1. /\ lock' = Append(lock, r) /\ Len(lock') = Len(lock) + 1 /\ lock'[Len(lock) + 1] = r
          /\ \A n \in 1..Len(lock) : lock'[n] = lock[n]
      BY <2>4 DEF CallStep
    <3>2. \A n \in 1..Len(lock') : n = Len(lock) + 1 \/ n \in 1..Len(lock)
      BY <3>1
    <3>3. InLine(r)' /\ mop'[r].pc = "queued"
      BY <1>1, <1>2, <2>4 DEF InLine, Over
    <3>4. \A a, b \in 1..Len(lock') : lock'[a] = lock'[b] => a = b
      <4> TAKE a, b \in 1..Len(lock')
      <4>1. CASE a \in 1..Len(lock) /\ b \in 1..Len(lock)
        BY <3>1, <4>1 DEF Queue
      <4>2. CASE a = Len(lock) + 1 \/ b = Len(lock) + 1
        BY <2>2, <3>1, <3>2, <4>2
      <4> QED
        BY <3>2, <4>1, <4>2
    <3>5. \A n \in 1..Len(lock') : /\ mop'[lock'[n]].op = "browser"
                                   /\ mop'[lock'[n]].pc \notin Over
      <4> TAKE n \in 1..Len(lock')
      <4>1. CASE n = Len(lock) + 1
        BY <3>1, <3>3, <4>1 DEF InLine
      <4>2. CASE n \in 1..Len(lock)
        BY <1>1, <2>2, <3>1, <4>2 DEF Queue, InLine
      <4> QED
        BY <3>2, <4>1, <4>2
    <3>6. \A n \in 1..Len(lock') : InLine(lock[n])'
      BY <3>5 DEF InLine
    <3>7. ASSUME NEW t \in Slots, InLine(t)'
          PROVE  \E n \in 1..Len(lock') : lock'[n] = t
      <4>1. CASE t = r
        BY <3>1, <4>1
      <4>2. CASE t # r
        <5>1. PICK n \in 1..Len(lock) : lock[n] = t
          BY <2>1, <3>7, <4>2 DEF Queue
        <5> QED
          BY <3>1, <5>1
      <4> QED
        BY <4>1, <4>2
    <3>8. ASSUME NEW t \in Slots, InLine(t)', mop'[t].pc # "queued"
          PROVE  lock'[1] = t
      <4>1. t # r /\ InLine(t) /\ mop[t].pc # "queued"
        BY <1>1, <2>1, <3>3, <3>8
      <4>2. lock[1] = t /\ \E n \in 1..Len(lock) : lock[n] = t
        BY <4>1 DEF Queue
      <4>3. 1 \in 1..Len(lock)
        BY <4>2
      <4> QED
        BY <3>1, <4>2, <4>3
    <3> QED
      BY <3>4, <3>6, <3>7, <3>8 DEF Queue
  <2> QED
    BY <2>3, <2>4
<1> QED
  BY <1>6, <1>7, <1>8, <1>9, <1>10

LEMMA OtherKeeps ==
  ASSUME CInv, OtherStep
  PROVE  /\ SandboxTyped' /\ Called' /\ Queue'
         /\ CommandsAreCalls' /\ OldIsUnused' /\ CutOffIsCounted'
<1> USE DEF CInv, Typed, SandboxTyped
<1>1. UNCHANGED <<mop, lock>> /\ commands' \subseteq commands
  BY DEF OtherStep
<1>2. SandboxTyped'
  BY DEF OtherStep
<1>3. Called'
  BY <1>1 DEF OtherStep, StaysCalled, Called
<1>4. Queue'
  BY <1>1 DEF Queue, InLine
<1>5. CommandsAreCalls'
  BY <1>1 DEF CommandsAreCalls
<1>6. OldIsUnused'
  BY <1>1 DEF OtherStep, OldIsUnused
<1>7. CutOffIsCounted'
  <2>1. CutOffs' \subseteq CutOffs /\ failures' \in {failures, failures + 1}
    BY <1>1 DEF CutOffs, OtherStep
  <2> QED
    BY <2>1, FewerCutOffs
<1> QED
  BY <1>2, <1>3, <1>4, <1>5, <1>6, <1>7

LEMMA NextCInv == CInv /\ [Next]_vars => CInv'
<1> SUFFICES ASSUME CInv, [Next]_vars PROVE CInv'
  OBVIOUS
<1>1. /\ ServiceTyped'
      /\ \/ \E r \in Slots : \E m : WorkStep(r, m) /\ UNCHANGED req
         \/ \E r \in Slots : \E m : CallStep(r, m)
         \/ OtherStep
  BY NextShape
<1>2. ASSUME NEW r \in Slots, NEW m, WorkStep(r, m), UNCHANGED req PROVE CInv'
  BY <1>1, <1>2, WorkKeeps, WorkKeepsQueue, WorkKeepsCount DEF CInv, Typed
<1>3. ASSUME NEW r \in Slots, NEW m, CallStep(r, m) PROVE CInv'
  BY <1>1, <1>3, CallKeeps DEF CInv, Typed
<1>4. CASE OtherStep
  BY <1>1, <1>4, OtherKeeps DEF CInv, Typed
<1> QED
  BY <1>1, <1>2, <1>3, <1>4

-----------------------------------------------------------------------------
(* Actions exclude each other, and suspensions spare what is in use.       *)

\* Browser actions exclude each other: of the browser commands that run, those that
\* were not cut off belong to the head of the queue (withBrowserActionLock).
LEMMA CInvExcludes == CInv => OneActionAtATime
<1> SUFFICES ASSUME CInv PROVE OneActionAtATime
  OBVIOUS
<1> USE DEF CInv, Typed, SandboxTyped
<1> DEFINE B == {r \in commands : mop[r].op = "browser"}
<1>1. CutOffs \in SUBSET Slots /\ B \in SUBSET Slots
  BY DEF CutOffs
<1>2. B \subseteq CutOffs \cup {lock[1]}
  <2> SUFFICES ASSUME NEW r \in B, r \notin CutOffs PROVE r = lock[1]
    OBVIOUS
  <2>1. r \in Slots /\ mop[r].op = "browser" /\ mop[r].pc = "running"
    BY DEF CutOffs
  <2> QED
    BY <2>1 DEF Queue, InLine, Over
<1>3. /\ IsFiniteSet(CutOffs \cup {lock[1]})
      /\ Cardinality(CutOffs \cup {lock[1]}) \in Nat
      /\ Cardinality(CutOffs \cup {lock[1]}) <= Cardinality(CutOffs) + 1
  BY <1>1, OneMore
<1>4. Cardinality(B) <= Cardinality(CutOffs \cup {lock[1]})
  BY <1>2, <1>3, FS_Subset
<1>5. Cardinality(B) <= 1 + failures
  BY <1>1, <1>3, <1>4, FiniteRequests DEF CutOffIsCounted
<1> QED
  BY <1>5 DEF OneActionAtATime

\* However many requests overlap and fail, no more than one browser action runs at a
\* time beyond those that were cut off.
THEOREM ActionsExclude == Spec => []OneActionAtATime
<1>1. CInv => OneActionAtATime
  BY CInvExcludes
<1> QED
  BY <1>1, InitCInv, NextCInv, PTL DEF Spec

\* Only a container last used long ago begins to be stopped, and nothing runs in it.
LEMMA StepSpares ==
  CInv /\ [Next]_vars => [\A i \in Ids : i \in stopping' \ stopping => InBox(i) = {}]_vars
<1> SUFFICES ASSUME CInv, [Next]_vars, NEW i \in Ids, i \in stopping' \ stopping
             PROVE  InBox(i) = {}
  OBVIOUS
<1>1. ~UNCHANGED stopping
  OBVIOUS
<1>2. OtherStep
  BY <1>1, NextShape DEF WorkStep, CallStep
<1>3. used[i] = "old"
  BY <1>2 DEF OtherStep
<1> QED
  BY <1>3 DEF CInv, Typed, SandboxTyped, OldIsUnused, InBox

\* The idle monitor never decides to stop a container in which a command runs
\* (suspendIdle, markActive).
THEOREM SuspensionsSpare == Spec => SuspensionSparesActions
  BY InitCInv, NextCInv, StepSpares, PTL DEF Spec, SuspensionSparesActions


-----------------------------------------------------------------------------
(* The lease of the user: the invariant.                                   *)

\* What a request carries is no newer than the service: g is the newest identity plus
\* one, t the number of leases.
Bounded(q, g, t) ==
    /\ q.under[2] <= t
    /\ q.id < g
    /\ q.kind = "takeover" /\ q.pc # "idle" => q.id # NoId
    /\ q.pc = "boxes" => \A j \in Ids \ q.left : q.mine[j] = NoRow

\* A copy of the held computer's row that may yet be written back names the lease g
\* (the cases of Overlapped).
CopyAgrees(q, m, g) ==
    /\ q.pc \in {"boxes", "write", "lapse"} /\ g[1] \in q.left => q.mine[g[1]].control = g[2]
    /\ q.pc \in {"write", "lapse", "decide"} /\ q.mine[g[1]].status = "stopped" =>
          q.mine[g[1]].control = g[2]
    /\ q.pc = "calls" /\ m.op = "create" /\ (m.id = g[1] \/ q.mine[g[1]].status = "stopped") =>
          q.mine[g[1]].control = g[2]

\* An agent's request that arrived under the lease g has seen it, as soon as it has read
\* rows, and does not act in the held computer.
Informed(q, m, g) ==
    q.kind \in {"agentActs", "agentExecs"} /\ q.under = g =>
        /\ q.pc # "joins"
        /\ q.pc \in {"boxes", "write", "lapse", "decide", "calls"} /\ q.id \in {NoId, g[1]} =>
              q.mine[g[1]].control = g[2]
        /\ m.op \in {"browser", "exec"} => m.id # g[1]

\* The lease the user holds has not lapsed, and the row names it.
GripHolds ==
    /\ grip[1] \in Ids /\ grip[1] < nextId
    /\ grip[2] # Watch /\ grip[2] <= taken /\ grip[2] \notin lapsed
    /\ row[grip[1]].control = grip[2]

TInv ==
    /\ lapsed \subseteq 1..taken
    /\ grip[2] <= taken
    /\ \A s \in Slots : Bounded(req[s], nextId, taken)
    /\ grip # NoGrip => /\ GripHolds
                        /\ \A s \in Slots : /\ CopyAgrees(req[s], mop[s], grip)
                                            /\ Informed(req[s], mop[s], grip)

LEMMA InitTInv == Init => TInv
<1> SUFFICES ASSUME Init PROVE TInv
  OBVIOUS
<1>1. lapsed = {} /\ taken = 0 /\ grip = NoGrip /\ nextId \in Nat \ {0}
  BY DEF Init
<1>2. \A s \in Slots : req[s] = NoReq
  BY DEF Init
<1> QED
  BY <1>1, <1>2 DEF TInv, Bounded, NoReq, NoGrip, Watch, NoId

-----------------------------------------------------------------------------
(* One request turns.                                                      *)

\* What is left to show when one request goes on and no lease begins or ends.
LEMMA TurnKeeps ==
  ASSUME Typed, TInv, NEW r \in Slots, NEW q, Turns(r, q),
         \A s \in Slots \ {r} : mop'[s] = mop[s],
         UNCHANGED <<lapsed, taken, grip>>,
         nextId' \in Nat, nextId <= nextId',
         Bounded(q, nextId', taken),
         grip # NoGrip => /\ row'[grip[1]].control = grip[2]
                          /\ CopyAgrees(q, mop'[r], grip)
                          /\ Informed(q, mop'[r], grip)
  PROVE  TInv'
<1> USE DEF Typed, ServiceTyped
<1>1. req'[r] = q /\ \A s \in Slots \ {r} : req'[s] = req[s]
  BY DEF Turns
<1>2. \A s \in Slots : Bounded(req'[s], nextId', taken')
  <2>1. ASSUME NEW s \in Slots \ {r} PROVE Bounded(req[s], nextId', taken)
    <3>1. Bounded(req[s], nextId, taken) /\ req[s].id \in Nat
      BY SandboxAssumption DEF TInv, Reqs, Ids, NoId
    <3> QED
      BY <3>1 DEF Bounded
  <2> QED
    BY <1>1, <2>1
<1>3. ASSUME grip # NoGrip PROVE GripHolds'
  <2>1. grip[1] \in Nat
    BY <1>3, SandboxAssumption DEF TInv, GripHolds, Ids
  <2> QED
    BY <1>3, <2>1 DEF TInv, GripHolds
<1>4. ASSUME grip # NoGrip, NEW s \in Slots
      PROVE  CopyAgrees(req'[s], mop'[s], grip) /\ Informed(req'[s], mop'[s], grip)
  BY <1>1, <1>4 DEF TInv
<1> QED
  BY <1>2, <1>3, <1>4 DEF TInv

\* A request begins, or reads rows.
LEMMA BeginKeeps ==
  ASSUME CInv, TInv, NEW r \in Slots, NEW kind \in Kinds, Begin(r, kind)
  PROVE  TInv'
<1> USE DEF CInv, Typed, ServiceTyped
<1> PICK old \in Reqs : old = req[r]
  OBVIOUS
<1>1. PICK i \in Ids \cup {NoId} :
         /\ (i # NoId) = (kind \in Execs \cup {"takeover", "return", "remove"})
         /\ i # NoId => i < nextId
         /\ req' = [req EXCEPT ![r].kind = kind, ![r].pc = "rows", ![r].id = i, ![r].under = grip]
  BY DEF Begin
<1> DEFINE q == [old EXCEPT !.kind = kind, !.pc = "rows", !.id = i, !.under = grip]
<1>2. q \in Reqs /\ req' = [req EXCEPT ![r] = q]
  BY <1>1 DEF Reqs, Pcs
<1>3. q.kind = kind /\ q.pc = "rows" /\ q.id = i /\ q.under = grip
  BY DEF Reqs
<1>4. old.pc = "idle" /\ UNCHANGED <<mop, row, lapsed, taken, grip, nextId>>
  BY DEF Begin, Pc, sandboxVars
<1>5. Bounded(q, nextId', taken)
  BY <1>1, <1>3, <1>4 DEF Bounded, TInv, NoId
<1>6. mop[r].op \notin {"browser", "exec"}
  BY <1>4 DEF Called
<1>7. CopyAgrees(q, mop'[r], grip) /\ Informed(q, mop'[r], grip)
  BY <1>3, <1>4, <1>6 DEF CopyAgrees, Informed
<1> HIDE DEF q
<1> QED
  BY <1>2, <1>4, <1>5, <1>7, TurnKeeps DEF Turns, TInv, GripHolds

LEMMA ReadRowsKeeps ==
  ASSUME CInv, TInv, NEW r \in Slots, ReadRows(r)
  PROVE  TInv'
<1> USE DEF CInv, Typed, ServiceTyped
<1> PICK old \in Reqs : old = req[r]
  OBVIOUS
<1> DEFINE ids == IF old.id = NoId THEN Rows ELSE Rows \cap {old.id}
           m == [i \in Ids |-> IF i \in ids THEN row[i] ELSE NoRow]
<1>1. NoRow \in Sessions
  BY DEF NoRow, Sessions, Watch
<1>2. m \in [Ids -> Sessions] /\ ids \in SUBSET Ids
  BY <1>1 DEF Rows
<1>3. PICK pc \in {"failed", "boxes"} : req' = [req EXCEPT ![r].pc = pc, ![r].left = ids, ![r].mine = m]
  BY DEF ReadRows
<1>4. old.pc = "rows" /\ UNCHANGED <<mop, row, lapsed, taken, grip, nextId>>
  BY DEF ReadRows, Pc, sandboxVars
<1>5. \A j \in Ids \ ids : m[j] = NoRow
  OBVIOUS
<1>6. ASSUME grip # NoGrip
      PROVE  /\ grip[1] \in Ids
             /\ grip[1] \in ids => m[grip[1]].control = grip[2]
             /\ old.id \in {NoId, grip[1]} => grip[1] \in ids
  <2>1. grip[1] \in Ids /\ row[grip[1]].control = grip[2] /\ grip[2] # Watch
    BY <1>6 DEF TInv, GripHolds
  <2>2. grip[1] \in Rows
    BY <2>1 DEF Rows, NoRow
  <2> QED
    BY <2>1, <2>2
<1> HIDE DEF ids, m
<1> DEFINE q == [old EXCEPT !.pc = pc, !.left = ids, !.mine = m]
<1>7. q \in Reqs /\ req' = [req EXCEPT ![r] = q]
  BY <1>2, <1>3 DEF Reqs, Pcs
<1>8. /\ q.kind = old.kind /\ q.pc = pc /\ q.id = old.id /\ q.under = old.under
      /\ q.left = ids /\ q.mine = m
  BY DEF Reqs
<1> HIDE DEF q
<1>9. Bounded(q, nextId', taken)
  BY <1>4, <1>5, <1>8 DEF Bounded, TInv
<1>10. mop[r].op \notin {"browser", "exec"}
  BY <1>4 DEF Called
<1>11. ASSUME grip # NoGrip
       PROVE  CopyAgrees(q, mop'[r], grip) /\ Informed(q, mop'[r], grip)
  BY <1>3, <1>4, <1>6, <1>8, <1>10, <1>11 DEF CopyAgrees, Informed
<1> QED
  BY <1>4, <1>7, <1>9, <1>11, TurnKeeps DEF Turns, TInv, GripHolds

\* A request asks for the containers: nothing of its copies changes.
LEMMA ReadBoxesKeeps ==
  ASSUME CInv, TInv, NEW r \in Slots, ReadBoxes(r)
  PROVE  TInv'
<1> USE DEF CInv, Typed, ServiceTyped
<1> PICK old \in Reqs : old = req[r]
  OBVIOUS
<1>1. PICK pc \in {"write", "decide", "done"} :
         /\ req' = [req EXCEPT ![r].seen = box, ![r].pc = pc]
         /\ pc \in {"decide", "done"} => old.left = {}
  BY DEF ReadBoxes, After
<1>2. old.pc = "boxes" /\ UNCHANGED <<mop, row, lapsed, taken, grip, nextId>>
  BY DEF ReadBoxes, Pc, sandboxVars
<1> DEFINE q == [old EXCEPT !.seen = box, !.pc = pc]
<1>3. q \in Reqs /\ req' = [req EXCEPT ![r] = q]
  BY <1>1 DEF Reqs, Pcs, SandboxTyped
<1>4. /\ q.kind = old.kind /\ q.pc = pc /\ q.id = old.id /\ q.under = old.under
      /\ q.left = old.left /\ q.mine = old.mine
  BY DEF Reqs
<1> HIDE DEF q
<1>5. Bounded(q, nextId', taken) /\ \A j \in Ids \ old.left : old.mine[j] = NoRow
  BY <1>1, <1>2, <1>4 DEF Bounded, TInv
<1>6. mop[r].op \notin {"browser", "exec"}
  BY <1>2 DEF Called
<1>7. ASSUME grip # NoGrip
      PROVE  CopyAgrees(q, mop'[r], grip) /\ Informed(q, mop'[r], grip)
  <2>1. CopyAgrees(old, mop[r], grip) /\ Informed(old, mop[r], grip) /\ grip[1] \in Ids
    BY <1>7 DEF TInv, GripHolds
  <2>2. old.mine[grip[1]].status = "stopped" => grip[1] \in old.left
    BY <1>5, <2>1 DEF NoRow
  <2>3. CopyAgrees(q, mop'[r], grip)
    BY <1>1, <1>2, <1>4, <2>1, <2>2 DEF CopyAgrees
  <2>4. Informed(q, mop'[r], grip)
    BY <1>1, <1>2, <1>4, <1>6, <2>1 DEF Informed
  <2> QED
    BY <2>3, <2>4
<1> QED
  BY <1>2, <1>3, <1>5, <1>7, TurnKeeps DEF Turns, TInv, GripHolds

\* A session is written back as it was read, but for its status: the lease that is held
\* stays.
LEMMA WriteBackKeeps ==
  ASSUME CInv, TInv, NEW r \in Slots, WriteBack(r)
  PROVE  TInv'
<1> USE DEF CInv, Typed, ServiceTyped
<1> PICK old \in Reqs : old = req[r]
  OBVIOUS
<1>1. PICK i \in req[r].left :
         LET s == WithSandbox(req[r].mine[i], req[r].seen[i]) IN
         /\ row' = [row EXCEPT ![i] = s]
         /\ req' = [req EXCEPT ![r].mine[i] = s,
                       ![r].left = IF Expired(s.control) THEN {i} \cup @ ELSE @ \ {i},
                       ![r].pc = IF Expired(s.control) THEN "lapse"
                                 ELSE IF req[r].left = {i} THEN After(r) ELSE "write",
                       ![r].seen[i] = "none"]
  BY DEF WriteBack
<1>2. i \in Ids /\ old.left \in SUBSET Ids /\ old.mine[i] \in Sessions
  BY DEF Reqs
<1> DEFINE s == WithSandbox(old.mine[i], old.seen[i])
           left == IF Expired(s.control) THEN {i} \cup old.left ELSE old.left \ {i}
           pc == IF Expired(s.control) THEN "lapse"
                 ELSE IF old.left = {i} THEN After(r) ELSE "write"
           q == [old EXCEPT !.mine = [old.mine EXCEPT ![i] = s], !.left = left, !.pc = pc,
                            !.seen = [old.seen EXCEPT ![i] = "none"]]
<1>3. s \in Sessions /\ s.control = old.mine[i].control
  BY <1>2, StatusSet DEF WithSandbox, Sessions
<1>4. left \subseteq old.left /\ pc \in {"lapse", "write", "decide", "done"}
  BY DEF After
<1>5. req' = [req EXCEPT ![r] = q] /\ row' = [row EXCEPT ![i] = s]
  BY <1>1 DEF Reqs
<1> HIDE DEF s, left, pc
<1>6. q \in Reqs
  BY <1>2, <1>3, <1>4 DEF Reqs, Pcs, Boxes
<1>7. /\ q.kind = old.kind /\ q.pc = pc /\ q.id = old.id /\ q.under = old.under
      /\ q.left = left /\ q.mine = [old.mine EXCEPT ![i] = s]
  BY DEF Reqs
<1> HIDE DEF q
<1>8. old.pc = "write" /\ UNCHANGED <<mop, lapsed, taken, grip, nextId>>
  BY DEF WriteBack, Pc, sandboxVars
<1>9. Bounded(q, nextId', taken)
  BY <1>4, <1>7, <1>8 DEF Bounded, TInv
<1>10. mop[r].op \notin {"browser", "exec"}
  BY <1>8 DEF Called
<1>11. ASSUME grip # NoGrip
       PROVE  /\ row'[grip[1]].control = grip[2]
              /\ CopyAgrees(q, mop'[r], grip) /\ Informed(q, mop'[r], grip)
  <2> DEFINE g == grip[1]
  <2>1. /\ CopyAgrees(old, mop[r], grip) /\ Informed(old, mop[r], grip)
        /\ g \in Ids /\ row[g].control = grip[2]
    BY <1>11 DEF TInv, GripHolds
  <2>2. g = i => s.control = grip[2]
    BY <1>3, <1>8, <2>1 DEF CopyAgrees
  <2>3. q.mine[g] = IF g = i THEN s ELSE old.mine[g]
    BY <1>2, <1>7, <2>1 DEF Reqs
  <2>4. row'[g].control = grip[2]
    BY <1>2, <1>5, <2>1, <2>2
  <2>5. CopyAgrees(q, mop'[r], grip)
    BY <1>4, <1>7, <1>8, <2>1, <2>2, <2>3 DEF CopyAgrees
  <2>6. Informed(q, mop'[r], grip)
    BY <1>4, <1>7, <1>8, <1>10, <2>1, <2>2, <2>3 DEF Informed
  <2> QED
    BY <2>4, <2>5, <2>6
<1>12. Turns(r, q) /\ nextId' \in Nat /\ nextId <= nextId'
  BY <1>5, <1>6, <1>8 DEF Turns
<1> QED
  BY <1>8, <1>9, <1>11, <1>12, TurnKeeps

\* Only a lease that is over is written back as watch.
LEMMA NormalizeLeaseKeeps ==
  ASSUME CInv, TInv, NEW r \in Slots, NormalizeLease(r)
  PROVE  TInv'
<1> USE DEF CInv, Typed, ServiceTyped
<1> PICK old \in Reqs : old = req[r]
  OBVIOUS
<1>1. PICK i \in old.left :
         /\ Expired(old.mine[i].control)
         /\ row' = [row EXCEPT ![i] = [old.mine[i] EXCEPT !.control = Watch]]
         /\ req' = [req EXCEPT ![r].mine[i].control = Watch, ![r].left = @ \ {i},
                              ![r].pc = IF old.left = {i} THEN After(r) ELSE "write"]
  BY DEF NormalizeLease
<1>2. i \in Ids /\ old.mine[i] \in Sessions
  BY DEF Reqs
<1>3. PICK s \in Sessions : s = [old.mine[i] EXCEPT !.control = Watch]
  BY <1>2, ControlSet DEF Watch
<1>4. PICK pc \in {"write", "decide", "done"} : pc = IF old.left = {i} THEN After(r) ELSE "write"
  BY DEF After
<1> DEFINE q == [old EXCEPT !.mine = [old.mine EXCEPT ![i] = s], !.left = old.left \ {i}, !.pc = pc]
<1>5. req' = [req EXCEPT ![r] = q] /\ row' = [row EXCEPT ![i] = s]
  BY <1>1, <1>3, <1>4 DEF Reqs
<1>6. q \in Reqs
  BY <1>2 DEF Reqs, Pcs
<1>7. /\ q.kind = old.kind /\ q.pc = pc /\ q.id = old.id /\ q.under = old.under
      /\ q.left = old.left \ {i} /\ q.mine = [old.mine EXCEPT ![i] = s]
  BY DEF Reqs
<1> HIDE DEF q
<1>8. old.pc = "lapse" /\ UNCHANGED <<mop, lapsed, taken, grip, nextId>>
  BY DEF NormalizeLease, Pc, sandboxVars
<1>9. Bounded(q, nextId', taken)
  BY <1>7, <1>8 DEF Bounded, TInv
<1>10. mop[r].op \notin {"browser", "exec"}
  BY <1>8 DEF Called
<1>11. ASSUME grip # NoGrip
       PROVE  /\ row'[grip[1]].control = grip[2]
              /\ CopyAgrees(q, mop'[r], grip) /\ Informed(q, mop'[r], grip)
  <2> DEFINE g == grip[1]
  <2>1. /\ CopyAgrees(old, mop[r], grip) /\ Informed(old, mop[r], grip)
        /\ g \in Ids /\ row[g].control = grip[2] /\ grip[2] \notin lapsed
    BY <1>11 DEF TInv, GripHolds
  <2>2. g # i
    BY <1>1, <1>8, <2>1 DEF CopyAgrees, Expired
  <2>3. q.mine[g] = old.mine[g] /\ row'[g] = row[g]
    BY <1>5, <1>7, <2>1, <2>2 DEF Reqs
  <2>4. CopyAgrees(q, mop'[r], grip)
    BY <1>7, <1>8, <2>1, <2>3 DEF CopyAgrees
  <2>5. Informed(q, mop'[r], grip)
    BY <1>7, <1>8, <1>10, <2>1, <2>3 DEF Informed
  <2> QED
    BY <2>1, <2>3, <2>4, <2>5
<1>12. Turns(r, q) /\ nextId' \in Nat /\ nextId <= nextId'
  BY <1>5, <1>6, <1>8 DEF Turns
<1> QED
  BY <1>8, <1>9, <1>11, <1>12, TurnKeeps

-----------------------------------------------------------------------------
(* What a request does with the session it has read.                       *)

\* Only the control of a request changes.
Continues(r, q, pc) ==
    /\ Turns(r, q) /\ q.pc = pc
    /\ q.kind = req[r].kind /\ q.id = req[r].id /\ q.under = req[r].under
    /\ q.left = req[r].left /\ q.mine = req[r].mine

LEMMA AnswersContinue ==
  ASSUME Typed, NEW r \in Slots, NEW pc \in Pcs, Answers(r, pc)
  PROVE  \E q : Continues(r, q, pc)
<1> USE DEF Typed, ServiceTyped
<1> PICK old \in Reqs : old = req[r]
  OBVIOUS
<1> DEFINE q == [old EXCEPT !.pc = pc]
<1>1. q \in Reqs /\ req' = [req EXCEPT ![r] = q]
  BY PcSet DEF Answers
<1>2. /\ q.pc = pc /\ q.kind = old.kind /\ q.id = old.id /\ q.under = old.under
      /\ q.left = old.left /\ q.mine = old.mine
  BY DEF Reqs
<1> HIDE DEF q
<1> QED
  BY <1>1, <1>2 DEF Continues, Turns

\* A request that decides and is answered at once, or goes away.
LEMMA ContinuingKeeps ==
  ASSUME CInv, TInv, NEW r \in Slots, NEW pc \in {"done", "failed", "undo", "undoBox", "erase"},
         NEW q, Continues(r, q, pc), req[r].pc # "idle",
         UNCHANGED <<mop, nextId, lapsed, taken, grip>>,
         grip # NoGrip => row'[grip[1]] = row[grip[1]],
         pc \in {"done", "failed"} \/ mop[r].op \notin {"browser", "exec"}
  PROVE  TInv'
<1> USE DEF CInv, Typed, ServiceTyped
<1>1. Turns(r, q) /\ nextId' \in Nat /\ nextId <= nextId'
  BY DEF Continues
<1>2. Bounded(q, nextId', taken)
  BY DEF Continues, Bounded, TInv
<1>3. ASSUME grip # NoGrip
      PROVE  /\ row'[grip[1]].control = grip[2]
             /\ CopyAgrees(q, mop'[r], grip) /\ Informed(q, mop'[r], grip)
  BY <1>3 DEF Continues, CopyAgrees, Informed, TInv, GripHolds
<1> QED
  BY <1>1, <1>2, <1>3, TurnKeeps

\* A lease that begins is newer than anything a request carries, and nobody else may
\* write the row back.
LEMMA TakeOverKeeps ==
  ASSUME CInv, TInv, NEW r \in Slots, TakeOver(r)
  PROVE  TInv'
<1> USE DEF CInv, Typed, ServiceTyped
<1> DEFINE i == Target(r)   k == taken + 1
<1>1. /\ req[r].pc = "decide" /\ req[r].kind = "takeover"
      /\ UNCHANGED <<mop, nextId, lapsed>>
  BY DEF TakeOver, Pc, sandboxVars
<1>2. i \in Ids /\ i < nextId
  BY <1>1 DEF TInv, Bounded, Target, Reqs
<1>3. CASE Session(r).status # "running"
  <2>1. Answers(r, "failed") /\ UNCHANGED <<row, taken, grip>>
    BY <1>3 DEF TakeOver
  <2>2. PICK q : Continues(r, q, "failed")
    BY <2>1, AnswersContinue DEF Pcs
  <2> QED
    BY <1>1, <2>1, <2>2, ContinuingKeeps
<1>4. CASE Session(r).status = "running"
  <2>1. /\ row' = [row EXCEPT ![i] = [Session(r) EXCEPT !.control = k]]
        /\ taken' = k /\ Answers(r, "done")
        /\ grip' = IF Overlapped(r, i) THEN NoGrip ELSE <<i, k>>
    BY <1>4 DEF TakeOver
  <2>2. PICK q : Continues(r, q, "done")
    BY <2>1, AnswersContinue DEF Pcs
  <2>3. req'[r] = q /\ \A s \in Slots \ {r} : req'[s] = req[s]
    BY <2>2 DEF Continues, Turns
  <2>4. \A s \in Slots : /\ req'[s].under[2] <= taken /\ taken \in Nat
                         /\ Bounded(req'[s], nextId, taken)
    BY <1>1, <2>2, <2>3 DEF TInv, Bounded, Continues
  <2>5. \A s \in Slots : req'[s].under[2] \in Nat
    BY <2>2, <2>3 DEF Continues, Turns, Reqs
  <2>6. \A s \in Slots : Bounded(req'[s], nextId', taken')
    BY <1>1, <2>1, <2>4, <2>5 DEF Bounded
  <2>7. lapsed' \subseteq 1..taken' /\ k \notin lapsed /\ k # Watch
    BY <1>1, <2>1 DEF TInv, Watch
  <2>8. CASE Overlapped(r, i)
    BY <2>1, <2>6, <2>7, <2>8 DEF TInv, NoGrip, Watch
  <2>9. CASE ~Overlapped(r, i)
    <3>1. grip' = <<i, k>> /\ grip'[1] = i /\ grip'[2] = k
      BY <2>1, <2>9
    <3>2. row'[i].control = k
      <4>1. Session(r) \in Sessions
        BY <1>2 DEF Session, Reqs
      <4>2. [Session(r) EXCEPT !.control = k].control = k
        BY <4>1 DEF Sessions
      <4> QED
        BY <1>2, <2>1, <4>2
    <3>3. GripHolds'
      BY <1>1, <1>2, <2>1, <2>7, <3>1, <3>2 DEF GripHolds
    <3>4. ASSUME NEW s \in Slots PROVE Informed(req'[s], mop'[s], grip')
      <4>1. req'[s].under # grip'
        BY <2>4, <2>5, <3>1
      <4> QED
        BY <4>1 DEF Informed
    <3>5. ASSUME NEW s \in Slots PROVE CopyAgrees(req'[s], mop'[s], grip')
      <4>1. CASE s = r
        BY <2>2, <2>3, <4>1 DEF CopyAgrees, Continues
      <4>2. CASE s # r
        BY <1>1, <2>3, <2>9, <3>1, <4>2 DEF CopyAgrees, Overlapped
      <4> QED
        BY <4>1, <4>2
    <3>6. grip'[2] <= taken'
      BY <2>1, <3>1
    <3> QED
      BY <2>6, <2>7, <3>3, <3>4, <3>5, <3>6 DEF TInv
  <2> QED
    BY <2>8, <2>9
<1> QED
  BY <1>3, <1>4

\* The user holds the computer no more: nothing is left to agree with.
LEMMA LettingGoKeeps ==
  ASSUME CInv, TInv, NEW r \in Slots, NEW pc \in {"done", "undoBox"}, Answers(r, pc),
         req[r].pc # "idle", grip' = NoGrip, UNCHANGED <<nextId, lapsed, taken>>
  PROVE  TInv'
<1> USE DEF CInv, Typed, ServiceTyped
<1>1. PICK q : Continues(r, q, pc)
  BY AnswersContinue DEF Pcs
<1>2. req'[r] = q /\ \A s \in Slots \ {r} : req'[s] = req[s]
  BY <1>1 DEF Continues, Turns
<1>3. \A s \in Slots : Bounded(req'[s], nextId, taken)
  BY <1>1, <1>2 DEF TInv, Bounded, Continues
<1> QED
  BY <1>3 DEF TInv, NoGrip, Watch

\* An agent that knows of the lease sees a computer, the held one or a newer.
LEMMA TargetSeen ==
  ASSUME CInv, TInv, NEW r \in Slots, grip # NoGrip, req[r].pc = "decide",
         req[r].kind \in {"agentActs", "agentExecs"}, req[r].under = grip
  PROVE  /\ Target(r) \in Ids
         /\ Target(r) = grip[1] => Session(r).control = grip[2]
<1> USE DEF CInv, Typed, ServiceTyped
<1>1. /\ grip[1] \in Ids /\ grip[2] # Watch
      /\ req[r].id \in {NoId, grip[1]} => req[r].mine[grip[1]].control = grip[2]
  BY DEF TInv, GripHolds, Informed
<1>2. req[r].id = NoId => Read(r) # {}
  BY <1>1 DEF Read, NoRow
<1>3. Read(r) # {} => Newest(r) \in Ids
  <2>1. Read(r) \in SUBSET Ids
    BY DEF Read
  <2>2. Read(r) # {} => \E i \in Read(r) : \A j \in Read(r) : j <= i
    BY <2>1, GreatestExists
  <2> QED
    BY <2>1, <2>2 DEF Newest
<1>4. Target(r) \in Ids
  BY <1>2, <1>3 DEF Target, Reqs
<1>5. Target(r) = grip[1] => req[r].id \in {NoId, grip[1]}
  BY DEF Target
<1> QED
  BY <1>1, <1>4, <1>5 DEF Session

\* An action is called for, or refused: no agent that knows of the lease acts there.
LEMMA ActKeeps ==
  ASSUME CInv, TInv, NEW r \in Slots, Act(r)
  PROVE  TInv'
<1> USE DEF CInv, Typed, ServiceTyped
<1>1. /\ req[r].pc = "decide"
      /\ UNCHANGED <<row, nextId, lapsed, taken, grip>>
  BY DEF Act, Pc
<1>2. ASSUME Answers(r, "failed"), UNCHANGED mop PROVE TInv'
  <2>1. PICK q : Continues(r, q, "failed")
    BY <1>2, AnswersContinue DEF Pcs
  <2> QED
    BY <1>1, <1>2, <2>1, ContinuingKeeps
<1>3. ASSUME NEW op \in {"browser", "exec"}, Call(r, op, Target(r)), Answers(r, "calls"), MayControl(r)
      PROVE  TInv'
  <2>1. PICK q : Continues(r, q, "calls")
    BY <1>3, AnswersContinue DEF Pcs
  <2>2. PICK m \in Mops : m.op = op /\ m.id = Target(r) /\ mop' = [mop EXCEPT ![r] = m]
    BY <1>3, TargetTyped, CallTyped
  <2>3. mop'[r] = m /\ \A s \in Slots \ {r} : mop'[s] = mop[s]
    BY <2>2 DEF SandboxTyped
  <2>4. Turns(r, q) /\ nextId' \in Nat /\ nextId <= nextId'
    BY <1>1, <2>1 DEF Continues
  <2>5. Bounded(q, nextId', taken)
    BY <1>1, <2>1 DEF Continues, Bounded, TInv
  <2>6. ASSUME grip # NoGrip
        PROVE  /\ row'[grip[1]].control = grip[2]
               /\ CopyAgrees(q, mop'[r], grip) /\ Informed(q, mop'[r], grip)
    <3>1. row'[grip[1]].control = grip[2] /\ grip[2] # Watch /\ Informed(req[r], mop[r], grip)
      BY <1>1, <2>6 DEF TInv, GripHolds
    <3>2. CopyAgrees(q, mop'[r], grip)
      BY <1>3, <2>1, <2>2, <2>3 DEF CopyAgrees, Continues
    <3>3. ASSUME q.kind \in {"agentActs", "agentExecs"}, q.under = grip
          PROVE  Target(r) # grip[1]
      <4>1. Session(r).control = Watch
        BY <1>3, <2>1, <3>3 DEF MayControl, ByAgent, Continues
      <4>2. Target(r) = grip[1] => Session(r).control = grip[2]
        BY <1>1, <2>1, <2>6, <3>3, TargetSeen DEF Continues
      <4> QED
        BY <3>1, <4>1, <4>2
    <3>4. Informed(q, mop'[r], grip)
      BY <1>1, <2>1, <2>2, <2>3, <3>1, <3>3 DEF Informed, Continues
    <3> QED
      BY <3>1, <3>2, <3>4
  <2> QED
    BY <1>1, <2>3, <2>4, <2>5, <2>6, TurnKeeps
<1>4. \/ Answers(r, "failed") /\ UNCHANGED mop
      \/ \E op \in {"browser", "exec"} :
            Call(r, op, Target(r)) /\ Answers(r, "calls") /\ MayControl(r)
  BY DEF Act
<1> QED
  BY <1>2, <1>3, <1>4

\* A wake and a removal are called for; the copy a wake will write back names the lease.
LEMMA WakeKeeps ==
  ASSUME CInv, TInv, NEW r \in Slots, Wake(r) \/ RemoveComputer(r)
  PROVE  TInv'
<1> USE DEF CInv, Typed, ServiceTyped
<1>1. /\ req[r].pc = "decide"
      /\ UNCHANGED <<row, nextId, lapsed, taken, grip>>
      /\ Answers(r, "calls")
  BY DEF Wake, RemoveComputer, Pc
<1>2. PICK op \in {"create", "remove"} :
         /\ Call(r, op, Target(r))
         /\ op = "create" => Session(r).status = "stopped"
  BY DEF Wake, RemoveComputer
<1>3. PICK q : Continues(r, q, "calls")
  BY <1>1, AnswersContinue DEF Pcs
<1>4. PICK m \in Mops : m.op = op /\ m.id = Target(r) /\ mop' = [mop EXCEPT ![r] = m]
  BY <1>2, TargetTyped, CallTyped
<1>5. mop'[r] = m /\ \A s \in Slots \ {r} : mop'[s] = mop[s]
  BY <1>4 DEF SandboxTyped
<1>6. Turns(r, q) /\ nextId' \in Nat /\ nextId <= nextId'
  BY <1>1, <1>3 DEF Continues
<1>7. Bounded(q, nextId', taken)
  BY <1>1, <1>3 DEF Continues, Bounded, TInv
<1>8. ASSUME grip # NoGrip
      PROVE  /\ row'[grip[1]].control = grip[2]
             /\ CopyAgrees(q, mop'[r], grip) /\ Informed(q, mop'[r], grip)
  <2>1. /\ row'[grip[1]].control = grip[2]
        /\ CopyAgrees(req[r], mop[r], grip) /\ Informed(req[r], mop[r], grip)
    BY <1>1, <1>8 DEF TInv, GripHolds
  <2>2. CopyAgrees(q, mop'[r], grip)
    BY <1>1, <1>2, <1>3, <1>4, <1>5, <2>1 DEF CopyAgrees, Continues, Session
  <2>3. Informed(q, mop'[r], grip)
    BY <1>1, <1>3, <1>4, <1>5, <2>1 DEF Informed, Continues
  <2> QED
    BY <2>1, <2>2, <2>3
<1> QED
  BY <1>1, <1>5, <1>6, <1>7, <1>8, TurnKeeps

\* No agent that knows of the lease goes on to make a computer.
LEMMA ProvisionKeeps ==
  ASSUME CInv, TInv, NEW r \in Slots, Provision(r)
  PROVE  TInv'
<1> USE DEF CInv, Typed, ServiceTyped
<1> PICK old \in Reqs : old = req[r]
  OBVIOUS
<1>1. /\ old.pc = "decide" /\ Target(r) = NoId
      /\ UNCHANGED <<mop, row, nextId, lapsed, taken, grip>>
  BY DEF Provision, Pc, sandboxVars
<1>2. PICK pc \in {"failed", "joins", "rows"}, creates \in BOOLEAN :
         req' = [req EXCEPT ![r] = [old EXCEPT !.pc = pc, !.creates = creates]]
  <2>1. \/ Answers(r, "failed") \/ Answers(r, "joins")
        \/ req' = [req EXCEPT ![r].pc = "rows", ![r].creates = TRUE]
    BY DEF Provision
  <2>2. [old EXCEPT !.pc = "failed"] = [old EXCEPT !.pc = "failed", !.creates = old.creates]
    BY DEF Reqs
  <2>3. [old EXCEPT !.pc = "joins"] = [old EXCEPT !.pc = "joins", !.creates = old.creates]
    BY DEF Reqs
  <2>4. old.creates \in BOOLEAN
    BY DEF Reqs
  <2>5. CASE Answers(r, "failed")
    BY <2>2, <2>4, <2>5 DEF Answers
  <2>6. CASE Answers(r, "joins")
    BY <2>3, <2>4, <2>6 DEF Answers
  <2>7. CASE req' = [req EXCEPT ![r].pc = "rows", ![r].creates = TRUE]
    BY <2>7
  <2> QED
    BY <2>1, <2>5, <2>6, <2>7
<1> DEFINE q == [old EXCEPT !.pc = pc, !.creates = creates]
<1>3. q \in Reqs
  BY DEF Reqs, Pcs
<1>4. q.kind = old.kind /\ q.pc = pc /\ q.id = old.id /\ q.under = old.under
  BY DEF Reqs
<1> HIDE DEF q
<1>5. Turns(r, q) /\ nextId' \in Nat /\ nextId <= nextId'
  BY <1>1, <1>2, <1>3 DEF Turns, q
<1>6. Bounded(q, nextId', taken)
  BY <1>1, <1>4 DEF Bounded, TInv
<1>7. mop[r].op \notin {"browser", "exec"}
  BY <1>1 DEF Called
<1>8. ASSUME grip # NoGrip
      PROVE  /\ row'[grip[1]].control = grip[2]
             /\ CopyAgrees(q, mop'[r], grip) /\ Informed(q, mop'[r], grip)
  <2>1. ~(old.kind \in {"agentActs", "agentExecs"} /\ old.under = grip)
    BY <1>1, <1>8, TargetSeen DEF Ids, NoId
  <2> QED
    BY <1>1, <1>4, <1>8, <2>1 DEF CopyAgrees, Informed, TInv, GripHolds
<1> QED
  BY <1>1, <1>5, <1>6, <1>8, TurnKeeps

\* A computer that is made is not the one the user holds.
LEMMA CreateKeeps ==
  ASSUME CInv, TInv, NEW r \in Slots, Create(r)
  PROVE  TInv'
<1> USE DEF CInv, Typed, ServiceTyped
<1> PICK old \in Reqs : old = req[r]
  OBVIOUS
<1>1. /\ old.pc = "decide" /\ Target(r) = NoId /\ nextId \in Ids
      /\ Call(r, "create", nextId) /\ nextId' = nextId + 1
      /\ UNCHANGED <<lapsed, taken, grip>>
  BY SandboxAssumption DEF Create, Pc, Ids
<1>2. PICK s : /\ s = [status |-> "creating", control |-> Watch]
               /\ row' = [row EXCEPT ![nextId] = s]
               /\ req' = [req EXCEPT ![r].pc = "calls", ![r].mine[nextId] = s]
  BY DEF Create
<1>3. s \in Sessions
  BY <1>2 DEF Sessions, Statuses, Watch
<1> DEFINE q == [old EXCEPT !.pc = "calls", !.mine = [old.mine EXCEPT ![nextId] = s]]
<1>4. q \in Reqs /\ req' = [req EXCEPT ![r] = q]
  BY <1>2, <1>3 DEF Reqs, Pcs
<1>5. /\ q.kind = old.kind /\ q.pc = "calls" /\ q.id = old.id /\ q.under = old.under
      /\ q.mine = [old.mine EXCEPT ![nextId] = s]
  BY DEF Reqs
<1> HIDE DEF q
<1>6. PICK m \in Mops : m.op = "create" /\ m.id = nextId /\ mop' = [mop EXCEPT ![r] = m]
  BY <1>1, CallTyped
<1>7. mop'[r] = m /\ \A t \in Slots \ {r} : mop'[t] = mop[t]
  BY <1>6 DEF SandboxTyped
<1>8. Turns(r, q) /\ nextId' \in Nat /\ nextId <= nextId'
  BY <1>1, <1>4 DEF Turns
<1>9. Bounded(q, nextId', taken)
  <2>1. Bounded(old, nextId, taken) /\ old.id \in Nat
    BY SandboxAssumption DEF TInv, Reqs, Ids, NoId
  <2> QED
    BY <1>1, <1>5, <2>1 DEF Bounded
<1>10. ASSUME grip # NoGrip
       PROVE  /\ row'[grip[1]].control = grip[2]
              /\ CopyAgrees(q, mop'[r], grip) /\ Informed(q, mop'[r], grip)
  <2>1. /\ row[grip[1]].control = grip[2] /\ grip[1] \in Ids /\ grip[1] < nextId
        /\ CopyAgrees(old, mop[r], grip)
    BY <1>10 DEF TInv, GripHolds
  <2>2. grip[1] # nextId
    BY <2>1 DEF Ids
  <2>3. row'[grip[1]] = row[grip[1]] /\ q.mine[grip[1]] = old.mine[grip[1]]
    BY <1>2, <1>5, <2>1, <2>2 DEF Reqs
  <2>4. ~(old.kind \in {"agentActs", "agentExecs"} /\ old.under = grip)
    BY <1>1, <1>10, TargetSeen DEF Ids, NoId
  <2>5. CopyAgrees(q, mop'[r], grip)
    BY <1>1, <1>5, <1>6, <1>7, <2>1, <2>2, <2>3 DEF CopyAgrees
  <2>6. Informed(q, mop'[r], grip)
    BY <1>5, <2>4 DEF Informed
  <2> QED
    BY <2>1, <2>3, <2>5, <2>6
<1> QED
  BY <1>1, <1>7, <1>8, <1>9, <1>10, TurnKeeps

-----------------------------------------------------------------------------
(* The answers of the manager.                                             *)

\* A creation ends, and takes along the requests that joined it: none of them knows of
\* the lease, and the session they get is one that may be written back.
LEMMA ResolvesKeeps ==
  ASSUME CInv, TInv, NEW r \in Slots, NEW q \in [Slots -> Reqs], NEW pc,
         NEW mine \in [Ids -> Sessions],
         \A t \in Slots : t # r => q[t] = req[t],
         q[r].kind = req[r].kind, q[r].id = req[r].id, q[r].under = req[r].under,
         Resolves(r, q, pc, mine), req[r].pc # "idle", mop[r].op \notin {"browser", "exec"},
         UNCHANGED <<mop, nextId, lapsed, taken, grip>>,
         grip # NoGrip =>
            /\ row'[grip[1]].control = grip[2]
            /\ pc # "failed" /\ mine[grip[1]].status = "stopped" => mine[grip[1]].control = grip[2]
            /\ /\ req[r].kind \in {"agentActs", "agentExecs"} /\ req[r].under = grip
               /\ pc # "failed" /\ req[r].id \in {NoId, grip[1]}
               => mine[grip[1]].control = grip[2]
  PROVE  TInv'
<1> USE DEF CInv, Typed, ServiceTyped
<1> DEFINE x(t) == IF pc = "failed" THEN "failed"
                   ELSE IF q[t].kind = "create" THEN "done" ELSE "decide"
           Ended(t) == t = r \/ req[t].pc = "joins"
<1>1. ASSUME NEW t \in Slots
      PROVE  \/ req'[t] = req[t] /\ t # r
             \/ /\ Ended(t)
                /\ req'[t].pc = x(t) /\ req'[t].mine = mine
                /\ req'[t].kind = req[t].kind /\ req'[t].id = req[t].id
                /\ req'[t].under = req[t].under
  <2>1. PICK old \in Reqs : old = q[t]
    OBVIOUS
  <2> DEFINE n == [old EXCEPT !.pc = x(t), !.mine = mine, !.creates = FALSE]
  <2>2. req'[t] = IF t = r \/ (provisioning = r /\ old.pc = "joins") THEN n ELSE old
    BY <2>1 DEF Resolves, Resolved
  <2>3. /\ n.pc = x(t) /\ n.mine = mine /\ n.kind = old.kind /\ n.id = old.id
        /\ n.under = old.under
    BY DEF Reqs
  <2> HIDE DEF n, x
  <2> QED
    BY <2>1, <2>2, <2>3
<1>2. ASSUME NEW t \in Slots PROVE Bounded(req'[t], nextId', taken')
  <2>1. Bounded(req[t], nextId, taken)
    BY DEF TInv
  <2> QED
    BY <1>1, <2>1 DEF Bounded
<1>3. ASSUME grip # NoGrip, NEW t \in Slots
      PROVE  CopyAgrees(req'[t], mop'[t], grip) /\ Informed(req'[t], mop'[t], grip)
  <2>1. CopyAgrees(req[t], mop[t], grip) /\ Informed(req[t], mop[t], grip)
    BY <1>3 DEF TInv
  <2>2. CASE req'[t] = req[t]
    BY <2>1, <2>2
  <2>3. CASE /\ Ended(t)
             /\ req'[t].pc = x(t) /\ req'[t].mine = mine
             /\ req'[t].kind = req[t].kind /\ req'[t].id = req[t].id
             /\ req'[t].under = req[t].under
    <3>1. CopyAgrees(req'[t], mop'[t], grip)
      BY <1>3, <2>3 DEF CopyAgrees
    <3>2. Informed(req'[t], mop'[t], grip)
      BY <1>3, <2>1, <2>3 DEF Informed
    <3> QED
      BY <3>1, <3>2
  <2> QED
    BY <1>1, <2>2, <2>3
<1>4. grip # NoGrip => GripHolds'
  BY DEF TInv, GripHolds
<1> QED
  BY <1>2, <1>3, <1>4 DEF TInv

LEMMA FoundKeeps ==
  ASSUME CInv, TInv, NEW r \in Slots, Found(r)
  PROVE  TInv'
<1> USE DEF CInv, Typed, ServiceTyped
<1>1. /\ req[r].pc = "decide" /\ Resolves(r, req, "ok", req[r].mine)
      /\ UNCHANGED <<mop, row, nextId, lapsed, taken, grip>>
  BY DEF Found, Pc, sandboxVars
<1>2. mop[r].op \notin {"browser", "exec"} /\ req[r].mine \in [Ids -> Sessions]
  BY <1>1 DEF Called, Reqs
<1>3. ASSUME grip # NoGrip
      PROVE  /\ row'[grip[1]].control = grip[2]
             /\ CopyAgrees(req[r], mop[r], grip) /\ Informed(req[r], mop[r], grip)
  BY <1>1, <1>3 DEF TInv, GripHolds
<1>4. grip # NoGrip =>
         /\ req[r].mine[grip[1]].status = "stopped" => req[r].mine[grip[1]].control = grip[2]
         /\ /\ req[r].kind \in {"agentActs", "agentExecs"} /\ req[r].under = grip
            /\ req[r].id \in {NoId, grip[1]}
            => req[r].mine[grip[1]].control = grip[2]
  BY <1>1, <1>3 DEF CopyAgrees, Informed
<1> QED
  BY <1>1, <1>2, <1>3, <1>4, ResolvesKeeps

\* The row is written with the copy the creation or the wake was called with.
LEMMA CreateReturnsKeeps ==
  ASSUME CInv, TInv, NEW r \in Slots, CreateReturns(r)
  PROVE  TInv'
<1> USE DEF CInv, Typed, ServiceTyped
<1> PICK old \in Reqs : old = req[r]
  OBVIOUS
<1> DEFINE i == mop[r].id   s == [old.mine[i] EXCEPT !.status = "running"]
           q == [req EXCEPT ![r] = [old EXCEPT !.mine = [old.mine EXCEPT ![i] = s]]]
<1>1. /\ old.pc = "calls" /\ mop[r].op = "create"
      /\ UNCHANGED <<mop, nextId, lapsed, taken, grip>>
  BY DEF CreateReturns, Pc
<1>2. row' = [row EXCEPT ![i] = s]
  BY DEF CreateReturns
<1>3. Resolves(r, q, "ok", q[r].mine)
  <2>1. [req EXCEPT ![r].mine[i] = s] = q
    BY DEF Reqs
  <2> HIDE DEF Resolves, q
  <2> QED
    BY <2>1 DEF CreateReturns
<1>4. old.mine \in [Ids -> Sessions]
  BY DEF Reqs
<1>5. i \in Ids => s \in Sessions /\ s.status = "running" /\ s.control = old.mine[i].control
  BY <1>4, StatusSet DEF Sessions
<1> DEFINE mine == [old.mine EXCEPT ![i] = s]
<1>6. mine \in [Ids -> Sessions] /\ \A j \in Ids : mine[j] = IF j = i THEN s ELSE old.mine[j]
  BY <1>4, <1>5
<1> HIDE DEF s
<1>7. /\ q \in [Slots -> Reqs] /\ \A t \in Slots : t # r => q[t] = req[t]
      /\ q[r].kind = old.kind /\ q[r].id = old.id /\ q[r].under = old.under
      /\ q[r].mine = mine
  <2>1. [old EXCEPT !.mine = mine] \in Reqs
    BY <1>6, MineSet
  <2> QED
    BY <2>1 DEF Reqs
<1> HIDE DEF q, mine
<1>8. ASSUME grip # NoGrip
      PROVE  /\ row'[grip[1]].control = grip[2]
             /\ mine[grip[1]].status = "stopped" => mine[grip[1]].control = grip[2]
             /\ /\ old.kind \in {"agentActs", "agentExecs"} /\ old.under = grip
                /\ old.id \in {NoId, grip[1]}
                => mine[grip[1]].control = grip[2]
  <2>1. /\ row[grip[1]].control = grip[2] /\ grip[1] \in Ids
        /\ CopyAgrees(old, mop[r], grip) /\ Informed(old, mop[r], grip)
    BY <1>8 DEF TInv, GripHolds
  <2>2. row'[grip[1]].control = grip[2]
    BY <1>1, <1>2, <1>5, <2>1 DEF CopyAgrees
  <2>3. mine[grip[1]].status = "stopped" => mine[grip[1]].control = grip[2]
    BY <1>1, <1>5, <1>6, <2>1 DEF CopyAgrees
  <2>4. /\ old.kind \in {"agentActs", "agentExecs"} /\ old.under = grip
        /\ old.id \in {NoId, grip[1]}
        => mine[grip[1]].control = grip[2]
    BY <1>1, <1>5, <1>6, <2>1 DEF Informed
  <2> QED
    BY <2>2, <2>3, <2>4
<1>9. mine = q[r].mine /\ mine \in [Ids -> Sessions]
  BY <1>6, <1>7
<1> QED
  BY <1>1, <1>3, <1>7, <1>8, <1>9, ResolvesKeeps

LEMMA CreateFailsKeeps ==
  ASSUME CInv, TInv, NEW r \in Slots, CreateFails(r)
  PROVE  TInv'
<1> USE DEF CInv, Typed, ServiceTyped
<1>1. /\ req[r].pc = "calls" /\ mop[r].op = "create"
      /\ UNCHANGED <<mop, row, nextId, lapsed, taken, grip>>
  BY DEF CreateFails, Pc
<1>2. CASE Answers(r, "undo")
  <2>1. PICK q : Continues(r, q, "undo")
    BY <1>2, AnswersContinue DEF Pcs
  <2> QED
    BY <1>1, <2>1, ContinuingKeeps
<1>3. CASE Resolves(r, req, "failed", req[r].mine)
  <2>1. req[r].mine \in [Ids -> Sessions]
    BY DEF Reqs
  <2>2. grip # NoGrip => row'[grip[1]].control = grip[2]
    BY <1>1 DEF TInv, GripHolds
  <2> QED
    BY <1>1, <1>3, <2>1, <2>2, ResolvesKeeps
<1> QED
  BY <1>2, <1>3 DEF CreateFails

LEMMA UndoBoxKeeps ==
  ASSUME CInv, TInv, NEW r \in Slots, UndoBox(r)
  PROVE  TInv'
<1> USE DEF CInv, Typed, ServiceTyped
<1>1. /\ req[r].pc = "undoBox" /\ Resolves(r, req, "failed", req[r].mine)
      /\ UNCHANGED <<mop, row, nextId, lapsed, taken, grip>>
  BY DEF UndoBox, Pc
<1>2. mop[r].op \notin {"browser", "exec"} /\ req[r].mine \in [Ids -> Sessions]
  BY <1>1 DEF Called, Reqs
<1>3. grip # NoGrip => row'[grip[1]].control = grip[2]
  BY <1>1 DEF TInv, GripHolds
<1> QED
  BY <1>1, <1>2, <1>3, ResolvesKeeps

\* A row that is deleted takes the user's hold of the computer with it.
LEMMA DeletionKeeps ==
  ASSUME CInv, TInv, NEW r \in Slots, NEW i, NEW pc \in {"done", "undoBox"},
         row' = [row EXCEPT ![i] = NoRow],
         grip' = IF grip[1] = i THEN NoGrip ELSE grip,
         Answers(r, pc), req[r].pc \in {"undo", "erase"},
         UNCHANGED <<mop, nextId, lapsed, taken>>
  PROVE  TInv'
<1> USE DEF CInv, Typed, ServiceTyped
<1>1. mop[r].op \notin {"browser", "exec"}
  BY DEF Called
<1>2. CASE grip[1] = i
  BY <1>2, LettingGoKeeps
<1>3. CASE grip[1] # i
  <2>1. PICK q : Continues(r, q, pc)
    BY AnswersContinue DEF Pcs
  <2>2. grip # NoGrip => row'[grip[1]] = row[grip[1]]
    BY <1>3 DEF TInv, GripHolds
  <2>3. UNCHANGED grip
    BY <1>3
  <2> QED
    BY <1>1, <2>1, <2>2, <2>3, ContinuingKeeps
<1> QED
  BY <1>2, <1>3

LEMMA UndoKeeps ==
  ASSUME CInv, TInv, NEW r \in Slots, Undo(r)
  PROVE  TInv'
<1>1. /\ row' = [row EXCEPT ![mop[r].id] = NoRow]
      /\ grip' = IF grip[1] = mop[r].id THEN NoGrip ELSE grip
      /\ Answers(r, "undoBox") /\ req[r].pc = "undo"
      /\ UNCHANGED <<mop, nextId, lapsed, taken>>
  BY DEF Undo, Pc, sandboxVars
<1> QED
  BY <1>1, DeletionKeeps

LEMMA EraseKeeps ==
  ASSUME CInv, TInv, NEW r \in Slots, Erase(r)
  PROVE  TInv'
<1>1. /\ row' = [row EXCEPT ![Target(r)] = NoRow]
      /\ grip' = IF grip[1] = Target(r) THEN NoGrip ELSE grip
      /\ Answers(r, "done") /\ req[r].pc = "erase"
      /\ UNCHANGED <<mop, nextId, lapsed, taken>>
  BY DEF Erase, Pc, sandboxVars
<1> QED
  BY <1>1, DeletionKeeps

LEMMA CallReturnsKeeps ==
  ASSUME CInv, TInv, NEW r \in Slots, ActReturns(r) \/ RemoveReturns(r)
  PROVE  TInv'
<1> USE DEF CInv, Typed, ServiceTyped
<1>1. PICK pc \in {"done", "failed", "erase"} :
         Answers(r, pc) /\ (pc = "erase" => mop[r].op = "remove")
  BY DEF ActReturns, RemoveReturns
<1>2. req[r].pc = "calls" /\ UNCHANGED <<mop, row, nextId, lapsed, taken, grip>>
  BY DEF ActReturns, RemoveReturns, Pc
<1>3. PICK q : Continues(r, q, pc)
  BY <1>1, AnswersContinue DEF Pcs
<1> QED
  BY <1>1, <1>2, <1>3, ContinuingKeeps

-----------------------------------------------------------------------------
(* Time, the manager, and every step.                                      *)

LEMMA LapseKeeps ==
  ASSUME CInv, TInv, NEW k \in Leases, Lapse(k)
  PROVE  TInv'
<1> USE DEF CInv, Typed, ServiceTyped
<1>1. /\ k \in 1..taken /\ lapsed' = lapsed \cup {k}
      /\ grip' = IF grip[2] = k THEN NoGrip ELSE grip
      /\ UNCHANGED <<mop, row, req, nextId, taken>>
  BY DEF Lapse, Leases, sandboxVars
<1>2. CASE grip[2] = k
  <2>1. grip' = NoGrip /\ NoGrip[2] = 0 /\ lapsed' \subseteq 1..taken
    BY <1>1, <1>2 DEF TInv, NoGrip, Watch
  <2> QED
    BY <1>1, <2>1 DEF TInv
<1>3. CASE grip[2] # k
  <2>1. UNCHANGED grip /\ lapsed' \subseteq 1..taken
    BY <1>1, <1>3 DEF TInv
  <2>2. grip # NoGrip => GripHolds'
    BY <1>1, <1>3, <2>1 DEF TInv, GripHolds
  <2> QED
    BY <1>1, <2>1, <2>2 DEF TInv
<1> QED
  BY <1>2, <1>3

LEMMA ManagerKeeps ==
  ASSUME CInv, TInv, UNCHANGED serviceVars,
         \A s \in Slots : mop'[s].op = mop[s].op /\ mop'[s].id = mop[s].id
  PROVE  TInv'
<1>1. UNCHANGED <<row, req, nextId, lapsed, taken, grip>>
  BY DEF serviceVars
<1>2. grip # NoGrip => GripHolds'
  BY <1>1 DEF TInv, GripHolds
<1>3. ASSUME grip # NoGrip, NEW s \in Slots
      PROVE  CopyAgrees(req[s], mop'[s], grip) /\ Informed(req[s], mop'[s], grip)
  BY <1>3 DEF TInv, CopyAgrees, Informed
<1> QED
  BY <1>1, <1>2, <1>3 DEF TInv

LEMMA NextTInv == CInv /\ TInv /\ [Next]_vars => TInv'
<1> SUFFICES ASSUME CInv, TInv, [Next]_vars PROVE TInv'
  OBVIOUS
<1>1. ASSUME UNCHANGED serviceVars, UNCHANGED mop PROVE TInv'
  BY <1>1, ManagerKeeps
<1>2. CASE UNCHANGED vars
  BY <1>1, <1>2 DEF vars, sandboxVars
<1>3. ASSUME NEW r \in Slots, NEW kind \in Kinds, Begin(r, kind) PROVE TInv'
  BY <1>3, BeginKeeps
<1>4. ASSUME NEW r \in Slots, Serves(r) PROVE TInv'
  <2>1. CASE ReadRows(r) \/ ReadBoxes(r) \/ WriteBack(r) \/ NormalizeLease(r)
    BY <2>1, ReadRowsKeeps, ReadBoxesKeeps, WriteBackKeeps, NormalizeLeaseKeeps
  <2>2. CASE TakeOver(r) \/ Act(r) \/ Wake(r) \/ RemoveComputer(r)
    BY <2>2, TakeOverKeeps, ActKeeps, WakeKeeps
  <2>3. CASE ReturnControl(r)
    <3>1. /\ Answers(r, "done") /\ grip' = NoGrip /\ req[r].pc = "decide"
          /\ UNCHANGED <<nextId, lapsed, taken>>
      BY <2>3 DEF ReturnControl, Pc
    <3> QED
      BY <3>1, LettingGoKeeps
  <2>4. CASE Provision(r) \/ Create(r) \/ Found(r)
    BY <2>4, ProvisionKeeps, CreateKeeps, FoundKeeps
  <2>5. CASE CreateReturns(r) \/ CreateFails(r) \/ UndoBox(r)
    BY <2>5, CreateReturnsKeeps, CreateFailsKeeps, UndoBoxKeeps
  <2>6. CASE Undo(r) \/ Erase(r) \/ ActReturns(r) \/ RemoveReturns(r)
    BY <2>6, UndoKeeps, EraseKeeps, CallReturnsKeeps
  <2> QED
    BY <1>4, <2>1, <2>2, <2>3, <2>4, <2>5, <2>6 DEF Serves
<1>5. ASSUME NEW r \in Slots, Works(r) \/ CutOff(r) \/ DockerFails(r), UNCHANGED serviceVars
      PROVE  TInv'
  <2>1. PICK m : WorkStep(r, m)
    BY <1>5, WorksShape DEF CInv
  <2>2. \A s \in Slots : mop'[s].op = mop[s].op /\ mop'[s].id = mop[s].id
    BY <2>1 DEF WorkStep, CInv, Typed, SandboxTyped
  <2> QED
    BY <1>5, <2>2, ManagerKeeps
<1>6. ASSUME NEW r \in Slots, CommandEnds(r), UNCHANGED serviceVars PROVE TInv'
  BY <1>1, <1>6 DEF CommandEnds
<1>7. ASSUME NEW k \in Leases, Lapse(k) PROVE TInv'
  BY <1>7, LapseKeeps
<1>8. ASSUME Containers, UNCHANGED serviceVars PROVE TInv'
  BY <1>1, <1>8 DEF Containers, Dies, Ages, Suspends, Suspended, View
<1> QED
  BY <1>2, <1>3, <1>4, <1>5, <1>6, <1>7, <1>8 DEF Next, Manages

\* Only an operation of the manager starts a command, and it was called for before.
LEMMA StepWaits ==
  CInv /\ TInv /\ [Next]_vars =>
    [\A r \in commands' \ commands :
        ByAgent(r) /\ grip # NoGrip /\ grip[1] = mop[r].id => req[r].under # grip]_vars
<1> SUFFICES ASSUME CInv, TInv, [Next]_vars, NEW r \in commands' \ commands,
                    ByAgent(r), grip # NoGrip, grip[1] = mop[r].id, req[r].under = grip
             PROVE  FALSE
  OBVIOUS
<1>1. PICK t \in Slots : \E m : WorkStep(t, m)
  BY NextShape DEF CallStep, OtherStep
<1>2. r = t /\ r \in Slots
  BY <1>1 DEF WorkStep
<1>3. mop[r].pc = "run"
  BY <1>1, <1>2 DEF WorkStep
<1>4. mop[r].op \in {"browser", "exec"}
  BY <1>2, <1>3 DEF CInv, CommandsAreCalls
<1> QED
  BY <1>2, <1>4 DEF TInv, Informed, ByAgent

\* An agent's request that arrives while the user holds the computer starts no command
\* there until control was returned or the lease is over, whatever requests refresh,
\* wake, remove and write back meanwhile (takeover, exec, navigateBrowser,
\* desktopAction).
THEOREM AgentsWait == Spec => AgentsWaitForTheUser
  BY InitCInv, NextCInv, InitTInv, NextTInv, StepWaits, PTL DEF Spec, AgentsWaitForTheUser

-----------------------------------------------------------------------------
(* The rows, the requests and the containers: the invariant.               *)

Kept == [status : Statuses, control : Leases \cup {Watch}] \cup {NoRow}
Known == Rows \cup deleted
Live == Rows \ deleted

\* A request that makes a computer or wakes one, and one that removes it.
Creating(q, m) == q.pc \in {"undo", "undoBox"} \/ (q.pc = "calls" /\ m.op = "create")
Removing(q, m) == q.pc = "erase" \/ (q.pc = "calls" /\ m.op = "remove")

\* What a request is about where it stands, when m is its operation at the manager: it
\* has a row of every computer that it refreshes, acts on, creates or deletes.
Asks(q, m) ==
    /\ (q.pc = "idle") <=> (q.kind = "none")
    /\ (q.id = NoId) <=> (q.kind \in Acts \cup {"list", "create", "none"})
    /\ q.pc \notin {"boxes", "write", "lapse"} => q.left = {}
    /\ \A i \in q.left : q.mine[i] # NoRow
    /\ q.id # NoId /\ q.pc \in {"boxes", "write", "lapse", "decide", "calls", "erase"} =>
          q.mine[q.id] # NoRow
    /\ Creating(q, m) => /\ m.op = "create" /\ m.id \in Ids /\ q.mine[m.id] # NoRow
                         /\ q.kind \in Acts \cup {"create"}
    /\ Removing(q, m) => q.kind = "remove"
    /\ q.pc = "joins" => q.kind = "agentActs" /\ ~q.creates
    /\ q.creates => /\ q.kind = "agentActs" /\ q.pc \notin {"idle", "done", "failed"}
                    /\ q.pc = "calls" => m.op = "create"

\* ... and knows only rows there are or were.
Sound(q, m, known) ==
    /\ q.mine \in [Ids -> Kept]
    /\ \A i \in Ids : q.mine[i] # NoRow => i \in known
    /\ Asks(q, m)

SessionsAreSound ==
    /\ row \in [Ids -> Kept]
    /\ Known \subseteq 1..(nextId - 1)
    /\ \A r \in Slots : Sound(req[r], mop[r], Known)

\* The promise of the shared computer is that of the one request that creates it.
OneProvides ==
    /\ provisioning \in Slots \cup {None}
    /\ \A r \in Slots : req[r].creates <=> (provisioning = r)

\* A request of the user that has made a computer, or found one.
Made(q) == q.kind = "create" /\ q.pc \in {"calls", "undo", "undoBox", "done", "failed"}
Creators == {r \in Slots : Made(req[r])}

\* The agent's request that creates has read that there is no computer.
FoundNone(q) ==
    /\ q.creates /\ q.pc \in {"boxes", "write", "lapse", "decide"}
    /\ \A i \in Ids : q.mine[i] = NoRow

FewComputers ==
    /\ Cardinality(Live) <= 1 + Cardinality(Creators)
    /\ \A r \in Slots : FoundNone(req[r]) => Cardinality(Live) <= Cardinality(Creators)

\* Without failures the manager works only for those who wait for it.
Settled ==
    failures = 0 => \A r \in Slots : req[r].pc # "calls" => mop[r].pc \in Over

\* A request that will write the row of container i, in state b, or remove the container.
Backs(q, m, i, b) ==
    /\ m.op = "create" /\ m.id = i
    /\ \/ q.pc = "undoBox"
       \/ q.pc = "calls" /\ (m.pc = "ok" \/ (m.pc = "start" /\ b # "running"))

Spared == failures = 0 /\ \A r \in Slots : req[r].kind # "remove"
Backed ==
    Spared => \A i \in Ids : box[i] # "none" =>
                 i \in Rows \/ \E r \in Slots : Backs(req[r], mop[r], i, box[i])

Limits ==
    /\ asked \in Mixes
    /\ nextId <= MaxComputers + 1
    /\ taken <= MaxLeases
    /\ failures <= MaxFailures
    /\ stopping \subseteq Ids
    /\ \A r \in Slots : /\ mop[r].tries <= 2
                        /\ mop[r].pc \in {"make", "start"} => mop[r].op = "create"

SInv ==
    /\ Limits
    /\ SessionsAreSound
    /\ OneProvides
    /\ FewComputers
    /\ Settled
    /\ Backed

LEMMA Constants ==
  /\ MaxComputers \in Nat \ {0} /\ MaxLeases \in Nat /\ MaxFailures \in Nat
  /\ None \notin Slots /\ IsFiniteSet(Slots)
  BY SandboxAssumption, ComputersAssumption

\* Sessions as they are stored and rewritten.
LEMMA KeptSet ==
  ASSUME NEW s \in Kept, s # NoRow
  PROVE  /\ s \in [status : Statuses, control : Leases \cup {Watch}]
         /\ [s EXCEPT !.status = "running"] \in Kept \ {NoRow}
         /\ \A b : WithSandbox(s, b) \in Kept \ {NoRow}
         /\ \A k \in Leases \cup {Watch} : [s EXCEPT !.control = k] \in Kept \ {NoRow}
<1>1. s \in [status : Statuses, control : Leases \cup {Watch}]
  BY DEF Kept
<1>2. \A x \in [status : Statuses, control : Leases \cup {Watch}] : x \in Kept \ {NoRow}
  BY DEF Kept, NoRow, Statuses
<1>3. [s EXCEPT !.status = "running"] \in [status : Statuses, control : Leases \cup {Watch}]
  BY <1>1 DEF Statuses
<1>4. ASSUME NEW b PROVE WithSandbox(s, b) \in [status : Statuses, control : Leases \cup {Watch}]
  <2>1. Status(b) \in Statuses
    BY DEF Status, Statuses
  <2> QED
    BY <1>1, <2>1 DEF WithSandbox
<1>5. ASSUME NEW k \in Leases \cup {Watch}
      PROVE  [s EXCEPT !.control = k] \in [status : Statuses, control : Leases \cup {Watch}]
  BY <1>1
<1> QED
  BY <1>1, <1>2, <1>3, <1>4, <1>5

LEMMA NewSession ==
  [status |-> "creating", control |-> Watch] \in Kept \ {NoRow}
  BY DEF Kept, NoRow, Statuses

LEMMA FiniteIds == \A S \in SUBSET Ids : IsFiniteSet(S)
<1>1. IsFiniteSet(1..MaxComputers)
  BY Constants, FS_Interval
<1> QED
  BY <1>1, FS_Subset DEF Ids

LEMMA InitSInv == Init => SInv
<1> SUFFICES ASSUME Init PROVE SInv
  OBVIOUS
<1>1. /\ \A r \in Slots : mop[r] = NoMop /\ req[r] = NoReq
      /\ failures = 0 /\ stopping = {} /\ asked \in Mixes
      /\ provisioning = None /\ taken = 0 /\ deleted = {}
  BY DEF Init, SandboxInit
<1>2. PICK b \in {"none", "running", "exited"} :
         /\ box = [i \in Ids |-> IF i = 1 THEN b ELSE "none"]
         /\ row = [i \in Ids |-> IF i = 1 /\ b # "none" THEN [status |-> "running", control |-> Watch]
                                 ELSE NoRow]
         /\ nextId = IF b = "none" THEN 1 ELSE 2
  BY DEF Init
<1>3. /\ [status |-> "running", control |-> Watch] \in Kept \ {NoRow}
      /\ NoRow \in Kept
  BY DEF Kept, NoRow, Statuses
<1>4. Limits
  BY <1>1, <1>2, Constants DEF Limits, NoMop
<1>5. Rows = IF b = "none" THEN {} ELSE {1}
  <2>1. 1 \in Ids
    BY Constants DEF Ids
  <2> QED
    BY <1>2, <1>3, <2>1 DEF Rows
<1>6. SessionsAreSound
  <2>1. row \in [Ids -> Kept]
    BY <1>2, <1>3
  <2>2. Known \subseteq 1..(nextId - 1)
    BY <1>1, <1>2, <1>5 DEF Known
  <2>3. Sound(NoReq, NoMop, Known)
    BY <1>3, Constants DEF Sound, Asks, Creating, Removing, NoReq, NoMop, NoId, Acts
  <2> QED
    BY <1>1, <2>1, <2>2, <2>3 DEF SessionsAreSound
<1>7. OneProvides
  BY <1>1, Constants DEF OneProvides, NoReq
<1>8. FewComputers
  <2>1. Creators = {} /\ \A r \in Slots : ~FoundNone(req[r])
    BY <1>1 DEF Creators, Made, FoundNone, NoReq
  <2>2. Live = {} \/ Live = {1}
    BY <1>1, <1>5 DEF Live
  <2>3. Cardinality(Live) <= 1 /\ Cardinality(Creators) = 0
    BY <2>1, <2>2, FS_EmptySet, FS_Singleton
  <2> QED
    BY <2>1, <2>3 DEF FewComputers
<1>9. Settled
  BY <1>1 DEF Settled, Over, NoMop
<1>10. Backed
  BY <1>2, <1>5 DEF Backed
<1> QED
  BY <1>4, <1>6, <1>7, <1>8, <1>9, <1>10 DEF SInv

-----------------------------------------------------------------------------
(* What is left to show of a step, part by part.                           *)

\* One request goes on as q.
LEMMA SoundHolds ==
  ASSUME Typed, SInv, NEW r \in Slots, NEW q, Turns(r, q),
         \A s \in Slots \ {r} : mop'[s] = mop[s],
         row' \in [Ids -> Kept], Known \subseteq Known', Known' \subseteq 1..(nextId' - 1),
         Sound(q, mop'[r], Known'),
         q.creates <=> (provisioning' = r),
         provisioning' = provisioning \/ (provisioning = None /\ provisioning' = r),
         failures' = 0 => failures = 0,
         failures' = 0 /\ q.pc # "calls" => mop'[r].pc \in Over
  PROVE  SessionsAreSound' /\ OneProvides' /\ Settled'
<1>1. req'[r] = q /\ \A s \in Slots \ {r} : req'[s] = req[s]
  BY DEF Turns, Typed, ServiceTyped
<1>2. SessionsAreSound'
  <2>1. ASSUME NEW s \in Slots \ {r} PROVE Sound(req[s], mop[s], Known')
    BY DEF SInv, SessionsAreSound, Sound
  <2>2. \A s \in Slots : Sound(req'[s], mop'[s], Known')
    BY <1>1, <2>1
  <2> QED
    BY <2>2 DEF SessionsAreSound
<1>3. OneProvides'
  <2>1. provisioning' \in Slots \cup {None}
    BY DEF SInv, OneProvides
  <2>2. ASSUME NEW s \in Slots \ {r} PROVE req'[s].creates <=> (provisioning' = s)
    <3>1. req[s].creates <=> (provisioning = s)
      BY DEF SInv, OneProvides
    <3>2. (provisioning = s) <=> (provisioning' = s)
      BY Constants
    <3> QED
      BY <1>1, <3>1, <3>2
  <2>3. req'[r].creates <=> (provisioning' = r)
    BY <1>1
  <2>4. \A s \in Slots : req'[s].creates <=> (provisioning' = s)
    BY <2>2, <2>3
  <2> QED
    BY <2>1, <2>4 DEF OneProvides
<1>4. Settled'
  BY <1>1 DEF SInv, Settled
<1> QED
  BY <1>2, <1>3, <1>4

\* No computer is made, and whoever is found to have made one stays so.
LEMMA FewHolds ==
  ASSUME SInv, Live' \subseteq Live,
         \A s \in Slots : Made(req[s]) => Made(req'[s]),
         \A s \in Slots : FoundNone(req'[s]) => FoundNone(req[s]) \/ Live' = {}
  PROVE  FewComputers'
<1>1. IsFiniteSet(Live) /\ IsFiniteSet(Creators')
  <2>1. Live \in SUBSET Ids /\ Creators' \in SUBSET Slots
    BY DEF Live, Rows, Creators
  <2> QED
    BY <2>1, FiniteIds, Constants, FS_Subset
<1>2. Creators \subseteq Creators'
  BY DEF Creators
<1>3. /\ Cardinality(Live') <= Cardinality(Live) /\ Cardinality(Creators) <= Cardinality(Creators')
      /\ IsFiniteSet(Live') /\ IsFiniteSet(Creators)
  BY <1>1, <1>2, FS_Subset
<1>4. /\ Cardinality(Live) \in Nat /\ Cardinality(Live') \in Nat
      /\ Cardinality(Creators) \in Nat /\ Cardinality(Creators') \in Nat
  BY <1>1, <1>3, FS_CardinalityType
<1>5. Live' = {} => Cardinality(Live') = 0
  BY FS_EmptySet
<1> QED
  BY <1>3, <1>4, <1>5 DEF SInv, FewComputers

\* A container that a row or a request stood for still has one.
LEMMA BackedHolds ==
  ASSUME SInv, NEW r \in Slots,
         failures' = 0 => failures = 0,
         \A s \in Slots : req[s].kind = "remove" => req'[s].kind = "remove",
         \A s \in Slots \ {r} : /\ mop'[s] = mop[s]
                                /\ req'[s] = req[s] \/ req[s].pc \notin {"calls", "undoBox"},
         \A i \in Ids : box'[i] # "none" => box'[i] = box[i],
         ASSUME Spared', Spared, NEW i \in Ids, box'[i] # "none",
                i \in Rows \/ Backs(req[r], mop[r], i, box[i])
         PROVE  i \in Rows' \/ Backs(req'[r], mop'[r], i, box'[i])
  PROVE  Backed'
<1> SUFFICES ASSUME Spared', NEW i \in Ids, box'[i] # "none"
             PROVE  i \in Rows' \/ \E s \in Slots : Backs(req'[s], mop'[s], i, box'[i])
  BY DEF Backed
<1>1. Spared
  BY DEF Spared
<1>2. CASE i \in Rows \/ Backs(req[r], mop[r], i, box[i])
  BY <1>1, <1>2
<1>3. CASE \E s \in Slots \ {r} : Backs(req[s], mop[s], i, box[i])
  <2>1. PICK s \in Slots \ {r} : Backs(req[s], mop[s], i, box[i])
    BY <1>3
  <2>2. req'[s] = req[s] /\ mop'[s] = mop[s]
    BY <2>1 DEF Backs
  <2> QED
    BY <2>1, <2>2
<1> QED
  BY <1>1, <1>2, <1>3 DEF SInv, Backed

\* A request that does not wait for the manager goes on, and writes a row it knows, if any.
LEMMA TurnHolds ==
  ASSUME Typed, SInv, NEW r \in Slots, NEW q, Turns(r, q),
         \A s \in Slots \ {r} : mop'[s] = mop[s],
         mop'[r] = mop[r] \/ (q.pc = "calls" /\ mop'[r].tries = 0 /\ mop'[r].pc \in {"queued", "find"}),
         UNCHANGED <<asked, box, stopping, failures, nextId>>, taken' <= MaxLeases,
         row' \in [Ids -> Kept], Rows \subseteq Rows', Known' = Known, Live' \subseteq Live,
         Sound(q, mop'[r], Known),
         q.creates <=> (provisioning' = r),
         provisioning' = provisioning \/ (provisioning = None /\ provisioning' = r),
         req[r].pc \notin {"calls", "undoBox"},
         Made(req[r]) => Made(q),
         FoundNone(q) => FoundNone(req[r]) \/ Live' = {},
         req[r].kind = "remove" => q.kind = "remove"
  PROVE  SInv'
<1>1. req'[r] = q /\ \A s \in Slots \ {r} : req'[s] = req[s]
  BY DEF Turns, Typed, ServiceTyped
<1>2. Limits'
  BY DEF SInv, Limits
<1>3. failures' = 0 /\ q.pc # "calls" => mop'[r].pc \in Over
  BY DEF SInv, Settled
<1>4. SessionsAreSound' /\ OneProvides' /\ Settled'
  <2>1. Known' \subseteq 1..(nextId' - 1)
    BY DEF SInv, SessionsAreSound
  <2> QED
    BY <1>3, <2>1, SoundHolds
<1>5. FewComputers'
  BY <1>1, FewHolds
<1>6. Backed'
  <2>1. \A i \in Ids : ~Backs(req[r], mop[r], i, box[i])
    BY DEF Backs
  <2>2. \A s \in Slots : req[s].kind = "remove" => req'[s].kind = "remove"
    BY <1>1
  <2> QED
    BY <1>1, <2>1, <2>2, BackedHolds
<1> QED
  BY <1>2, <1>4, <1>5, <1>6 DEF SInv

\* A row is written that the request knows.
LEMMA RowWritten ==
  ASSUME SInv, NEW i \in Known, NEW s \in Kept \ {NoRow}, row' = [row EXCEPT ![i] = s],
         UNCHANGED deleted
  PROVE  /\ row' \in [Ids -> Kept] /\ Rows \subseteq Rows' /\ Known' = Known /\ Live' \subseteq Live
         /\ i \in Ids => i \in Rows'
<1>1. row \in [Ids -> Kept]
  BY DEF SInv, SessionsAreSound
<1>2. row' \in [Ids -> Kept]
  BY <1>1
<1>3. \A j \in Ids : row'[j] = IF j = i THEN s ELSE row[j]
  BY <1>1
<1>4. Rows \subseteq Rows' /\ Rows' \subseteq Rows \cup {i} /\ (i \in Ids => i \in Rows')
  BY <1>3 DEF Rows
<1> QED
  BY <1>2, <1>4 DEF Known, Live

-----------------------------------------------------------------------------
(* Reading computers.                                                      *)

LEMMA BeginHolds ==
  ASSUME CInv, SInv, NEW r \in Slots, NEW kind \in Kinds, Begin(r, kind)
  PROVE  SInv'
<1> USE DEF CInv, Typed, ServiceTyped
<1> PICK old \in Reqs : old = req[r]
  OBVIOUS
<1>1. PICK i \in Ids \cup {NoId} :
         /\ (i # NoId) = (kind \in Execs \cup {"takeover", "return", "remove"})
         /\ req' = [req EXCEPT ![r].kind = kind, ![r].pc = "rows", ![r].id = i, ![r].under = grip]
  BY DEF Begin
<1> DEFINE q == [old EXCEPT !.kind = kind, !.pc = "rows", !.id = i, !.under = grip]
<1>2. q \in Reqs /\ req' = [req EXCEPT ![r] = q]
  BY <1>1 DEF Reqs, Pcs
<1>3. /\ q.kind = kind /\ q.pc = "rows" /\ q.id = i
      /\ q.left = old.left /\ q.mine = old.mine /\ q.creates = old.creates
  BY DEF Reqs
<1> HIDE DEF q
<1>4. /\ old.pc = "idle"
      /\ UNCHANGED <<asked, box, mop, stopping, failures, row, nextId, taken, deleted, provisioning>>
  BY DEF Begin, Pc, sandboxVars
<1>5. Sound(old, mop[r], Known)
  BY DEF SInv, SessionsAreSound
<1>6. old.kind = "none" /\ ~old.creates /\ old.left = {}
  BY <1>4, <1>5 DEF Sound, Asks
<1>7. (i = NoId) <=> (kind \in Acts \cup {"list", "create", "none"})
  BY <1>1 DEF Kinds, Acts, Execs
<1>8. Sound(q, mop'[r], Known)
  <2>1. kind # "none"
    BY DEF Kinds, Acts, Execs
  <2> QED
    BY <1>3, <1>4, <1>5, <1>6, <1>7, <2>1 DEF Sound, Asks, Creating, Removing
<1>9. q.creates <=> (provisioning' = r)
  BY <1>3, <1>4 DEF SInv, OneProvides
<1>10. ~Made(old) /\ ~FoundNone(q)
  BY <1>3, <1>6 DEF Made, FoundNone
<1>11. /\ Rows \subseteq Rows' /\ Known' = Known /\ Live' \subseteq Live
       /\ row' \in [Ids -> Kept] /\ taken' <= MaxLeases
  BY <1>4 DEF Rows, Known, Live, SInv, SessionsAreSound, Limits
<1>12. Turns(r, q)
  BY <1>2 DEF Turns
<1> QED
  BY <1>4, <1>6, <1>8, <1>9, <1>10, <1>11, <1>12, TurnHolds

LEMMA ReadRowsHolds ==
  ASSUME CInv, SInv, NEW r \in Slots, ReadRows(r)
  PROVE  SInv'
<1> USE DEF CInv, Typed, ServiceTyped
<1> PICK old \in Reqs : old = req[r]
  OBVIOUS
<1> DEFINE ids == IF old.id = NoId THEN Rows ELSE Rows \cap {old.id}
           m == [i \in Ids |-> IF i \in ids THEN row[i] ELSE NoRow]
           pc == IF old.id # NoId /\ ids = {} THEN "failed" ELSE "boxes"
<1>1. NoRow \in Kept /\ NoRow \in Sessions /\ row \in [Ids -> Kept]
  BY DEF Kept, NoRow, Sessions, Watch, SInv, SessionsAreSound
<1>2. m \in [Ids -> Sessions] /\ ids \in SUBSET Rows /\ m \in [Ids -> Kept]
  BY <1>1
<1>3. req' = [req EXCEPT ![r].pc = pc, ![r].left = ids, ![r].mine = m]
  BY DEF ReadRows
<1>4. /\ old.pc = "rows"
      /\ UNCHANGED <<asked, box, mop, stopping, failures, row, nextId, taken, deleted, provisioning>>
  BY DEF ReadRows, Pc, sandboxVars
<1>5. \A j \in Ids : m[j] # NoRow <=> j \in ids
  BY DEF Rows
<1>6. /\ pc \in {"failed", "boxes"} /\ (pc = "failed" => old.id # NoId /\ ids = {})
      /\ pc = "boxes" /\ old.id # NoId => old.id \in ids
      /\ old.id = NoId => ids = Rows
  OBVIOUS
<1> HIDE DEF ids, m, pc
<1> DEFINE q == [old EXCEPT !.pc = pc, !.left = ids, !.mine = m]
<1>7. q \in Reqs /\ req' = [req EXCEPT ![r] = q]
  BY <1>2, <1>3, <1>6 DEF Reqs, Pcs, Rows
<1>8. /\ q.kind = old.kind /\ q.pc = pc /\ q.id = old.id /\ q.creates = old.creates
      /\ q.left = ids /\ q.mine = m
  BY DEF Reqs
<1> HIDE DEF q
<1>9. Sound(old, mop[r], Known)
  BY DEF SInv, SessionsAreSound
<1>10. old.creates => old.id = NoId
  BY <1>9 DEF Sound, Asks, Acts
<1>11. Sound(q, mop'[r], Known)
  <2>1. \A j \in Ids : q.mine[j] # NoRow => j \in Known
    BY <1>2, <1>5, <1>8 DEF Known
  <2>2. ids \subseteq Ids
    BY <1>2 DEF Rows
  <2>3. Asks(q, mop'[r])
    BY <1>4, <1>5, <1>6, <1>8, <1>9, <1>10, <2>2 DEF Sound, Asks, Creating, Removing, Reqs
  <2> QED
    BY <1>2, <1>8, <2>1, <2>3 DEF Sound
<1>12. q.creates <=> (provisioning' = r)
  BY <1>4, <1>8 DEF SInv, OneProvides
<1>13. ~Made(old)
  BY <1>4 DEF Made
<1>14. FoundNone(q) => Live' = {}
  BY <1>4, <1>5, <1>6, <1>8, <1>10 DEF FoundNone, Live, Rows
<1>15. /\ Rows \subseteq Rows' /\ Known' = Known /\ Live' \subseteq Live
       /\ row' \in [Ids -> Kept] /\ taken' <= MaxLeases
  BY <1>1, <1>4 DEF Rows, Known, Live, SInv, Limits
<1>16. Turns(r, q)
  BY <1>7 DEF Turns
<1> QED
  BY <1>4, <1>8, <1>11, <1>12, <1>13, <1>14, <1>15, <1>16, TurnHolds

\* What is left of a step in which the request only refreshes: it is asked the same.
LEMMA RefreshHolds ==
  ASSUME Typed, SInv, NEW r \in Slots, NEW q, Turns(r, q),
         req[r].pc \in {"boxes", "write", "lapse"},
         q.kind = req[r].kind, q.id = req[r].id, q.creates = req[r].creates,
         q.pc \in {"write", "lapse", "decide", "done"}, q.left \subseteq req[r].left,
         q.pc \in {"decide", "done"} => q.left = {},
         q.pc = "done" => q.kind = "list",
         q.mine \in [Ids -> Kept],
         \A j \in Ids : q.mine[j] # NoRow <=> req[r].mine[j] # NoRow,
         row' \in [Ids -> Kept], Rows \subseteq Rows', Known' = Known, Live' \subseteq Live,
         UNCHANGED <<asked, box, mop, stopping, failures, nextId, taken, deleted, provisioning>>
  PROVE  SInv'
<1> PICK old \in Reqs : old = req[r]
  BY DEF Typed, ServiceTyped
<1>1. Sound(old, mop[r], Known)
  BY DEF SInv, SessionsAreSound
<1>2. old.id \in Ids \cup {NoId} /\ old.left \subseteq Ids
  BY DEF Reqs
<1>3. old.kind = "list" => ~old.creates
  BY <1>1 DEF Sound, Asks
<1>4. Asks(q, mop'[r])
  <2>1. /\ (q.pc = "idle") <=> (q.kind = "none")
        /\ (q.id = NoId) <=> (q.kind \in Acts \cup {"list", "create", "none"})
        /\ q.pc \notin {"boxes", "write", "lapse"} => q.left = {}
        /\ \A i \in q.left : q.mine[i] # NoRow
    BY <1>1, <1>2 DEF Sound, Asks
  <2>2. q.id # NoId => q.mine[q.id] # NoRow
    BY <1>1, <1>2 DEF Sound, Asks
  <2>3. q.creates => q.kind = "agentActs" /\ q.pc # "done"
    BY <1>1, <1>3 DEF Sound, Asks
  <2> QED
    BY <2>1, <2>2, <2>3 DEF Asks, Creating, Removing
<1>5. Sound(q, mop'[r], Known)
  BY <1>1, <1>4 DEF Sound
<1>6. q.creates <=> (provisioning' = r)
  BY DEF SInv, OneProvides
<1>7. ~Made(old)
  BY DEF Made
<1>8. FoundNone(q) => FoundNone(old)
  BY DEF FoundNone
<1>9. taken' <= MaxLeases
  BY DEF SInv, Limits
<1> QED
  BY <1>5, <1>6, <1>7, <1>8, <1>9, TurnHolds

LEMMA ReadBoxesHolds ==
  ASSUME CInv, SInv, NEW r \in Slots, ReadBoxes(r)
  PROVE  SInv'
<1> USE DEF CInv, Typed, ServiceTyped
<1> PICK old \in Reqs : old = req[r]
  OBVIOUS
<1>1. PICK pc \in {"write", "decide", "done"} :
         /\ req' = [req EXCEPT ![r].seen = box, ![r].pc = pc]
         /\ pc \in {"decide", "done"} => old.left = {}
         /\ pc = "done" => old.kind = "list"
  BY DEF ReadBoxes, After
<1>2. /\ old.pc = "boxes"
      /\ UNCHANGED <<asked, box, mop, stopping, failures, row, nextId, taken, deleted, provisioning>>
  BY DEF ReadBoxes, Pc, sandboxVars
<1> DEFINE q == [old EXCEPT !.seen = box, !.pc = pc]
<1>3. q \in Reqs /\ req' = [req EXCEPT ![r] = q]
  BY <1>1 DEF Reqs, Pcs, SandboxTyped
<1>4. /\ q.kind = old.kind /\ q.pc = pc /\ q.id = old.id /\ q.creates = old.creates
      /\ q.left = old.left /\ q.mine = old.mine
  BY DEF Reqs
<1> HIDE DEF q
<1>5. Turns(r, q)
  BY <1>3 DEF Turns
<1>6. /\ row' \in [Ids -> Kept] /\ Rows \subseteq Rows' /\ Known' = Known /\ Live' \subseteq Live
      /\ old.mine \in [Ids -> Kept]
  BY <1>2 DEF SInv, SessionsAreSound, Sound, Rows, Known, Live
<1> QED
  BY <1>1, <1>2, <1>4, <1>5, <1>6, RefreshHolds

LEMMA WriteBackHolds ==
  ASSUME CInv, SInv, NEW r \in Slots, WriteBack(r)
  PROVE  SInv'
<1> USE DEF CInv, Typed, ServiceTyped
<1> PICK old \in Reqs : old = req[r]
  OBVIOUS
<1>1. PICK i \in req[r].left :
         LET s == WithSandbox(req[r].mine[i], req[r].seen[i]) IN
         /\ row' = [row EXCEPT ![i] = s]
         /\ req' = [req EXCEPT ![r].mine[i] = s,
                       ![r].left = IF Expired(s.control) THEN {i} \cup @ ELSE @ \ {i},
                       ![r].pc = IF Expired(s.control) THEN "lapse"
                                 ELSE IF req[r].left = {i} THEN After(r) ELSE "write",
                       ![r].seen[i] = "none"]
  BY DEF WriteBack
<1>2. i \in Ids /\ old.left \in SUBSET Ids /\ old.mine[i] \in Sessions
  BY DEF Reqs
<1> DEFINE s == WithSandbox(old.mine[i], old.seen[i])
           left == IF Expired(s.control) THEN {i} \cup old.left ELSE old.left \ {i}
           pc == IF Expired(s.control) THEN "lapse"
                 ELSE IF old.left = {i} THEN After(r) ELSE "write"
           q == [old EXCEPT !.mine = [old.mine EXCEPT ![i] = s], !.left = left, !.pc = pc,
                            !.seen = [old.seen EXCEPT ![i] = "none"]]
<1>3. Sound(old, mop[r], Known)
  BY DEF SInv, SessionsAreSound
<1>4. s \in Sessions /\ s \in Kept \ {NoRow} /\ i \in Known /\ old.mine[i] # NoRow
  BY <1>2, <1>3, StatusSet, KeptSet DEF Sound, Asks
<1>5. /\ left \subseteq old.left /\ pc \in {"lapse", "write", "decide", "done"}
      /\ pc \in {"decide", "done"} => left = {}
      /\ pc = "done" => old.kind = "list"
  BY DEF After
<1>6. req' = [req EXCEPT ![r] = q] /\ row' = [row EXCEPT ![i] = s]
  BY <1>1 DEF Reqs
<1> HIDE DEF s, left, pc
<1>7. q \in Reqs
  BY <1>2, <1>4, <1>5 DEF Reqs, Pcs, Boxes
<1>8. /\ q.kind = old.kind /\ q.pc = pc /\ q.id = old.id /\ q.creates = old.creates
      /\ q.left = left /\ q.mine = [old.mine EXCEPT ![i] = s]
  BY DEF Reqs
<1> HIDE DEF q
<1>9. /\ old.pc = "write"
      /\ UNCHANGED <<asked, box, mop, stopping, failures, nextId, taken, deleted, provisioning>>
  BY DEF WriteBack, Pc, sandboxVars
<1>10. Turns(r, q)
  BY <1>6, <1>7 DEF Turns
<1>11. /\ q.mine \in [Ids -> Kept]
       /\ \A j \in Ids : q.mine[j] # NoRow <=> old.mine[j] # NoRow
  BY <1>2, <1>3, <1>4, <1>8 DEF Sound
<1>12. row' \in [Ids -> Kept] /\ Rows \subseteq Rows' /\ Known' = Known /\ Live' \subseteq Live
  BY <1>4, <1>6, <1>9, RowWritten
<1> QED
  BY <1>5, <1>8, <1>9, <1>10, <1>11, <1>12, RefreshHolds

LEMMA NormalizeLeaseHolds ==
  ASSUME CInv, SInv, NEW r \in Slots, NormalizeLease(r)
  PROVE  SInv'
<1> USE DEF CInv, Typed, ServiceTyped
<1> PICK old \in Reqs : old = req[r]
  OBVIOUS
<1>1. PICK i \in old.left :
         /\ row' = [row EXCEPT ![i] = [old.mine[i] EXCEPT !.control = Watch]]
         /\ req' = [req EXCEPT ![r].mine[i].control = Watch, ![r].left = @ \ {i},
                              ![r].pc = IF old.left = {i} THEN After(r) ELSE "write"]
  BY DEF NormalizeLease
<1>2. i \in Ids /\ old.mine[i] \in Sessions
  BY DEF Reqs
<1>3. Sound(old, mop[r], Known)
  BY DEF SInv, SessionsAreSound
<1>4. PICK s \in Sessions : s = [old.mine[i] EXCEPT !.control = Watch]
  BY <1>2, ControlSet DEF Watch
<1>5. s \in Kept \ {NoRow} /\ i \in Known /\ old.mine[i] # NoRow
  BY <1>2, <1>3, <1>4, KeptSet DEF Sound, Asks
<1>6. PICK pc \in {"write", "decide", "done"} : pc = IF old.left = {i} THEN After(r) ELSE "write"
  BY DEF After
<1>7. /\ pc \in {"decide", "done"} => old.left \ {i} = {}
      /\ pc = "done" => old.kind = "list"
  BY <1>6 DEF After
<1> DEFINE q == [old EXCEPT !.mine = [old.mine EXCEPT ![i] = s], !.left = old.left \ {i}, !.pc = pc]
<1>8. req' = [req EXCEPT ![r] = q] /\ row' = [row EXCEPT ![i] = s]
  BY <1>1, <1>4, <1>6 DEF Reqs
<1>9. q \in Reqs
  BY <1>2 DEF Reqs, Pcs
<1>10. /\ q.kind = old.kind /\ q.pc = pc /\ q.id = old.id /\ q.creates = old.creates
       /\ q.left = old.left \ {i} /\ q.mine = [old.mine EXCEPT ![i] = s]
  BY DEF Reqs
<1> HIDE DEF q
<1>11. /\ old.pc = "lapse"
       /\ UNCHANGED <<asked, box, mop, stopping, failures, nextId, taken, deleted, provisioning>>
  BY DEF NormalizeLease, Pc, sandboxVars
<1>12. Turns(r, q)
  BY <1>8, <1>9 DEF Turns
<1>13. /\ q.mine \in [Ids -> Kept]
       /\ \A j \in Ids : q.mine[j] # NoRow <=> old.mine[j] # NoRow
  BY <1>2, <1>3, <1>5, <1>10 DEF Sound
<1>14. row' \in [Ids -> Kept] /\ Rows \subseteq Rows' /\ Known' = Known /\ Live' \subseteq Live
  BY <1>5, <1>8, <1>11, RowWritten
<1> QED
  BY <1>7, <1>10, <1>11, <1>12, <1>13, <1>14, RefreshHolds

-----------------------------------------------------------------------------
(* What a request makes of the rows with the session it has read.          *)

\* Only where the request stands changes.
Moves(r, q, pc) ==
    /\ Turns(r, q) /\ q.pc = pc
    /\ q.kind = req[r].kind /\ q.id = req[r].id /\ q.left = req[r].left
    /\ q.mine = req[r].mine /\ q.creates = req[r].creates

LEMMA AnswersMove ==
  ASSUME Typed, NEW r \in Slots, NEW pc \in Pcs, Answers(r, pc)
  PROVE  \E q : Moves(r, q, pc)
<1> USE DEF Typed, ServiceTyped
<1> PICK old \in Reqs : old = req[r]
  OBVIOUS
<1> DEFINE q == [old EXCEPT !.pc = pc]
<1>1. q \in Reqs /\ req' = [req EXCEPT ![r] = q]
  BY PcSet DEF Answers
<1>2. /\ q.pc = pc /\ q.kind = old.kind /\ q.id = old.id /\ q.creates = old.creates
      /\ q.left = old.left /\ q.mine = old.mine
  BY DEF Reqs
<1> HIDE DEF q
<1> QED
  BY <1>1, <1>2 DEF Moves, Turns

\* A request that decides, and is answered or calls the manager.
LEMMA DecidesHolds ==
  ASSUME Typed, SInv, NEW r \in Slots, NEW pc \in {"calls", "joins", "done", "failed"}, NEW q,
         Moves(r, q, pc), req[r].pc = "decide",
         \A s \in Slots \ {r} : mop'[s] = mop[s],
         mop'[r] = mop[r] \/ (pc = "calls" /\ mop'[r].tries = 0 /\ mop'[r].pc \in {"queued", "find"}),
         Creating(q, mop'[r]) => /\ mop'[r].id \in Ids /\ q.mine[mop'[r].id] # NoRow
                                 /\ q.kind \in Acts \cup {"create"},
         Removing(q, mop'[r]) => q.kind = "remove",
         pc = "joins" => q.kind = "agentActs",
         q.creates => pc = "calls" /\ mop'[r].op = "create",
         UNCHANGED <<asked, box, stopping, failures, nextId, provisioning>>, taken' <= MaxLeases,
         row' \in [Ids -> Kept], Rows \subseteq Rows', Known' = Known, Live' \subseteq Live
  PROVE  SInv'
<1> PICK old \in Reqs : old = req[r]
  BY DEF Typed, ServiceTyped
<1>1. Sound(old, mop[r], Known)
  BY DEF SInv, SessionsAreSound
<1>2. Asks(q, mop'[r])
  <2>1. /\ (q.pc = "idle") <=> (q.kind = "none")
        /\ (q.id = NoId) <=> (q.kind \in Acts \cup {"list", "create", "none"})
        /\ q.left = {}
        /\ q.id # NoId => q.mine[q.id] # NoRow
    BY <1>1 DEF Sound, Asks, Moves
  <2>2. q.creates => q.kind = "agentActs"
    BY <1>1 DEF Sound, Asks, Moves
  <2>3. Creating(q, mop'[r]) => mop'[r].op = "create"
    BY DEF Creating, Moves
  <2> QED
    BY <2>1, <2>2, <2>3 DEF Asks, Moves
<1>3. Sound(q, mop'[r], Known)
  BY <1>1, <1>2 DEF Sound, Moves
<1>4. q.creates <=> (provisioning' = r)
  BY DEF SInv, OneProvides, Moves
<1>5. Turns(r, q) /\ q.pc = pc /\ q.kind = old.kind
  BY DEF Moves
<1>6. ~Made(old) /\ ~FoundNone(q)
  BY <1>5 DEF Made, FoundNone
<1> QED
  BY <1>3, <1>4, <1>5, <1>6, TurnHolds

\* A request that decides has a row of the computer it is about, or has found none.
LEMMA TargetKnown ==
  ASSUME Typed, SInv, NEW r \in Slots, req[r].pc = "decide"
  PROVE  /\ Target(r) # NoId =>
              /\ Target(r) \in Ids /\ Target(r) \in Known
              /\ Session(r) \in Kept \ {NoRow}
              /\ Session(r) = req[r].mine[Target(r)]
         /\ Target(r) = NoId => req[r].id = NoId /\ \A i \in Ids : req[r].mine[i] = NoRow
<1> USE DEF Typed, ServiceTyped
<1>1. Sound(req[r], mop[r], Known) /\ req[r].id \in Ids \cup {NoId}
  BY DEF SInv, SessionsAreSound, Reqs
<1>2. req[r].id # NoId => req[r].mine[req[r].id] # NoRow
  BY <1>1 DEF Sound, Asks
<1>3. Read(r) # {} => Newest(r) \in Read(r)
  <2>1. Read(r) \in SUBSET Ids
    BY DEF Read
  <2>2. Read(r) # {} => \E i \in Read(r) : \A j \in Read(r) : j <= i
    BY <2>1, GreatestExists
  <2> QED
    BY <2>2 DEF Newest
<1>4. NoId \notin Ids
  BY DEF NoId, Ids
<1>5. CASE req[r].id # NoId
  BY <1>1, <1>2, <1>5 DEF Target, Session, Sound
<1>6. CASE req[r].id = NoId /\ Read(r) # {}
  <2>1. Target(r) \in Ids /\ req[r].mine[Target(r)] # NoRow
    BY <1>3, <1>6 DEF Target, Read
  <2> QED
    BY <1>1, <1>4, <2>1 DEF Session, Sound
<1>7. CASE req[r].id = NoId /\ Read(r) = {}
  BY <1>7 DEF Target, Newest, Read
<1> QED
  BY <1>5, <1>6, <1>7

\* Nothing of the rows changes.
LEMMA RowsStay ==
  ASSUME SInv, UNCHANGED <<row, deleted>>
  PROVE  row' \in [Ids -> Kept] /\ Rows \subseteq Rows' /\ Known' = Known /\ Live' \subseteq Live
  BY DEF SInv, SessionsAreSound, Rows, Known, Live

\* A request that is asked for one computer has it, and creates none.
LEMMA NamesOne ==
  ASSUME Typed, SInv, NEW r \in Slots, req[r].kind \in {"takeover", "return", "remove"}
  PROVE  req[r].id # NoId /\ Target(r) # NoId /\ ~req[r].creates
<1>1. Asks(req[r], mop[r])
  BY DEF SInv, SessionsAreSound, Sound
<1> QED
  BY <1>1 DEF Asks, Acts, Target

LEMMA ControlHolds ==
  ASSUME CInv, SInv, NEW r \in Slots, TakeOver(r) \/ ReturnControl(r)
  PROVE  SInv'
<1> USE DEF CInv
<1>1. /\ req[r].pc = "decide" /\ req[r].kind \in {"takeover", "return"}
      /\ UNCHANGED <<asked, box, mop, stopping, failures, nextId, provisioning, deleted>>
  BY DEF TakeOver, ReturnControl, Pc, sandboxVars
<1>2. PICK pc \in {"done", "failed"} : Answers(r, pc)
  BY DEF TakeOver, ReturnControl
<1>3. PICK q : Moves(r, q, pc)
  BY <1>2, AnswersMove DEF Pcs
<1>4. ~req[r].creates /\ Target(r) # NoId
  BY <1>1, NamesOne
<1>5. Target(r) \in Known /\ Session(r) \in Kept \ {NoRow}
  BY <1>1, <1>4, TargetKnown
<1>6. taken \in Nat /\ taken <= MaxLeases /\ MaxLeases \in Nat
  BY Constants DEF Typed, ServiceTyped, SInv, Limits
<1>7. /\ taken' <= MaxLeases
      /\ \/ UNCHANGED row
         \/ \E k \in Leases \cup {Watch} :
               row' = [row EXCEPT ![Target(r)] = [Session(r) EXCEPT !.control = k]]
  <2>1. CASE ReturnControl(r)
    BY <1>6, <2>1 DEF ReturnControl
  <2>2. CASE TakeOver(r) /\ UNCHANGED <<row, taken>>
    BY <1>6, <2>2
  <2>3. CASE TakeOver(r) /\ ~UNCHANGED <<row, taken>>
    <3>1. /\ row' = [row EXCEPT ![Target(r)] = [Session(r) EXCEPT !.control = taken + 1]]
          /\ taken < MaxLeases /\ taken' = taken + 1
      BY <2>3 DEF TakeOver
    <3>2. taken + 1 \in Leases /\ taken' <= MaxLeases
      BY <1>6, <3>1 DEF Leases
    <3> QED
      BY <3>1, <3>2
  <2> QED
    BY <2>1, <2>2, <2>3
<1>8. row' \in [Ids -> Kept] /\ Rows \subseteq Rows' /\ Known' = Known /\ Live' \subseteq Live
  <2>1. CASE UNCHANGED row
    BY <1>1, <2>1, RowsStay
  <2>2. CASE \E k \in Leases \cup {Watch} :
                row' = [row EXCEPT ![Target(r)] = [Session(r) EXCEPT !.control = k]]
    <3>1. PICK k \in Leases \cup {Watch} :
                row' = [row EXCEPT ![Target(r)] = [Session(r) EXCEPT !.control = k]]
      BY <2>2
    <3>2. [Session(r) EXCEPT !.control = k] \in Kept \ {NoRow}
      BY <1>5, KeptSet
    <3> QED
      BY <1>1, <1>5, <3>1, <3>2, RowWritten
  <2> QED
    BY <1>7, <2>1, <2>2
<1>9. /\ ~q.creates /\ ~Creating(q, mop'[r]) /\ ~Removing(q, mop'[r])
      /\ pc \notin {"calls", "joins"}
  BY <1>3, <1>4 DEF Moves, Creating, Removing
<1> QED
  BY <1>1, <1>3, <1>7, <1>8, <1>9, DecidesHolds

\* What calls the manager: an action, a wake or a removal.
LEMMA CallsHold ==
  ASSUME CInv, SInv, NEW r \in Slots, Act(r) \/ Wake(r) \/ RemoveComputer(r)
  PROVE  SInv'
<1> USE DEF CInv
<1>1. /\ req[r].pc = "decide"
      /\ UNCHANGED <<asked, box, stopping, failures, row, nextId, taken, provisioning, deleted>>
  BY DEF Act, Wake, RemoveComputer, Pc
<1>2. Asks(req[r], mop[r])
  BY DEF SInv, SessionsAreSound, Sound
<1>3. Target(r) # NoId
  BY <1>1, NamesOne DEF Act, Wake, RemoveComputer
<1>4. /\ Target(r) \in Ids /\ Session(r) = req[r].mine[Target(r)] /\ Session(r) # NoRow
  BY <1>1, <1>3, TargetKnown
<1>5. row' \in [Ids -> Kept] /\ Rows \subseteq Rows' /\ Known' = Known /\ Live' \subseteq Live
  BY <1>1, RowsStay
<1>6. taken' <= MaxLeases
  BY <1>1 DEF SInv, Limits
<1>7. CASE Act(r) /\ Answers(r, "failed")
  <2>1. PICK q : Moves(r, q, "failed")
    BY <1>7, AnswersMove DEF Pcs
  <2>2. UNCHANGED mop
    <3>1. req'[r].pc = "failed"
      BY <2>1 DEF Moves, Turns, Typed, ServiceTyped
    <3>2. Answers(r, "calls") => req'[r].pc = "calls"
      BY AnswersMove DEF Moves, Turns, Typed, ServiceTyped, Pcs
    <3> QED
      BY <1>7, <3>1, <3>2 DEF Act
  <2>3. ~q.creates /\ ~Creating(q, mop'[r]) /\ ~Removing(q, mop'[r])
    BY <1>7, <2>1 DEF Act, Moves, Creating, Removing
  <2> QED
    BY <1>1, <1>5, <1>6, <2>1, <2>2, <2>3, DecidesHolds
<1>8. ASSUME NEW op \in {"create", "browser", "exec", "remove"}, Call(r, op, Target(r)),
             Answers(r, "calls"),
             op = "create" => req[r].kind \in Acts \cup {"create"},
             op = "remove" => req[r].kind = "remove",
             req[r].creates => op = "create"
      PROVE  SInv'
  <2>1. PICK q : Moves(r, q, "calls")
    BY <1>8, AnswersMove DEF Pcs
  <2> DEFINE m == [op |-> op, id |-> Target(r), tries |-> 0,
                   pc |-> IF op = "browser" THEN "queued" ELSE "find"]
  <2>2. mop' = [mop EXCEPT ![r] = m]
    BY <1>8 DEF Call
  <2>3. /\ m.op = op /\ m.id = Target(r) /\ m.tries = 0
        /\ m.pc \in {"queued", "find"}
    OBVIOUS
  <2> HIDE DEF m
  <2>4. mop'[r] = m /\ \A s \in Slots \ {r} : mop'[s] = mop[s]
    BY <2>2 DEF Typed, SandboxTyped
  <2>5. Creating(q, m) => m.id \in Ids /\ q.mine[m.id] # NoRow /\ q.kind \in Acts \cup {"create"}
    BY <1>4, <1>8, <2>1, <2>3 DEF Moves, Creating
  <2>6. /\ Removing(q, m) => q.kind = "remove"
        /\ q.creates => m.op = "create"
    BY <1>8, <2>1, <2>3 DEF Moves, Removing
  <2> QED
    BY <1>1, <1>5, <1>6, <2>1, <2>3, <2>4, <2>5, <2>6, DecidesHolds
<1>9. CASE Act(r) /\ ~Answers(r, "failed")
  <2>1. /\ Call(r, IF req[r].kind \in Acts THEN "browser" ELSE "exec", Target(r))
        /\ Answers(r, "calls") /\ ~req[r].creates
    BY <1>9 DEF Act
  <2> QED
    BY <1>8, <2>1
<1>10. CASE Wake(r)
  BY <1>8, <1>10 DEF Wake
<1>11. CASE RemoveComputer(r)
  <2>1. ~req[r].creates /\ req[r].kind = "remove"
    BY <1>11, NamesOne DEF RemoveComputer
  <2> QED
    BY <1>8, <1>11, <2>1 DEF RemoveComputer
<1> QED
  BY <1>7, <1>9, <1>10, <1>11

LEMMA ProvisionHolds ==
  ASSUME CInv, SInv, NEW r \in Slots, Provision(r)
  PROVE  SInv'
<1> USE DEF CInv
<1> PICK old \in Reqs : old = req[r]
  BY DEF Typed, ServiceTyped
<1>1. /\ old.pc = "decide"
      /\ UNCHANGED <<asked, box, mop, stopping, failures, row, nextId, taken, deleted>>
  BY DEF Provision, Pc, sandboxVars
<1>2. Sound(old, mop[r], Known)
  BY DEF SInv, SessionsAreSound
<1>3. row' \in [Ids -> Kept] /\ Rows \subseteq Rows' /\ Known' = Known /\ Live' \subseteq Live
  BY <1>1, RowsStay
<1>4. taken' <= MaxLeases
  BY <1>1 DEF SInv, Limits
<1>5. ASSUME NEW pc \in {"joins", "failed"}, Answers(r, pc), UNCHANGED provisioning,
             ~old.creates, pc = "joins" => old.kind = "agentActs"
      PROVE  SInv'
  <2>1. PICK q : Moves(r, q, pc)
    BY <1>5, AnswersMove DEF Pcs
  <2>2. ~q.creates /\ ~Creating(q, mop'[r]) /\ ~Removing(q, mop'[r]) /\ q.kind = old.kind
    BY <1>5, <2>1 DEF Moves, Creating, Removing
  <2> QED
    BY <1>1, <1>3, <1>4, <1>5, <2>1, <2>2, DecidesHolds
<1>6. CASE old.kind = "userActs" /\ Answers(r, "failed") /\ UNCHANGED provisioning
  <2>1. ~old.creates
    BY <1>2, <1>6 DEF Sound, Asks
  <2> QED
    BY <1>5, <1>6, <2>1
<1>7. CASE /\ old.kind = "agentActs" /\ ~old.creates
           /\ Answers(r, "joins") /\ UNCHANGED provisioning
  BY <1>5, <1>7
<1>8. CASE /\ old.kind = "agentActs" /\ ~old.creates /\ provisioning = None
           /\ req' = [req EXCEPT ![r].pc = "rows", ![r].creates = TRUE]
           /\ provisioning' = r
  <2> DEFINE q == [old EXCEPT !.pc = "rows", !.creates = TRUE]
  <2>1. Turns(r, q)
    <3>1. q \in Reqs
      BY DEF Reqs, Pcs
    <3>2. req' = [req EXCEPT ![r] = q]
      BY <1>8
    <3> HIDE DEF q
    <3> QED
      BY <3>1, <3>2 DEF Turns
  <2>2. /\ q.pc = "rows" /\ q.kind = old.kind /\ q.id = old.id /\ q.creates
        /\ q.left = old.left /\ q.mine = old.mine
    BY DEF Reqs
  <2> HIDE DEF q
  <2>3. Sound(q, mop'[r], Known)
    BY <1>1, <1>2, <1>8, <2>2 DEF Sound, Asks, Creating, Removing
  <2>4. ~Made(old) /\ ~FoundNone(q)
    BY <1>1, <2>2 DEF Made, FoundNone
  <2> QED
    BY <1>1, <1>3, <1>4, <1>8, <2>1, <2>2, <2>3, <2>4, TurnHolds
<1> QED
  BY <1>6, <1>7, <1>8 DEF Provision, Shares

\* One more computer is made: by the user, or by the agents, who found none.
LEMMA CreateHolds ==
  ASSUME CInv, SInv, NEW r \in Slots, Create(r)
  PROVE  SInv'
<1> USE DEF CInv, Typed, ServiceTyped
<1> PICK old \in Reqs : old = req[r]
  OBVIOUS
<1> DEFINE i == nextId   s == [status |-> "creating", control |-> Watch]
           m == [op |-> "create", id |-> nextId, tries |-> 0, pc |-> "find"]
           q == [old EXCEPT !.pc = "calls", !.mine = [old.mine EXCEPT ![i] = s]]
<1>1. /\ old.pc = "decide" /\ (old.kind = "create" \/ old.creates) /\ Target(r) = NoId
      /\ nextId' = nextId + 1 /\ nextId <= MaxComputers
      /\ UNCHANGED <<asked, box, stopping, failures, provisioning, taken, deleted>>
  BY DEF Create, Pc, Creates
<1>2. i \in Ids /\ i \in Nat
  BY <1>1, Constants DEF Ids
<1>3. row' = [row EXCEPT ![i] = s] /\ mop' = [mop EXCEPT ![r] = m]
  BY DEF Create, Call
<1>4. req' = [req EXCEPT ![r] = q]
  BY DEF Create, Reqs
<1>5. s \in Kept \ {NoRow} /\ s \in Sessions
  BY NewSession DEF Sessions, Statuses, Watch
<1> HIDE DEF s
<1>6. q \in Reqs
  BY <1>2, <1>5 DEF Reqs, Pcs
<1>7. /\ q.kind = old.kind /\ q.pc = "calls" /\ q.id = old.id /\ q.creates = old.creates
      /\ q.left = old.left /\ q.mine = [old.mine EXCEPT ![i] = s]
  BY DEF Reqs
<1>8. m.op = "create" /\ m.id = i /\ m.tries = 0 /\ m.pc = "find"
  OBVIOUS
<1> HIDE DEF q, m
<1>9. /\ req'[r] = q /\ \A t \in Slots \ {r} : req'[t] = req[t]
      /\ mop'[r] = m /\ \A t \in Slots \ {r} : mop'[t] = mop[t]
  BY <1>3, <1>4 DEF SandboxTyped
<1>10. Sound(old, mop[r], Known) /\ Known \subseteq 1..(nextId - 1) /\ row \in [Ids -> Kept]
  BY DEF SInv, SessionsAreSound
<1>11. old.id = NoId /\ \A j \in Ids : old.mine[j] = NoRow
  BY <1>1, TargetKnown
<1>12. row' \in [Ids -> Kept] /\ Rows' = Rows \cup {i}
  BY <1>2, <1>3, <1>5, <1>10 DEF Rows
<1>13. Known' = Known \cup {i} /\ Live' \subseteq Live \cup {i} /\ Known' \subseteq 1..(nextId' - 1)
  <2>1. Known' = Known \cup {i} /\ Live' \subseteq Live \cup {i}
    BY <1>1, <1>12 DEF Known, Live
  <2> QED
    BY <1>1, <1>2, <1>10, <2>1
<1>14. Sound(q, mop'[r], Known')
  <2>1. q.mine \in [Ids -> Kept] /\ \A j \in Ids : q.mine[j] # NoRow => j = i
    BY <1>2, <1>5, <1>7, <1>10, <1>11 DEF Sound
  <2>2. q.mine[i] # NoRow
    BY <1>2, <1>5, <1>7, <1>10 DEF Sound
  <2>3. old.left = {} /\ old.kind \in Acts \cup {"create"} /\ (old.creates => old.kind = "agentActs")
    BY <1>1, <1>10 DEF Sound, Asks, Acts
  <2>4. Asks(q, m)
    <3>1. /\ q.left = {} /\ q.id = NoId /\ q.kind \in Acts \cup {"create"}
          /\ q.kind # "none"
      BY <1>7, <1>11, <2>3 DEF Acts
    <3>2. q.creates => q.kind = "agentActs"
      BY <1>7, <2>3
    <3> QED
      BY <1>2, <1>7, <1>8, <2>2, <3>1, <3>2 DEF Asks, Creating, Removing
  <2> QED
    BY <1>9, <1>13, <2>1, <2>4 DEF Sound
<1>15. SessionsAreSound' /\ OneProvides' /\ Settled'
  <2>1. q.creates <=> (provisioning' = r)
    BY <1>1, <1>7 DEF SInv, OneProvides
  <2>2. Turns(r, q)
    BY <1>4, <1>6 DEF Turns
  <2> QED
    BY <1>1, <1>7, <1>9, <1>12, <1>13, <1>14, <2>1, <2>2, SoundHolds
<1>16. FewComputers'
  <2>1. IsFiniteSet(Live) /\ IsFiniteSet(Creators) /\ IsFiniteSet(Live \cup {i})
    <3>1. Live \in SUBSET Ids /\ Creators \in SUBSET Slots /\ Live \cup {i} \in SUBSET Ids
      BY <1>2 DEF Live, Rows, Creators
    <3> QED
      BY <3>1, FiniteIds, Constants, FS_Subset
  <2>2. /\ Cardinality(Live') <= Cardinality(Live \cup {i})
        /\ Cardinality(Live \cup {i}) <= Cardinality(Live) + 1
        /\ IsFiniteSet(Live')
    <3>1. /\ Cardinality(Live \cup {i}) = IF i \in Live THEN Cardinality(Live)
                                        ELSE Cardinality(Live) + 1
          /\ Cardinality(Live) \in Nat
      BY <2>1, FS_AddElement, FS_CardinalityType
    <3>2. Cardinality(Live') <= Cardinality(Live \cup {i}) /\ IsFiniteSet(Live')
      BY <1>13, <2>1, FS_Subset
    <3> QED
      BY <3>1, <3>2
  <2>3. /\ Cardinality(Live) \in Nat /\ Cardinality(Live') \in Nat
        /\ Cardinality(Creators) \in Nat /\ Cardinality(Live \cup {i}) \in Nat
    BY <2>1, <2>2, FS_CardinalityType
  <2>4. ~FoundNone(q) /\ ~Made(old)
    BY <1>1, <1>7 DEF FoundNone, Made
  <2>5. CASE old.kind = "create"
    <3>1. Creators' = Creators \cup {r} /\ r \notin Creators
      BY <1>7, <1>9, <2>4, <2>5 DEF Creators, Made
    <3>2. Cardinality(Creators') = Cardinality(Creators) + 1
      BY <2>1, <3>1, FS_AddElement
    <3>3. Cardinality(Live) <= 1 + Cardinality(Creators)
      BY DEF SInv, FewComputers
    <3>4. ASSUME NEW t \in Slots, FoundNone(req'[t])
          PROVE  Cardinality(Live') <= Cardinality(Creators')
      <4>1. FoundNone(req[t])
        BY <1>9, <2>4, <3>4
      <4>2. Cardinality(Live) <= Cardinality(Creators)
        BY <4>1 DEF SInv, FewComputers
      <4> QED
        BY <2>2, <2>3, <3>2, <4>2
    <3>5. Cardinality(Live') <= 1 + Cardinality(Creators')
      BY <2>2, <2>3, <3>2, <3>3
    <3> QED
      BY <3>4, <3>5 DEF FewComputers
  <2>6. CASE old.creates
    <3>1. old.kind = "agentActs"
      BY <1>10, <2>6 DEF Sound, Asks
    <3>2. Creators' = Creators
      BY <1>7, <1>9, <3>1 DEF Creators, Made
    <3>3. FoundNone(old)
      BY <1>1, <1>11, <2>6 DEF FoundNone
    <3>4. Cardinality(Live) <= Cardinality(Creators)
      BY <3>3 DEF SInv, FewComputers
    <3>5. ASSUME NEW t \in Slots PROVE ~FoundNone(req'[t])
      <4>1. t # r => ~req[t].creates
        BY <2>6 DEF SInv, OneProvides
      <4> QED
        BY <1>9, <2>4, <4>1 DEF FoundNone
    <3>6. Cardinality(Live') <= 1 + Cardinality(Creators')
      BY <2>2, <2>3, <3>2, <3>4
    <3> QED
      BY <3>5, <3>6 DEF FewComputers
  <2> QED
    BY <1>1, <2>5, <2>6
<1>17. Backed'
  <2>1. \A j \in Ids : ~Backs(req[r], mop[r], j, box[j])
    BY <1>1 DEF Backs
  <2>2. \A t \in Slots : req[t].kind = "remove" => req'[t].kind = "remove"
    BY <1>7, <1>9
  <2> QED
    BY <1>1, <1>9, <1>12, <2>1, <2>2, BackedHolds
<1>18. Limits'
  <2>1. nextId' <= MaxComputers + 1
    BY <1>1, <1>2, Constants
  <2> QED
    BY <1>1, <1>8, <1>9, <2>1 DEF SInv, Limits
<1> QED
  BY <1>15, <1>16, <1>17, <1>18 DEF SInv

-----------------------------------------------------------------------------
(* A creation ends, for the request and those that share it.               *)

LEMMA ResolvesHolds ==
  ASSUME Typed, SInv, NEW r \in Slots, NEW p \in [Slots -> Reqs], NEW pc,
         NEW mine \in [Ids -> Kept],
         \A t \in Slots : t # r => p[t] = req[t],
         p[r].kind = req[r].kind, p[r].id = req[r].id, p[r].left = req[r].left,
         Resolves(r, p, pc, mine),
         req[r].pc \in {"decide", "calls", "undoBox"}, req[r].kind \in Acts \cup {"create"},
         \A i \in Ids : mine[i] # NoRow => i \in Known,
         UNCHANGED <<asked, mop, stopping, nextId, taken>>,
         failures' <= MaxFailures, failures' = 0 => failures = 0,
         row' \in [Ids -> Kept], Rows \subseteq Rows', Known' = Known, Live' \subseteq Live,
         failures' = 0 => mop[r].pc \in Over,
         \A i \in Ids : box'[i] # "none" => box'[i] = box[i],
         \A i \in Ids : failures' = 0 /\ box'[i] # "none" /\ Backs(req[r], mop[r], i, box[i]) =>
                           i \in Rows'
  PROVE  SInv'
<1> USE DEF Typed, ServiceTyped
<1> DEFINE x(t) == IF pc = "failed" THEN "failed"
                   ELSE IF req[t].kind = "create" THEN "done" ELSE "decide"
           Joined(t) == provisioning = r /\ req[t].pc = "joins"
<1>1. ASSUME NEW t \in Slots
      PROVE  \/ req'[t] = req[t] /\ t # r
             \/ /\ t = r \/ Joined(t)
                /\ req'[t].pc = x(t) /\ req'[t].mine = mine /\ req'[t].creates = FALSE
                /\ req'[t].kind = req[t].kind /\ req'[t].id = req[t].id
                /\ req'[t].left = req[t].left
  <2>1. PICK old \in Reqs : old = p[t]
    OBVIOUS
  <2> DEFINE y == IF pc = "failed" THEN "failed" ELSE IF old.kind = "create" THEN "done" ELSE "decide"
             n == [old EXCEPT !.pc = y, !.mine = mine, !.creates = FALSE]
  <2>2. req'[t] = IF t = r \/ (provisioning = r /\ old.pc = "joins") THEN n ELSE old
    BY <2>1 DEF Resolves, Resolved
  <2>3. /\ n.pc = y /\ n.mine = mine /\ n.kind = old.kind /\ n.id = old.id
        /\ n.left = old.left /\ n.creates = FALSE
    BY DEF Reqs
  <2>4. y = x(t) /\ old.kind = req[t].kind /\ old.id = req[t].id /\ old.left = req[t].left
    BY <2>1
  <2>5. t # r => old = req[t]
    BY <2>1
  <2> HIDE DEF n, y, x
  <2> QED
    BY <2>2, <2>3, <2>4, <2>5
<1>2. ASSUME NEW t \in Slots
      PROVE  /\ Sound(req[t], mop[t], Known)
             /\ t = r \/ req[t].pc = "joins" =>
                   /\ req[t].left = {} /\ req[t].id = NoId
                   /\ req[t].kind \in Acts \cup {"create"}
                   /\ t # r => req[t].kind = "agentActs" /\ ~req[t].creates
  <2>1. Sound(req[t], mop[t], Known)
    BY DEF SInv, SessionsAreSound
  <2>2. req[t].pc = "joins" => req[t].kind = "agentActs" /\ ~req[t].creates
    BY <2>1 DEF Sound, Asks
  <2>3. t = r \/ req[t].pc = "joins" => req[t].left = {} /\ req[t].kind \in Acts \cup {"create"}
    BY <2>1, <2>2 DEF Sound, Asks, Acts
  <2>4. t = r \/ req[t].pc = "joins" => req[t].id = NoId
    BY <2>1, <2>3 DEF Sound, Asks
  <2> QED
    BY <2>1, <2>2, <2>3, <2>4
<1>3. ASSUME NEW t \in Slots, t = r \/ Joined(t),
             req'[t].pc = x(t), req'[t].mine = mine, req'[t].creates = FALSE,
             req'[t].kind = req[t].kind, req'[t].id = req[t].id, req'[t].left = req[t].left
      PROVE  Sound(req'[t], mop'[t], Known')
  <2>1. req'[t].pc \in {"failed", "done", "decide"}
    BY <1>3
  <2>2. /\ req'[t].left = {} /\ req'[t].id = NoId
        /\ req'[t].kind \in Acts \cup {"create"} /\ req'[t].kind # "none"
    BY <1>2, <1>3 DEF Acts
  <2>3. Asks(req'[t], mop'[t])
    BY <1>3, <2>1, <2>2 DEF Asks, Creating, Removing
  <2> QED
    BY <1>3, <2>3 DEF Sound
<1>4. SessionsAreSound'
  <2>1. \A t \in Slots : Sound(req'[t], mop'[t], Known')
    BY <1>1, <1>2, <1>3
  <2>2. Known' \subseteq 1..(nextId' - 1)
    BY DEF SInv, SessionsAreSound
  <2> QED
    BY <2>1, <2>2 DEF SessionsAreSound
<1>5. OneProvides'
  <2>1. provisioning' = IF provisioning = r THEN None ELSE provisioning
    BY DEF Resolves
  <2>2. provisioning' \in Slots \cup {None}
    BY <2>1 DEF SInv, OneProvides
  <2>3. ASSUME NEW t \in Slots PROVE req'[t].creates <=> (provisioning' = t)
    <3>1. req[t].creates <=> (provisioning = t)
      BY DEF SInv, OneProvides
    <3>2. t # r => ((provisioning = t) <=> (provisioning' = t))
      BY <2>1, Constants
    <3>3. provisioning' # r
      BY <2>1, Constants
    <3>4. CASE req'[t] = req[t] /\ t # r
      BY <3>1, <3>2, <3>4
    <3>5. CASE t = r /\ req'[t].creates = FALSE
      BY <3>3, <3>5
    <3>6. CASE t # r /\ Joined(t) /\ req'[t].creates = FALSE
      <4>1. ~req[t].creates
        BY <1>2, <3>6
      <4> QED
        BY <3>1, <3>2, <3>6, <4>1
    <3> QED
      BY <1>1, <3>4, <3>5, <3>6
  <2> QED
    BY <2>2, <2>3 DEF OneProvides
<1>6. FewComputers'
  <2>1. ASSUME NEW t \in Slots, Made(req[t]) PROVE Made(req'[t])
    <3>1. req[t].kind = "create" /\ req[t].pc # "joins"
      BY <2>1 DEF Made
    <3> QED
      BY <1>1, <2>1, <3>1 DEF Made
  <2>2. ASSUME NEW t \in Slots, FoundNone(req'[t]) PROVE FoundNone(req[t])
    BY <1>1, <2>2 DEF FoundNone
  <2> QED
    BY <2>1, <2>2, FewHolds
<1>7. Settled'
  <2> SUFFICES ASSUME failures' = 0, NEW t \in Slots, req'[t].pc # "calls"
               PROVE  mop'[t].pc \in Over
    BY DEF Settled
  <2>1. t = r => mop[t].pc \in Over
    OBVIOUS
  <2>2. t # r => req[t].pc # "calls"
    BY <1>1
  <2> QED
    BY <2>1, <2>2 DEF SInv, Settled
<1>8. Backed'
  <2>1. \A t \in Slots : req[t].kind = "remove" => req'[t].kind = "remove"
    BY <1>1
  <2>2. \A t \in Slots \ {r} : req'[t] = req[t] \/ req[t].pc \notin {"calls", "undoBox"}
    BY <1>1
  <2>3. ASSUME Spared', NEW i \in Ids, box'[i] # "none",
               i \in Rows \/ Backs(req[r], mop[r], i, box[i])
        PROVE  i \in Rows'
    BY <2>3 DEF Spared
  <2> QED
    BY <2>1, <2>2, <2>3, BackedHolds
<1>9. Limits'
  BY DEF SInv, Limits
<1> QED
  BY <1>4, <1>5, <1>6, <1>7, <1>8, <1>9 DEF SInv

\* What a request that makes a computer or wakes one knows of it.
LEMMA CreatingKnows ==
  ASSUME SInv, NEW r \in Slots, Creating(req[r], mop[r])
  PROVE  /\ req[r].mine \in [Ids -> Kept]
         /\ mop[r].id \in Ids /\ mop[r].id \in Known
         /\ req[r].mine[mop[r].id] \in Kept \ {NoRow}
         /\ req[r].kind \in Acts \cup {"create"}
         /\ mop[r].op = "create"
         /\ \A i \in Ids : req[r].mine[i] # NoRow => i \in Known
<1>1. Sound(req[r], mop[r], Known)
  BY DEF SInv, SessionsAreSound
<1> QED
  BY <1>1 DEF Sound, Asks

LEMMA FoundHolds ==
  ASSUME CInv, SInv, NEW r \in Slots, Found(r)
  PROVE  SInv'
<1> USE DEF CInv, Typed, ServiceTyped
<1>1. /\ req[r].pc = "decide" /\ Resolves(r, req, "ok", req[r].mine)
      /\ req[r].kind = "create" \/ req[r].creates
      /\ UNCHANGED <<asked, box, mop, stopping, failures, row, nextId, taken, deleted>>
  BY DEF Found, Pc, Creates, sandboxVars
<1>2. Sound(req[r], mop[r], Known)
  BY DEF SInv, SessionsAreSound
<1>3. req[r].kind \in Acts \cup {"create"}
  BY <1>1, <1>2 DEF Sound, Asks, Acts
<1>4. req[r].mine \in [Ids -> Kept] /\ \A i \in Ids : req[r].mine[i] # NoRow => i \in Known
  BY <1>2 DEF Sound
<1>5. row' \in [Ids -> Kept] /\ Rows \subseteq Rows' /\ Known' = Known /\ Live' \subseteq Live
  BY <1>1, RowsStay
<1>6. failures' <= MaxFailures /\ (failures' = 0 => mop[r].pc \in Over)
  BY <1>1 DEF SInv, Limits, Settled
<1>7. \A i \in Ids : ~Backs(req[r], mop[r], i, box[i])
  BY <1>1 DEF Backs
<1> QED
  BY <1>1, <1>3, <1>4, <1>5, <1>6, <1>7, ResolvesHolds

LEMMA CreateReturnsHolds ==
  ASSUME CInv, SInv, NEW r \in Slots, CreateReturns(r)
  PROVE  SInv'
<1> USE DEF CInv, Typed, ServiceTyped
<1> PICK old \in Reqs : old = req[r]
  OBVIOUS
<1> DEFINE i == mop[r].id   s == [old.mine[i] EXCEPT !.status = "running"]
           mine == [old.mine EXCEPT ![i] = s]
           p == [req EXCEPT ![r] = [old EXCEPT !.mine = mine]]
<1>1. /\ old.pc = "calls" /\ mop[r].op = "create" /\ mop[r].pc = "ok"
      /\ UNCHANGED <<asked, box, mop, stopping, failures, nextId, taken, deleted>>
  BY DEF CreateReturns, Pc, Succeeded
<1>2. row' = [row EXCEPT ![i] = s]
  BY DEF CreateReturns
<1>3. Resolves(r, p, "ok", p[r].mine)
  <2>1. [req EXCEPT ![r].mine[i] = s] = p
    BY DEF Reqs
  <2> HIDE DEF Resolves, p
  <2> QED
    BY <2>1 DEF CreateReturns
<1>4. /\ old.mine \in [Ids -> Kept] /\ i \in Ids /\ i \in Known /\ old.mine[i] \in Kept \ {NoRow}
      /\ old.kind \in Acts \cup {"create"}
      /\ \A j \in Ids : old.mine[j] # NoRow => j \in Known
  BY <1>1, CreatingKnows DEF Creating
<1>5. s \in Kept \ {NoRow} /\ s \in Sessions
  BY <1>4, KeptSet, StatusSet DEF Reqs
<1> HIDE DEF s
<1>6. /\ mine \in [Ids -> Kept] /\ mine \in [Ids -> Sessions]
      /\ \A j \in Ids : mine[j] # NoRow => j \in Known
  BY <1>4, <1>5 DEF Reqs
<1> HIDE DEF mine
<1>7. /\ p \in [Slots -> Reqs] /\ \A t \in Slots : t # r => p[t] = req[t]
      /\ p[r].kind = old.kind /\ p[r].id = old.id /\ p[r].left = old.left
      /\ p[r].mine = mine
  <2>1. [old EXCEPT !.mine = mine] \in Reqs
    BY <1>6, MineSet
  <2> QED
    BY <2>1 DEF Reqs
<1> HIDE DEF p
<1>8. /\ row' \in [Ids -> Kept] /\ Rows \subseteq Rows' /\ Known' = Known /\ Live' \subseteq Live
      /\ i \in Rows'
  BY <1>1, <1>2, <1>4, <1>5, RowWritten
<1>9. failures' <= MaxFailures /\ mop[r].pc \in Over
  BY <1>1 DEF SInv, Limits, Over
<1>10. \A j \in Ids : Backs(req[r], mop[r], j, box[j]) => j \in Rows'
  BY <1>8 DEF Backs
<1>11. Resolves(r, p, "ok", mine)
  BY <1>3, <1>7
<1> QED
  BY <1>1, <1>4, <1>6, <1>7, <1>8, <1>9, <1>10, <1>11, ResolvesHolds

-----------------------------------------------------------------------------
(* The other answers of the manager.                                       *)

\* A request that has its answer, or deletes its row.
LEMMA AnsweredHolds ==
  ASSUME Typed, SInv, NEW r \in Slots, NEW pc \in {"undo", "undoBox", "erase", "done", "failed"},
         NEW q, Moves(r, q, pc), req[r].pc \in {"calls", "undo", "erase"},
         UNCHANGED <<asked, box, mop, stopping, nextId, taken, provisioning>>,
         failures' <= MaxFailures, failures' = 0 => failures = 0,
         row' \in [Ids -> Kept], Known' = Known, Live' \subseteq Live,
         pc \in {"undo", "undoBox"} => Creating(req[r], mop[r]),
         pc = "erase" => req[r].kind = "remove",
         req[r].creates => pc \in {"undo", "undoBox"},
         failures' = 0 => mop[r].pc \in Over,
         \A i \in Ids : /\ failures' = 0 /\ req[r].kind # "remove"
                        /\ i \in Rows \/ Backs(req[r], mop[r], i, box[i])
                        => i \in Rows' \/ Backs(q, mop[r], i, box[i])
  PROVE  SInv'
<1> PICK old \in Reqs : old = req[r]
  BY DEF Typed, ServiceTyped
<1>1. Sound(old, mop[r], Known)
  BY DEF SInv, SessionsAreSound
<1>2. /\ req'[r] = q /\ \A s \in Slots \ {r} : req'[s] = req[s]
      /\ Turns(r, q)
  BY DEF Moves, Turns, Typed, ServiceTyped
<1>3. Asks(q, mop'[r])
  <2>1. /\ q.kind # "none" /\ q.left = {}
        /\ (q.id = NoId) <=> (q.kind \in Acts \cup {"list", "create", "none"})
    BY <1>1 DEF Sound, Asks, Moves
  <2> q.id # NoId /\ pc = "erase" => q.mine[q.id] # NoRow
    <3>1. old.pc = "undo" => old.kind \in Acts \cup {"create"}
      BY <1>1 DEF Sound, Asks, Creating
    <3>2. old.pc = "undo" => old.kind # "remove"
      BY <3>1 DEF Acts
    <3> QED
      BY <1>1, <3>2 DEF Sound, Asks, Moves
  <2>2. q.creates => q.kind = "agentActs" /\ pc \in {"undo", "undoBox"}
    BY <1>1 DEF Sound, Asks, Moves
  <2>3. Creating(q, mop[r]) => /\ mop[r].op = "create" /\ mop[r].id \in Ids
                               /\ q.mine[mop[r].id] # NoRow /\ q.kind \in Acts \cup {"create"}
    BY <1>1 DEF Sound, Asks, Moves, Creating
  <2>4. Removing(q, mop[r]) => q.kind = "remove"
    BY DEF Moves, Removing
  <2> QED
    BY <2>1, <2>2, <2>3, <2>4 DEF Asks, Moves
<1>4. Sound(q, mop'[r], Known)
  BY <1>1, <1>3 DEF Sound, Moves
<1>5. SessionsAreSound' /\ OneProvides' /\ Settled'
  <2>1. Known' \subseteq 1..(nextId' - 1)
    BY DEF SInv, SessionsAreSound
  <2>2. q.creates <=> (provisioning' = r)
    BY DEF SInv, OneProvides, Moves
  <2> QED
    BY <1>2, <1>4, <2>1, <2>2, SoundHolds
<1>6. FewComputers'
  <2>1. Made(old) => Made(q)
    BY DEF Made, Moves
  <2>2. ~FoundNone(q)
    BY DEF FoundNone, Moves
  <2> QED
    BY <1>2, <2>1, <2>2, FewHolds
<1>7. Backed'
  <2>1. \A s \in Slots : req[s].kind = "remove" => req'[s].kind = "remove"
    BY <1>2 DEF Moves
  <2>2. ASSUME Spared', NEW i \in Ids, i \in Rows \/ Backs(req[r], mop[r], i, box[i])
        PROVE  i \in Rows' \/ Backs(req'[r], mop'[r], i, box'[i])
    <3>1. failures' = 0 /\ req[r].kind # "remove"
      BY <2>1, <2>2 DEF Spared
    <3> QED
      BY <1>2, <2>2, <3>1
  <2> QED
    BY <1>2, <2>1, <2>2, BackedHolds
<1>8. Limits'
  BY DEF SInv, Limits
<1> QED
  BY <1>5, <1>6, <1>7, <1>8 DEF SInv

\* An answer, or a request that waits no longer, at the cost of a failure.
LEMMA FailureCounts ==
  ASSUME Typed, SInv, NEW r \in Slots, Succeeded(r) \/ Failed(r)
  PROVE  /\ failures' <= MaxFailures /\ (failures' = 0 => failures = 0)
         /\ failures' = 0 => mop[r].pc \in Over /\ (Failed(r) => mop[r].pc = "failed")
<1>1. failures \in Nat /\ failures <= MaxFailures /\ MaxFailures \in Nat
  BY Constants DEF Typed, SandboxTyped, SInv, Limits
<1>2. ASSUME GivesUp(r) PROVE failures' = failures + 1 /\ failures' <= MaxFailures
  BY <1>1, <1>2 DEF GivesUp
<1> QED
  BY <1>1, <1>2 DEF Succeeded, Failed, Over

LEMMA CallReturnsHolds ==
  ASSUME CInv, SInv, NEW r \in Slots, ActReturns(r) \/ RemoveReturns(r)
  PROVE  SInv'
<1> USE DEF CInv
<1>1. /\ req[r].pc = "calls" /\ mop[r].op \in {"browser", "exec", "remove"}
      /\ UNCHANGED <<asked, box, mop, stopping, row, nextId, taken, provisioning, deleted>>
  BY DEF ActReturns, RemoveReturns, Pc
<1>2. PICK pc \in {"done", "failed", "erase"} :
         /\ Answers(r, pc) /\ (Succeeded(r) \/ Failed(r))
         /\ pc = "erase" => mop[r].op = "remove"
  BY DEF ActReturns, RemoveReturns
<1>3. PICK q : Moves(r, q, pc)
  BY <1>2, AnswersMove DEF Pcs
<1>4. /\ ~req[r].creates
      /\ mop[r].op = "remove" => req[r].kind = "remove"
  <2>1. Asks(req[r], mop[r])
    BY DEF SInv, SessionsAreSound, Sound
  <2>2. mop[r].op = "remove" => req[r].kind = "remove"
    BY <1>1, <2>1 DEF Asks, Removing
  <2>3. ~req[r].creates
    BY <1>1, <2>1 DEF Asks
  <2> QED
    BY <2>2, <2>3
<1>5. row' \in [Ids -> Kept] /\ Known' = Known /\ Live' \subseteq Live /\ Rows' = Rows
  BY <1>1, RowsStay DEF Rows
<1>6. \A i \in Ids : ~Backs(req[r], mop[r], i, box[i])
  BY <1>1 DEF Backs
<1>7. /\ failures' <= MaxFailures /\ (failures' = 0 => failures = 0)
      /\ failures' = 0 => mop[r].pc \in Over
  BY <1>2, FailureCounts
<1> QED
  BY <1>1, <1>2, <1>3, <1>4, <1>5, <1>6, <1>7, AnsweredHolds

LEMMA CreateFailsHolds ==
  ASSUME CInv, SInv, NEW r \in Slots, CreateFails(r)
  PROVE  SInv'
<1> USE DEF CInv, Typed, ServiceTyped
<1>1. /\ req[r].pc = "calls" /\ mop[r].op = "create" /\ Failed(r)
      /\ UNCHANGED <<asked, box, mop, stopping, row, nextId, taken, deleted>>
  BY DEF CreateFails, Pc
<1>2. /\ failures' <= MaxFailures /\ (failures' = 0 => failures = 0)
      /\ failures' = 0 => mop[r].pc \in Over /\ mop[r].pc = "failed"
  BY <1>1, FailureCounts
<1>3. \A i \in Ids : failures' = 0 => ~Backs(req[r], mop[r], i, box[i])
  BY <1>1, <1>2 DEF Backs
<1>4. /\ row' \in [Ids -> Kept] /\ Rows \subseteq Rows' /\ Known' = Known /\ Live' \subseteq Live
  BY <1>1, RowsStay
<1>5. Creating(req[r], mop[r])
  BY <1>1 DEF Creating
<1>6. CASE Answers(r, "undo") /\ UNCHANGED provisioning
  <2>1. PICK q : Moves(r, q, "undo")
    BY <1>6, AnswersMove DEF Pcs
  <2> QED
    BY <1>1, <1>2, <1>3, <1>4, <1>5, <1>6, <2>1, AnsweredHolds
<1>7. CASE Resolves(r, req, "failed", req[r].mine)
  <2>1. /\ req[r].mine \in [Ids -> Kept] /\ req[r].kind \in Acts \cup {"create"}
        /\ \A i \in Ids : req[r].mine[i] # NoRow => i \in Known
    BY <1>5, CreatingKnows
  <2> QED
    BY <1>1, <1>2, <1>3, <1>4, <1>7, <2>1, ResolvesHolds
<1> QED
  BY <1>6, <1>7 DEF CreateFails

\* A row that is deleted is known as before.
LEMMA RowDeleted ==
  ASSUME SInv, NEW i \in Known, row' = [row EXCEPT ![i] = NoRow], deleted' = deleted \cup {i}
  PROVE  row' \in [Ids -> Kept] /\ Known' = Known /\ Live' \subseteq Live /\ Rows \ {i} \subseteq Rows'
<1>1. row \in [Ids -> Kept] /\ NoRow \in Kept
  BY DEF SInv, SessionsAreSound, Kept
<1>2. row' \in [Ids -> Kept] /\ \A j \in Ids : row'[j] = IF j = i THEN NoRow ELSE row[j]
  BY <1>1
<1>3. Rows' = Rows \ {i}
  BY <1>2 DEF Rows
<1> QED
  BY <1>2, <1>3 DEF Known, Live

LEMMA UndoHolds ==
  ASSUME CInv, SInv, NEW r \in Slots, Undo(r)
  PROVE  SInv'
<1> USE DEF CInv
<1> DEFINE i == mop[r].id
<1>1. /\ req[r].pc = "undo" /\ row' = [row EXCEPT ![i] = NoRow] /\ deleted' = deleted \cup {i}
      /\ Answers(r, "undoBox")
      /\ UNCHANGED <<asked, box, mop, stopping, failures, nextId, taken, provisioning>>
  BY DEF Undo, Pc, sandboxVars
<1>2. Creating(req[r], mop[r])
  BY <1>1 DEF Creating
<1>3. i \in Known /\ mop[r].op = "create"
  BY <1>2, CreatingKnows
<1>4. /\ row' \in [Ids -> Kept] /\ Known' = Known /\ Live' \subseteq Live
      /\ Rows \ {i} \subseteq Rows'
  BY <1>1, <1>3, RowDeleted
<1>5. PICK q : Moves(r, q, "undoBox")
  BY <1>1, AnswersMove DEF Pcs
<1>6. /\ failures' <= MaxFailures /\ (failures' = 0 => failures = 0)
      /\ failures' = 0 => mop[r].pc \in Over
  BY <1>1 DEF SInv, Limits, Settled
<1>7. Backs(q, mop[r], i, box[i])
  BY <1>3, <1>5 DEF Backs, Moves
<1>8. \A j \in Ids : j \in Rows \/ Backs(req[r], mop[r], j, box[j]) =>
                        j \in Rows' \/ Backs(q, mop[r], j, box[j])
  BY <1>1, <1>4, <1>7 DEF Backs
<1> QED
  BY <1>1, <1>2, <1>4, <1>5, <1>6, <1>8, AnsweredHolds

LEMMA EraseHolds ==
  ASSUME CInv, SInv, NEW r \in Slots, Erase(r)
  PROVE  SInv'
<1> USE DEF CInv
<1>1. /\ req[r].pc = "erase" /\ row' = [row EXCEPT ![Target(r)] = NoRow]
      /\ deleted' = deleted \cup {Target(r)} /\ Answers(r, "done")
      /\ UNCHANGED <<asked, box, mop, stopping, failures, nextId, taken, provisioning>>
  BY DEF Erase, Pc, sandboxVars
<1>2. Sound(req[r], mop[r], Known) /\ req[r].id \in Ids \cup {NoId}
  BY DEF SInv, SessionsAreSound, Typed, ServiceTyped, Reqs
<1>3. req[r].kind = "remove"
  BY <1>1, <1>2 DEF Sound, Asks, Removing
<1>4. req[r].id # NoId /\ ~req[r].creates
  BY <1>3, NamesOne
<1>5. Target(r) \in Known
  BY <1>1, <1>2, <1>4 DEF Sound, Asks, Target
<1>6. /\ row' \in [Ids -> Kept] /\ Known' = Known /\ Live' \subseteq Live
  BY <1>1, <1>5, RowDeleted
<1>7. PICK q : Moves(r, q, "done")
  BY <1>1, AnswersMove DEF Pcs
<1>8. /\ failures' <= MaxFailures /\ (failures' = 0 => failures = 0)
      /\ failures' = 0 => mop[r].pc \in Over
  BY <1>1 DEF SInv, Limits, Settled
<1> QED
  BY <1>1, <1>3, <1>4, <1>6, <1>7, <1>8, AnsweredHolds

LEMMA UndoBoxHolds ==
  ASSUME CInv, SInv, NEW r \in Slots, UndoBox(r)
  PROVE  SInv'
<1> USE DEF CInv, Typed, ServiceTyped
<1> DEFINE i == mop[r].id
<1>1. /\ req[r].pc = "undoBox" /\ Resolves(r, req, "failed", req[r].mine)
      /\ UNCHANGED <<asked, mop, stopping, row, nextId, taken, deleted>>
      /\ \/ box' = [box EXCEPT ![i] = "none"] /\ UNCHANGED failures
         \/ failures < MaxFailures /\ failures' = failures + 1 /\ UNCHANGED box
  BY DEF UndoBox, Pc
<1>2. Creating(req[r], mop[r])
  BY <1>1 DEF Creating
<1>3. /\ req[r].mine \in [Ids -> Kept] /\ req[r].kind \in Acts \cup {"create"}
      /\ \A j \in Ids : req[r].mine[j] # NoRow => j \in Known
  BY <1>2, CreatingKnows
<1>4. row' \in [Ids -> Kept] /\ Rows \subseteq Rows' /\ Known' = Known /\ Live' \subseteq Live
  BY <1>1, RowsStay
<1>5. failures \in Nat /\ failures <= MaxFailures /\ MaxFailures \in Nat /\ box \in [Ids -> Boxes]
  BY Constants DEF SandboxTyped, SInv, Limits
<1>6. /\ failures' <= MaxFailures /\ (failures' = 0 => failures = 0)
  BY <1>1, <1>5
<1>7. failures' = 0 => mop[r].pc \in Over
  BY <1>1, <1>6 DEF SInv, Settled
<1>8. \A j \in Ids : box'[j] # "none" => box'[j] = box[j]
  BY <1>1, <1>5
<1>9. \A j \in Ids : failures' = 0 /\ box'[j] # "none" => ~Backs(req[r], mop[r], j, box[j])
  BY <1>1, <1>5 DEF Backs
<1> QED
  BY <1>1, <1>3, <1>4, <1>6, <1>7, <1>8, <1>9, ResolvesHolds

-----------------------------------------------------------------------------
(* Time, the manager, and every step.                                      *)

LEMMA LapseHolds ==
  ASSUME CInv, SInv, NEW k \in Leases, Lapse(k)
  PROVE  SInv'
<1>1. UNCHANGED <<asked, sandboxVars, row, req, provisioning, nextId, taken, deleted>>
  BY DEF Lapse
<1>2. UNCHANGED <<box, mop, stopping, failures>>
  BY <1>1 DEF sandboxVars
<1>3. UNCHANGED <<Rows, Known, Live, Creators>>
  BY <1>1 DEF Rows, Known, Live, Creators
<1>4. Limits' /\ SessionsAreSound' /\ OneProvides'
  BY <1>1, <1>2, <1>3 DEF SInv, Limits, SessionsAreSound, OneProvides
<1>5. FewComputers' /\ Settled' /\ Backed'
  BY <1>1, <1>2, <1>3 DEF SInv, FewComputers, Settled, Backed, Spared
<1> QED
  BY <1>4, <1>5 DEF SInv

\* What is left to show of a step that leaves the service as it is.
LEMMA ManagerHolds ==
  ASSUME Typed, SInv, UNCHANGED serviceVars,
         failures' \in {failures, failures + 1}, failures' <= MaxFailures, stopping' \subseteq Ids,
         \A s \in Slots : /\ mop'[s].op = mop[s].op /\ mop'[s].id = mop[s].id /\ mop'[s].tries <= 2
                          /\ mop'[s].pc \in {"make", "start"} => mop'[s].op = "create"
                          /\ mop[s].pc \in Over => mop'[s].pc \in Over,
         ASSUME failures' = 0, failures = 0, NEW i \in Ids, box'[i] # "none", i \notin Rows,
                box[i] # "none" => \E s \in Slots : Backs(req[s], mop[s], i, box[i])
         PROVE  \E s \in Slots : Backs(req[s], mop'[s], i, box'[i])
  PROVE  SInv'
<1>1. UNCHANGED <<asked, row, req, provisioning, nextId, taken, deleted>>
  BY DEF serviceVars
<1>2. UNCHANGED <<Rows, Known, Live, Creators>>
  BY <1>1 DEF Rows, Known, Live, Creators
<1>3. Limits' /\ OneProvides' /\ FewComputers'
  BY <1>1, <1>2 DEF SInv, Limits, OneProvides, FewComputers
<1>4. SessionsAreSound'
  <2>1. ASSUME NEW s \in Slots PROVE Sound(req[s], mop'[s], Known)
    BY DEF SInv, SessionsAreSound, Sound, Asks, Creating, Removing
  <2> QED
    BY <1>1, <1>2, <2>1 DEF SInv, SessionsAreSound
<1>5. failures' = 0 => failures = 0
  BY DEF Typed, SandboxTyped
<1>6. Settled'
  BY <1>1, <1>5 DEF SInv, Settled
<1>7. Backed'
  <2> SUFFICES ASSUME Spared', NEW i \in Ids, box'[i] # "none", i \notin Rows
               PROVE  \E s \in Slots : Backs(req[s], mop'[s], i, box'[i])
    BY <1>1, <1>2 DEF Backed
  <2>1. Spared /\ failures' = 0 /\ failures = 0
    BY <1>1, <1>5 DEF Spared
  <2>2. box[i] # "none" => \E s \in Slots : Backs(req[s], mop[s], i, box[i])
    BY <2>1 DEF SInv, Backed
  <2> QED
    BY <2>1, <2>2
<1> QED
  BY <1>3, <1>4, <1>6, <1>7 DEF SInv

\* A container that a request stands for is not let down by another's step there.
LEMMA BacksOn ==
  ASSUME NEW q, NEW m, NEW i, NEW b, NEW c, Backs(q, m, i, b), c = b \/ c # "running"
  PROVE  Backs(q, m, i, c)
  BY DEF Backs

LEMMA WorksHold ==
  ASSUME CInv, SInv, NEW r \in Slots, Works(r) \/ CutOff(r) \/ DockerFails(r), UNCHANGED serviceVars
  PROVE  SInv'
<1> USE DEF CInv, Typed, SandboxTyped
<1> PICK old \in Mops : old = mop[r]
  OBVIOUS
<1>1. PICK m : WorkStep(r, m)
  BY WorksShape
<1>2. /\ old.pc \in Busy \cup {"queued"} /\ m \in Mops /\ m.op = old.op /\ m.id = old.id
      /\ mop'[r] = m /\ \A s \in Slots \ {r} : mop'[s] = mop[s]
      /\ failures' \in {failures, failures + 1} /\ UNCHANGED stopping
  BY <1>1 DEF WorkStep
<1>3. old.pc \notin Over
  BY <1>2 DEF Busy, Over
<1>4. old.tries <= 2 /\ (old.pc \in {"make", "start"} => old.op = "create") /\ stopping' \subseteq Ids
  BY <1>2 DEF SInv, Limits
<1>5. \/ \E pc : Goes(r, pc) /\ (pc \in {"make", "start"} => old.op = "create")
      \/ mop' = [mop EXCEPT ![r].pc = "find", ![r].tries = @ + 1] /\ old.tries < 2
  <2>1. CASE CutOff(r) \/ DockerFails(r)
    BY <2>1 DEF CutOff, DockerFails, Ends
  <2>2. CASE Acquire(r) \/ Find(r) \/ Make(r) \/ Start(r)
    BY <1>4, <2>2 DEF Acquire, Find, Make, Start, Ends, At
  <2>3. CASE Stop(r) \/ Delete(r) \/ Run(r) \/ Answer(r)
    BY <2>3 DEF Stop, Delete, Run, Answer, Ends
  <2> QED
    BY <2>1, <2>2, <2>3 DEF Works
<1>6. m.tries <= 2 /\ (m.pc \in {"make", "start"} => m.op = "create")
  <2>1. CASE \E pc : Goes(r, pc) /\ (pc \in {"make", "start"} => old.op = "create")
    <3>1. PICK pc : Goes(r, pc) /\ (pc \in {"make", "start"} => old.op = "create")
      BY <2>1
    <3>2. m = [old EXCEPT !.pc = pc]
      BY <1>2, <3>1 DEF Goes
    <3>3. m.pc = pc /\ m.tries = old.tries
      BY <3>2 DEF Mops
    <3> QED
      BY <1>2, <1>4, <3>1, <3>3
  <2>2. CASE mop' = [mop EXCEPT ![r].pc = "find", ![r].tries = @ + 1] /\ old.tries < 2
    BY <1>2, <2>2 DEF Mops
  <2> QED
    BY <1>5, <2>1, <2>2
<1>7. failures' <= MaxFailures
  <2>1. failures <= MaxFailures /\ MaxFailures \in Nat
    BY Constants DEF SInv, Limits
  <2>2. Works(r) => UNCHANGED failures
    BY DEF Works, Acquire, Find, Make, Start, Stop, Delete, Run, Answer
  <2> QED
    BY <2>1, <2>2 DEF CutOff, DockerFails
<1>8. ASSUME failures' = 0, failures = 0, NEW i \in Ids, box'[i] # "none", i \notin Rows,
             box[i] # "none" => \E s \in Slots : Backs(req[s], mop[s], i, box[i])
      PROVE  \E s \in Slots : Backs(req[s], mop'[s], i, box'[i])
  <2>1. Works(r)
    BY <1>8 DEF CutOff, DockerFails
  <2>2. req[r].pc = "calls"
    BY <1>3, <1>8 DEF SInv, Settled
  <2>3. CASE Make(r) /\ i = old.id /\ box' # box
    <3>1. m.pc = "start" /\ box'[i] = "created" /\ old.op = "create"
      BY <1>2, <1>4, <2>3 DEF Make, At, Goes, Mops
    <3> QED
      BY <1>2, <2>2, <2>3, <3>1 DEF Backs
  <2>4. CASE Start(r) /\ i = old.id /\ box' # box
    <3>1. m.pc = "ok" /\ old.op = "create"
      BY <1>2, <1>4, <2>4 DEF Start, At, Ends, Goes, Mops
    <3> QED
      BY <1>2, <2>2, <2>4, <3>1 DEF Backs
  <2>5. CASE ~((Make(r) \/ Start(r)) /\ i = old.id /\ box' # box)
    <3>1. box[i] # "none" /\ (box'[i] = box[i] \/ box'[i] = "exited")
      BY <2>1, <2>5, <1>8
         DEF Works, Acquire, Find, Make, Start, Stop, Delete, Run, Answer, Stopped
    <3>2. PICK s \in Slots : Backs(req[s], mop[s], i, box[i])
      BY <1>8, <3>1
    <3>3. CASE s = r
      <4>1. old.pc = "start" /\ old.id = i /\ box[i] # "running"
        BY <1>3, <2>2, <3>2, <3>3 DEF Backs, Over
      <4>2. Start(r)
        BY <2>1, <4>1 DEF Works, Acquire, Find, Make, Stop, Delete, Run, Answer, At
      <4>3. box' # box
        BY <3>1, <4>1, <4>2 DEF Start, Boxes
      <4> QED
        BY <2>5, <4>1, <4>2, <4>3
    <3>4. CASE s # r
      BY <1>2, <3>1, <3>2, <3>4, BacksOn
    <3> QED
      BY <3>3, <3>4
  <2> QED
    BY <2>3, <2>4, <2>5
<1>9. \A s \in Slots : /\ mop'[s].op = mop[s].op /\ mop'[s].id = mop[s].id /\ mop'[s].tries <= 2
                       /\ mop'[s].pc \in {"make", "start"} => mop'[s].op = "create"
                       /\ mop[s].pc \in Over => mop'[s].pc \in Over
  BY <1>2, <1>3, <1>6 DEF SInv, Limits
<1> QED
  BY <1>2, <1>4, <1>7, <1>8, <1>9, ManagerHolds

\* A command that ends, a container that dies, ages, is suspended or looked at.
LEMMA OthersHold ==
  ASSUME CInv, SInv, UNCHANGED serviceVars, Containers \/ \E r \in Slots : CommandEnds(r)
  PROVE  SInv'
<1> USE DEF CInv, Typed, SandboxTyped
<1>1. /\ UNCHANGED mop /\ stopping' \subseteq Ids
      /\ UNCHANGED failures \/ (failures < MaxFailures /\ failures' = failures + 1)
  BY DEF Containers, CommandEnds, Dies, Ages, Suspends, Suspended, View, SInv, Limits
<1>2. failures' \in {failures, failures + 1} /\ failures' <= MaxFailures
  BY <1>1, Constants DEF SInv, Limits
<1>3. ASSUME NEW i \in Ids, box'[i] # "none"
      PROVE  box[i] # "none" /\ (box'[i] = box[i] \/ box'[i] = "exited")
  <2>1. \/ UNCHANGED box
        \/ \E j \in Ids : box[j] = "running" /\ box' = [box EXCEPT ![j] = "exited"]
    BY DEF Containers, CommandEnds, Dies, Ages, Suspends, Suspended, View, Stopped
  <2> QED
    BY <1>3, <2>1
<1>4. \A s \in Slots : /\ mop[s].tries <= 2
                       /\ mop[s].pc \in {"make", "start"} => mop[s].op = "create"
  BY DEF SInv, Limits
<1>5. ASSUME NEW i \in Ids, box'[i] # "none",
             box[i] # "none" => \E s \in Slots : Backs(req[s], mop[s], i, box[i])
      PROVE  \E s \in Slots : Backs(req[s], mop'[s], i, box'[i])
  BY <1>1, <1>3, <1>5, BacksOn
<1> QED
  BY <1>1, <1>2, <1>4, <1>5, ManagerHolds

LEMMA NextSInv == CInv /\ SInv /\ [Next]_vars => SInv'
<1> SUFFICES ASSUME CInv, SInv, [Next]_vars PROVE SInv'
  OBVIOUS
<1>1. CASE UNCHANGED vars
  <2>1. UNCHANGED <<asked, box, mop, stopping, failures, row, req, provisioning, nextId, taken, deleted>>
    BY <1>1 DEF vars, sandboxVars, serviceVars
  <2>2. UNCHANGED <<Rows, Known, Live, Creators>>
    BY <2>1 DEF Rows, Known, Live, Creators
  <2>3. Limits' /\ SessionsAreSound' /\ OneProvides'
    BY <2>1, <2>2 DEF SInv, Limits, SessionsAreSound, OneProvides
  <2>4. FewComputers' /\ Settled' /\ Backed'
    BY <2>1, <2>2 DEF SInv, FewComputers, Settled, Backed, Spared
  <2> QED
    BY <2>3, <2>4 DEF SInv
<1>2. ASSUME NEW r \in Slots, NEW kind \in Kinds, Begin(r, kind) PROVE SInv'
  BY <1>2, BeginHolds
<1>3. ASSUME NEW r \in Slots, Serves(r) PROVE SInv'
  <2>1. CASE ReadRows(r) \/ ReadBoxes(r) \/ WriteBack(r) \/ NormalizeLease(r)
    BY <2>1, ReadRowsHolds, ReadBoxesHolds, WriteBackHolds, NormalizeLeaseHolds
  <2>2. CASE TakeOver(r) \/ ReturnControl(r) \/ Act(r) \/ Wake(r) \/ RemoveComputer(r)
    BY <2>2, ControlHolds, CallsHold
  <2>3. CASE Provision(r) \/ Create(r) \/ Found(r)
    BY <2>3, ProvisionHolds, CreateHolds, FoundHolds
  <2>4. CASE CreateReturns(r) \/ CreateFails(r) \/ Undo(r) \/ UndoBox(r)
    BY <2>4, CreateReturnsHolds, CreateFailsHolds, UndoHolds, UndoBoxHolds
  <2>5. CASE ActReturns(r) \/ RemoveReturns(r) \/ Erase(r)
    BY <2>5, CallReturnsHolds, EraseHolds
  <2> QED
    BY <1>3, <2>1, <2>2, <2>3, <2>4, <2>5 DEF Serves
<1>4. ASSUME NEW r \in Slots, Manages(r) \/ ((CutOff(r) \/ DockerFails(r)) /\ UNCHANGED serviceVars)
      PROVE  SInv'
  BY <1>4, WorksHold, OthersHold DEF Manages
<1>5. ASSUME NEW k \in Leases, Lapse(k) PROVE SInv'
  BY <1>5, LapseHolds
<1>6. ASSUME Containers, UNCHANGED serviceVars PROVE SInv'
  BY <1>6, OthersHold
<1> QED
  BY <1>1, <1>2, <1>3, <1>4, <1>5, <1>6 DEF Next

-----------------------------------------------------------------------------
(* What the invariant says of the service.                                 *)

LEMMA InvTypesManager == CInv /\ SInv => SandboxTypeOK
<1> SUFFICES ASSUME CInv, SInv PROVE SandboxTypeOK
  OBVIOUS
<1> USE DEF CInv, Typed, SandboxTyped
<1>1. lock \in Seq(Slots) /\ DOMAIN lock = 1..Len(lock)
  OBVIOUS
<1>2. ToSet(lock) = {r \in Slots : mop[r].op = "browser" /\ mop[r].pc \notin {"none", "ok", "failed"}}
  <2>1. \A n \in 1..Len(lock) : lock[n] \in Slots /\ InLine(lock[n])
    BY DEF Queue
  <2>2. \A r \in Slots : InLine(r) => \E n \in 1..Len(lock) : lock[n] = r
    BY DEF Queue
  <2>3. ToSet(lock) = {lock[n] : n \in 1..Len(lock)}
    BY <1>1 DEF ToSet
  <2> QED
    BY <2>1, <2>2, <2>3 DEF InLine, Over
<1>3. mop \in [Slots -> [op : {"create", "browser", "exec", "remove", "none"},
                         id : Ids \cup {NoId},
                         pc : {"none", "queued", "find", "make", "start", "stop",
                               "delete", "run", "running", "ok", "failed"},
                         tries : 0..2]]
  <2>1. ASSUME NEW r \in Slots
        PROVE  mop[r] \in [op : {"create", "browser", "exec", "remove", "none"},
                           id : Ids \cup {NoId},
                           pc : {"none", "queued", "find", "make", "start", "stop",
                                 "delete", "run", "running", "ok", "failed"},
                           tries : 0..2]
    <3>1. mop[r] \in Mops /\ mop[r].tries <= 2
      BY DEF SInv, Limits
    <3> QED
      BY <3>1 DEF Mops, Busy, Over
  <2> QED
    BY <2>1
<1>4. failures \in 0..MaxFailures /\ stopping \subseteq Ids
  BY Constants DEF SInv, Limits
<1> QED
  BY <1>1, <1>2, <1>3, <1>4 DEF SandboxTypeOK, Boxes

LEMMA InvTypes == CInv /\ TInv /\ SInv => TypeOK
<1> SUFFICES ASSUME CInv, TInv, SInv PROVE TypeOK
  OBVIOUS
<1> USE DEF CInv, Typed, ServiceTyped
<1>1. SandboxTypeOK
  BY InvTypesManager
<1>2. row \in [Ids -> [status : Statuses, control : Leases \cup {Watch}] \cup {NoRow}]
  BY DEF SInv, SessionsAreSound, Kept
<1>3. ASSUME NEW r \in Slots
      PROVE  /\ req[r].kind \in Kinds \cup {"none"}
             /\ req[r].pc \in {"idle", "rows", "boxes", "write", "lapse", "decide", "calls",
                               "joins", "undo", "undoBox", "erase", "done", "failed"}
             /\ req[r].left \subseteq Ids
             /\ req[r].pc \in {"done", "failed"} /\ failures = 0 => mop[r].pc \in {"none", "ok", "failed"}
  <2>1. req[r] \in Reqs
    OBVIOUS
  <2> QED
    BY <2>1 DEF Reqs, Pcs, SInv, Settled, Over
<1>4. /\ provisioning \in Slots \cup {None}
      /\ provisioning # None =>
            req[provisioning].creates /\ req[provisioning].pc \notin {"idle", "done", "failed"}
  <2>1. provisioning \in Slots \cup {None}
    BY DEF SInv, OneProvides
  <2>2. ASSUME provisioning # None
        PROVE  req[provisioning].creates /\ req[provisioning].pc \notin {"idle", "done", "failed"}
    <3>1. provisioning \in Slots /\ req[provisioning].creates
      BY <2>1, <2>2 DEF SInv, OneProvides
    <3>2. Asks(req[provisioning], mop[provisioning])
      BY <3>1 DEF SInv, SessionsAreSound, Sound
    <3> QED
      BY <3>1, <3>2 DEF Asks
  <2> QED
    BY <2>1, <2>2
<1>5. /\ nextId \in 1..MaxComputers + 1 /\ taken \in 0..MaxLeases /\ lapsed \subseteq 1..taken
      /\ deleted \subseteq 1..(nextId - 1) /\ asked \in Mixes
  BY Constants DEF SInv, Limits, SessionsAreSound, Known, TInv
<1> QED
  BY <1>1, <1>2, <1>3, <1>4, <1>5 DEF TypeOK

LEMMA InvShares == SInv => OneSharedComputer
<1> SUFFICES ASSUME SInv PROVE OneSharedComputer
  OBVIOUS
<1> DEFINE asking == {r \in Slots : req[r].kind = "create"}
<1>1. Creators \subseteq asking /\ asking \subseteq Slots
  BY DEF Creators, Made
<1>2. Cardinality(Creators) <= Cardinality(asking) /\ IsFiniteSet(Creators) /\ IsFiniteSet(asking)
  BY <1>1, Constants, FS_Subset
<1>3. IsFiniteSet(Live)
  <2>1. Live \in SUBSET Ids
    BY DEF Live, Rows
  <2> QED
    BY <2>1, FiniteIds
<1>4. Cardinality(Live) \in Nat /\ Cardinality(Creators) \in Nat /\ Cardinality(asking) \in Nat
  BY <1>2, <1>3, FS_CardinalityType
<1>5. Cardinality(Live) <= 1 + Cardinality(Creators)
  BY DEF SInv, FewComputers
<1> HIDE DEF asking
<1>6. Cardinality(Live) <= 1 + Cardinality(asking)
  BY <1>2, <1>4, <1>5
<1> QED
  BY <1>6 DEF OneSharedComputer, Live, asking

LEMMA InvNames == SInv => NoOrphans
<1> SUFFICES ASSUME SInv, Quiet, failures = 0, NEW i \in Ids, box[i] # "none"
             PROVE  i \in Rows
  BY DEF NoOrphans
<1>1. Spared
  BY DEF Spared, Quiet
<1>2. \A r \in Slots : ~Backs(req[r], mop[r], i, box[i])
  BY DEF Backs, Quiet
<1> QED
  BY <1>1, <1>2 DEF SInv, Backed

\* Every variable keeps its type, and with it: the queue of the browser actions is
\* exactly those that have not ended, the promise of the shared computer is held by a
\* request that is under way, without a failure the manager works for nobody who has
\* his answer, and what was deleted was handed out before (computer-service,
\* sandboxService.withBrowserActionLock, createComputer).
THEOREM ComputersTyped == Spec => []TypeOK
  BY InitCInv, NextCInv, InitTInv, NextTInv, InitSInv, NextSInv, InvTypes, PTL DEF Spec

\* However many agents ask for a computer at once, whatever fails and is retried, the
\* team has one, and one more at the most for each creation the user asked for
\* (computer-service.provisionSharedComputer, create).
THEOREM ComputerIsShared == Spec => []OneSharedComputer
  BY InitCInv, NextCInv, InitSInv, NextSInv, InvShares, PTL DEF Spec

\* Once the requests are over, no container is left that no row names, unless a removal
\* or a failure came between (computer-service.create's catch).
THEOREM ContainersAreNamed == Spec => []NoOrphans
  BY InitCInv, NextCInv, InitSInv, NextSInv, InvNames, PTL DEF Spec
=============================================================================
