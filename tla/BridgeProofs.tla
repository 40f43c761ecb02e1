---------------------------- MODULE BridgeProofs ----------------------------
(* What TLAPS proves of CodexBridge, for any executions and any bounds:    *)
(* its types, and that a reply is the text of its own turn, all of it.     *)
EXTENDS CodexBridge, FiniteSetTheorems, NaturalsInduction, WellFoundedInduction, TLAPS

-----------------------------------------------------------------------------
(* The inductive invariant.                                                *)

\* An execution that has not started its turn yet.
Starts(x) ==
    \/ x.step = "idle"
    \/ x.step \in {"call", "mkdir", "initialize", "wait"} /\ x.call # "interrupt"

\* What a step needs: a call its process, a decision its approval, a running turn
\* its process; and a turn that has not started has no trace.
StepsAreSound ==
    /\ \A e \in Executions :
          /\ exec[e].step \in {"initialize", "wait"} => exec[e].peer # 0
          /\ exec[e].step \in {"decide", "resolve"} => exec[e].id # 0
          /\ turn[e] \in {"running", "asking"} => host[e] # 0
          /\ Starts(exec[e]) => turn[e] = "none"
          /\ turn[e] = "none" => pieces[e] = 0 /\ wire[e] = {} /\ \A x \in buffer : x.turn # e
          /\ Starts(exec[e]) \/ exec[e].step = "connect" => content[e] = 0
          /\ wire[e] # {} => Streams(e)
    /\ reading # Nothing => reading.id # 0

Ends == {"completed", "failed"}

\* Events with cursors up to last, when became tells what became of each turn:
\* the cursors are distinct, an approval has its id, and the end of a turn tells
\* what became of it and comes last.
Sound(S, last, became) ==
    /\ IsFiniteSet(S)
    /\ \A x \in S :
          /\ x.cursor <= last
          /\ x.kind = "ask" => x.id # 0
          /\ x.kind \in Ends => became[x.turn] = x.kind
    /\ \A x, y \in S :
          /\ x.cursor = y.cursor => x = y
          /\ x.turn = y.turn /\ x.kind \in Ends => y.cursor <= x.cursor

EventsAreSound ==
    /\ Sound(buffer, cursor, turn)
    /\ \A e \in Executions : Sound(wire[e], cursor, turn) /\ \A x \in wire[e] : x.turn = e

Deltas(S, e) == {x \in S : x.turn = e /\ x.kind = "delta"}

\* The pieces of a turn are in the buffer until it drops one; those that an
\* execution has not read yet are in its stream.
PiecesAreKept ==
    \A e \in Executions :
        /\ Cardinality(Deltas(buffer, e)) <= pieces[e]
        /\ e \notin dropped => Cardinality(Deltas(buffer, e)) = pieces[e]
        /\ content[e] + Cardinality(Deltas(wire[e], e)) <= pieces[e]
        /\ Streams(e) /\ e \notin dropped => content[e] + Cardinality(Deltas(wire[e], e)) = pieces[e]

BridgeInv ==
    /\ TypeOK
    /\ StepsAreSound
    /\ EventsAreSound
    /\ PiecesAreKept
    /\ ReplyIsTheTurns

-----------------------------------------------------------------------------
(* Sets of events.                                                         *)

LEMMA Bounds ==
  /\ BufferLimit \in Nat \ {0} /\ MaxChildren \in Nat \ {0}
  /\ MaxPieces \in Nat /\ MaxAsks \in Nat /\ MaxRestarts \in Nat
  BY BridgeAssumption

LEMMA LeastExists ==
  ASSUME NEW S \in SUBSET Nat, S # {}
  PROVE  \E m \in S : \A n \in S : m <= n
<1> DEFINE R == OpToRel(<, Nat)
<1>1. IsWellFoundedOn(R, Nat)
  BY NatLessThanWellFounded
<1>2. ASSUME NEW m \in S, NEW n \in S, n < m PROVE <<n, m>> \in R
  BY <1>2 DEF OpToRel
<1> HIDE DEF R
<1>3. PICK m \in S : \A n \in S : <<n, m>> \notin R
  BY <1>1, WFMin
<1>4. ASSUME NEW n \in S PROVE m <= n
  <2>1. ~(n < m)
    BY <1>2, <1>3
  <2> QED
    BY <2>1
<1> QED
  BY <1>4

\* Of too many events the oldest is dropped.
LEMMA OverflowBounds ==
  ASSUME NEW S \in SUBSET Events, IsFiniteSet(S), Cardinality(S) <= BufferLimit + 1,
         \A x, y \in S : x.cursor = y.cursor => x = y
  PROVE  Cardinality(S \ Overflow(S)) <= BufferLimit
<1>0. Cardinality(S) \in Nat /\ BufferLimit \in Nat /\ BufferLimit # 0
  BY Bounds, FS_CardinalityType
<1>1. /\ IsFiniteSet(S \ Overflow(S)) /\ Cardinality(S \ Overflow(S)) \in Nat
      /\ Cardinality(S \ Overflow(S)) <= Cardinality(S)
  BY FS_Subset, FS_CardinalityType
<1>2. CASE Cardinality(S) <= BufferLimit
  BY <1>0, <1>1, <1>2
<1>3. CASE Cardinality(S) = BufferLimit + 1
  <2> DEFINE C == {x.cursor : x \in S}
  <2>1. C \in SUBSET Nat /\ C # {}
    <3>1. S # {}
      BY <1>0, <1>3, FS_EmptySet
    <3> QED
      BY <3>1 DEF Events
  <2>2. PICK m \in C : \A n \in C : m <= n
    BY <2>1, LeastExists
  <2>3. PICK x \in S : x.cursor = m
    OBVIOUS
  <2>4. \A y \in S : y.cursor \in Nat /\ x.cursor <= y.cursor
    BY <2>1, <2>2, <2>3
  <2>5. {y \in S : y.cursor > x.cursor} = S \ {x}
    BY <2>4
  <2>6. Cardinality(S \ {x}) = BufferLimit /\ IsFiniteSet(S \ {x})
    <3> HIDE DEF C
    <3>1. IsFiniteSet(S) /\ x \in S
      BY <2>3
    <3>2. IsFiniteSet(S \ {x}) /\ Cardinality(S \ {x}) = Cardinality(S) - 1
      BY ONLY <3>1, FS_RemoveElement, Zenon
    <3> QED
      BY ONLY <1>0, <1>3, <3>2
  <2>7. x \in Overflow(S)
    <3> DEFINE later == {newer \in S : newer.cursor > x.cursor}
    <3>1. later = S \ {x}
      BY <2>5
    <3> HIDE DEF later
    <3>2. Cardinality(later) >= BufferLimit
      BY <1>0, <2>6, <3>1
    <3> QED
      BY <3>2 DEF Overflow, later
  <2>8. S \ Overflow(S) \subseteq S \ {x}
    BY <2>7
  <2> QED
    BY <2>6, <2>8, FS_Subset
<1> QED
  BY <1>0, <1>2, <1>3

LEMMA SoundSubset ==
  ASSUME NEW S, NEW T, T \subseteq S, NEW last, NEW became, Sound(S, last, became)
  PROVE  Sound(T, last, became)
  BY FS_Subset DEF Sound

\* What has ended stays as it is.
LEMMA SoundLater ==
  ASSUME NEW S \in SUBSET Events, NEW last, NEW became, NEW becomes, Sound(S, last, became),
         \A e \in Executions : became[e] \in Ends => becomes[e] = became[e]
  PROVE  Sound(S, last, becomes)
<1>1. ASSUME NEW x \in S, x.kind \in Ends PROVE becomes[x.turn] = x.kind
  <2>1. x.turn \in Executions /\ became[x.turn] = x.kind
    BY <1>1 DEF Sound, Events
  <2> QED
    BY <1>1, <2>1
<1> QED
  BY <1>1 DEF Sound

\* An event of a turn that has not ended comes after all others.
LEMMA SoundAdds ==
  ASSUME NEW S \in SUBSET Events, NEW last \in Nat, NEW became, NEW becomes, Sound(S, last, became),
         NEW x \in Events, x.cursor = last + 1, x.kind = "ask" => x.id # 0,
         became[x.turn] \notin Ends, x.kind \in Ends => becomes[x.turn] = x.kind,
         \A e \in Executions \ {x.turn} : becomes[e] = became[e]
  PROVE  Sound(S \cup {x}, last + 1, becomes) /\ x \notin S
<1>0. \A y \in S : y.cursor \in Nat /\ y.cursor <= last /\ y.turn \in Executions
  BY DEF Sound, Events
<1>1. IsFiniteSet(S \cup {x})
  BY FS_AddElement DEF Sound
<1>2. \A y \in S : y.kind \in Ends => y.turn # x.turn /\ becomes[y.turn] = y.kind
  BY <1>0 DEF Sound
<1>3. \A y \in S \cup {x} :
          /\ y.cursor <= last + 1
          /\ y.kind = "ask" => y.id # 0
          /\ y.kind \in Ends => becomes[y.turn] = y.kind
  BY <1>0, <1>2 DEF Sound
<1>4. ASSUME NEW y \in S \cup {x}, NEW z \in S \cup {x}
      PROVE  /\ y.cursor = z.cursor => y = z
             /\ y.turn = z.turn /\ y.kind \in Ends => z.cursor <= y.cursor
  <2>1. CASE y \in S /\ z \in S
    BY <2>1 DEF Sound
  <2>2. CASE y \in S /\ z = x
    BY <1>0, <1>2, <2>2
  <2>3. CASE y = x
    BY <1>0, <2>3
  <2> QED
    BY <2>1, <2>2, <2>3
<1>5. x \notin S
  BY <1>0
<1> QED
  BY <1>1, <1>3, <1>4, <1>5 DEF Sound

\* Counting pieces.
LEMMA DeltasCount ==
  ASSUME NEW S, IsFiniteSet(S), NEW e
  PROVE  IsFiniteSet(Deltas(S, e)) /\ Cardinality(Deltas(S, e)) \in Nat
  BY FS_Subset, FS_CardinalityType DEF Deltas

LEMMA DeltasAdd ==
  ASSUME NEW S, IsFiniteSet(S), NEW x, x \notin S, NEW e
  PROVE  Cardinality(Deltas(S \cup {x}, e)) =
            IF x.turn = e /\ x.kind = "delta" THEN Cardinality(Deltas(S, e)) + 1
            ELSE Cardinality(Deltas(S, e))
<1>1. IsFiniteSet(Deltas(S, e)) /\ x \notin Deltas(S, e)
  BY DeltasCount DEF Deltas
<1>2. Deltas(S \cup {x}, e) = IF x.turn = e /\ x.kind = "delta" THEN Deltas(S, e) \cup {x} ELSE Deltas(S, e)
  BY DEF Deltas
<1> QED
  BY <1>1, <1>2, FS_AddElement

LEMMA DeltasRemove ==
  ASSUME NEW S, IsFiniteSet(S), NEW x \in S, NEW e
  PROVE  Cardinality(Deltas(S, e)) =
            IF x.turn = e /\ x.kind = "delta" THEN Cardinality(Deltas(S \ {x}, e)) + 1
            ELSE Cardinality(Deltas(S \ {x}, e))
<1>1. IsFiniteSet(S \ {x}) /\ x \notin S \ {x} /\ (S \ {x}) \cup {x} = S
  BY FS_Subset
<1> QED
  BY <1>1, DeltasAdd

LEMMA DeltasDrop ==
  ASSUME NEW S, IsFiniteSet(S), NEW T, T \subseteq S, NEW e
  PROVE  /\ Cardinality(Deltas(T, e)) <= Cardinality(Deltas(S, e))
         /\ (\A x \in S \ T : x.turn # e) => Deltas(T, e) = Deltas(S, e)
<1>1. Deltas(T, e) \subseteq Deltas(S, e) /\ IsFiniteSet(Deltas(S, e))
  BY DeltasCount DEF Deltas
<1>2. Cardinality(Deltas(T, e)) <= Cardinality(Deltas(S, e))
  BY <1>1, FS_Subset
<1>3. (\A x \in S \ T : x.turn # e) => Deltas(T, e) = Deltas(S, e)
  BY DEF Deltas
<1> QED
  BY <1>2, <1>3

-----------------------------------------------------------------------------
(* Appending an event.                                                     *)

LEMMA AppendKeeps ==
  ASSUME TypeOK, EventsAreSound, NEW e \in Executions,
         NEW kind \in {"delta", "ask", "completed", "failed"}, NEW id \in 0..MaxAsks, kind = "ask" => id # 0,
         turn[e] \notin Ends, kind \in Ends => turn'[e] = kind,
         \A f \in Executions \ {e} : turn'[f] = turn[f],
         AppendEvent(e, kind, id)
  PROVE  /\ cursor' \in Nat
         /\ buffer' \in SUBSET Events /\ Cardinality(buffer') <= BufferLimit
         /\ dropped \subseteq dropped' /\ dropped' \in SUBSET Executions
         /\ wire' \in [Executions -> SUBSET Events]
         /\ EventsAreSound'
         /\ \A x \in buffer' : x \in buffer \/ x.turn = e
         /\ \A f \in Executions :
              /\ f # e \/ ~Streams(f) => wire'[f] = wire[f]
              /\ f # e \/ kind # "delta" =>
                    /\ Cardinality(Deltas(buffer', f)) <= Cardinality(Deltas(buffer, f))
                    /\ f \notin dropped' => Cardinality(Deltas(buffer', f)) = Cardinality(Deltas(buffer, f))
                    /\ Cardinality(Deltas(wire'[f], f)) = Cardinality(Deltas(wire[f], f))
         /\ kind = "delta" =>
              /\ Cardinality(Deltas(buffer', e)) <= Cardinality(Deltas(buffer, e)) + 1
              /\ e \notin dropped' => Cardinality(Deltas(buffer', e)) = Cardinality(Deltas(buffer, e)) + 1
              /\ Cardinality(Deltas(wire'[e], e)) =
                    IF Streams(e) THEN Cardinality(Deltas(wire[e], e)) + 1 ELSE Cardinality(Deltas(wire[e], e))
<1> DEFINE event == [cursor |-> cursor + 1, turn |-> e, kind |-> kind, id |-> id]
           all == buffer \cup {event}
           over == Overflow(all)
<1>0. /\ cursor \in Nat /\ buffer \in SUBSET Events /\ Cardinality(buffer) <= BufferLimit
      /\ dropped \in SUBSET Executions /\ wire \in [Executions -> SUBSET Events]
      /\ Sound(buffer, cursor, turn) /\ IsFiniteSet(buffer) /\ BufferLimit \in Nat
  BY Bounds DEF TypeOK, EventsAreSound, Sound
<1>1. event \in Events /\ event.cursor = cursor + 1 /\ event.turn = e /\ event.kind = kind /\ event.id = id
  BY <1>0 DEF Events
<1>2. /\ cursor' = cursor + 1 /\ buffer' = all \ over
      /\ dropped' = dropped \cup {old.turn : old \in over}
      /\ wire' = [x \in Executions |-> IF Streams(x) /\ Matches(x, event) THEN wire[x] \cup {event} ELSE wire[x]]
  BY DEF AppendEvent
<1>3. \A x \in Executions : Matches(x, event) <=> x = e
  BY <1>1 DEF Matches
<1> HIDE DEF event
<1>4. Sound(all, cursor + 1, turn') /\ event \notin buffer /\ all \in SUBSET Events
  BY <1>0, <1>1, SoundAdds
<1>5. over \subseteq all
  BY DEF Overflow
<1>6. IsFiniteSet(all) /\ Cardinality(all) = Cardinality(buffer) + 1 /\ Cardinality(buffer) \in Nat
  BY <1>0, <1>4, FS_AddElement, FS_CardinalityType
<1>7. Cardinality(all \ over) <= BufferLimit
  <2>1. \A x, y \in all : x.cursor = y.cursor => x = y
    BY <1>4 DEF Sound
  <2>2. Cardinality(all) <= BufferLimit + 1
    BY <1>0, <1>6
  <2> HIDE DEF all
  <2> QED
    BY <1>4, <1>6, <2>1, <2>2, OverflowBounds
<1>8. Sound(buffer', cursor', turn')
  BY <1>2, <1>4, SoundSubset
<1>9. \A old \in over : old.turn \in Executions
  BY <1>4, <1>5 DEF Events
<1>10. ASSUME NEW f \in Executions
       PROVE  /\ wire'[f] \in SUBSET Events
              /\ Sound(wire'[f], cursor', turn') /\ \A x \in wire'[f] : x.turn = f
              /\ f # e \/ ~Streams(f) => wire'[f] = wire[f]
              /\ f # e \/ kind # "delta" => Cardinality(Deltas(wire'[f], f)) = Cardinality(Deltas(wire[f], f))
              /\ f = e /\ kind = "delta" =>
                   Cardinality(Deltas(wire'[f], f)) =
                    IF Streams(f) THEN Cardinality(Deltas(wire[f], f)) + 1 ELSE Cardinality(Deltas(wire[f], f))
  <2>0. wire[f] \in SUBSET Events /\ Sound(wire[f], cursor, turn) /\ IsFiniteSet(wire[f]) /\ \A x \in wire[f] : x.turn = f
    BY <1>0 DEF EventsAreSound, Sound
  <2>1. Sound(wire[f] \cup {event}, cursor', turn') /\ event \notin wire[f]
    BY <1>0, <1>1, <1>2, <2>0, SoundAdds
  <2>2. Sound(wire[f], cursor', turn')
    BY <2>1, SoundSubset
  <2>3. CASE Streams(f) /\ f = e
    <3>1. wire'[f] = wire[f] \cup {event}
      BY <1>2, <1>3, <2>3
    <3>2. Cardinality(Deltas(wire'[f], f)) =
            IF kind = "delta" THEN Cardinality(Deltas(wire[f], f)) + 1 ELSE Cardinality(Deltas(wire[f], f))
      BY <1>1, <2>0, <2>1, <2>3, <3>1, DeltasAdd
    <3> QED
      BY <1>1, <2>0, <2>1, <2>3, <3>1, <3>2
  <2>4. CASE ~(Streams(f) /\ f = e)
    <3>1. wire'[f] = wire[f]
      BY <1>2, <1>3, <2>4
    <3> QED
      BY <2>0, <2>2, <2>4, <3>1
  <2> QED
    BY <2>3, <2>4
<1>11. ASSUME NEW f \in Executions
       PROVE  /\ Cardinality(Deltas(buffer', f)) <= Cardinality(Deltas(all, f))
              /\ f \notin dropped' => Deltas(buffer', f) = Deltas(all, f)
              /\ Cardinality(Deltas(all, f)) =
                   IF f = e /\ kind = "delta" THEN Cardinality(Deltas(buffer, f)) + 1
                   ELSE Cardinality(Deltas(buffer, f))
  <2>1. f \notin dropped' => \A x \in all \ buffer' : x.turn # f
    BY <1>2
  <2>2. /\ Cardinality(Deltas(buffer', f)) <= Cardinality(Deltas(all, f))
        /\ f \notin dropped' => Deltas(buffer', f) = Deltas(all, f)
    BY <1>2, <1>6, <2>1, DeltasDrop
  <2>3. Cardinality(Deltas(all, f)) =
           IF f = e /\ kind = "delta" THEN Cardinality(Deltas(buffer, f)) + 1
           ELSE Cardinality(Deltas(buffer, f))
    BY <1>0, <1>1, <1>4, DeltasAdd
  <2> QED
    BY <2>2, <2>3
<1>12. wire' \in [Executions -> SUBSET Events]
  BY <1>2, <1>10
<1>13. EventsAreSound'
  BY <1>8, <1>10 DEF EventsAreSound
<1>14. \A x \in buffer' : x \in buffer \/ x.turn = e
  BY <1>1, <1>2
<1> HIDE DEF all, over
<1>15. cursor' \in Nat /\ buffer' \in SUBSET Events /\ Cardinality(buffer') <= BufferLimit
  BY <1>0, <1>2, <1>4, <1>7
<1>16. dropped \subseteq dropped' /\ dropped' \in SUBSET Executions
  BY <1>0, <1>2, <1>9
<1> QED
  BY <1>10, <1>11, <1>12, <1>13, <1>14, <1>15, <1>16

-----------------------------------------------------------------------------
(* Steps.                                                                  *)

\* What a step does to the execution and to the turn of e, in whatever way.
Onward(e) ==
    /\ turn[e] \in Ends => turn'[e] = turn[e]
    /\ turn'[e] = "none" => turn[e] = "none"
    /\ turn'[e] \in {"running", "asking"} => host'[e] # 0
    /\ exec'[e].step \in {"initialize", "wait"} => exec'[e].peer # 0
    /\ exec'[e].step \in {"decide", "resolve"} => exec'[e].id # 0
    /\ Starts(exec'[e]) => Starts(exec[e]) /\ turn'[e] = turn[e]
    /\ exec'[e].step = "connect" => Starts(exec[e]) \/ exec[e].step = "connect"

\* A step that appends no event and reads none.
LEMMA QuietKeeps ==
  ASSUME BridgeInv, TypeOK', UNCHANGED <<cursor, buffer, dropped, pieces, content>>,
         reading' # Nothing => reading'.id # 0,
         \A e \in Executions :
            /\ Onward(e)
            /\ exec'[e].step = "done" => exec[e].step = "done"
            /\ wire'[e] = wire[e] \/ wire'[e] = {}
            /\ Streams(e)' => Streams(e) /\ wire'[e] = wire[e]
            /\ wire'[e] # {} => Streams(e)'
  PROVE  BridgeInv'
<1>0. TypeOK /\ StepsAreSound /\ EventsAreSound /\ PiecesAreKept /\ ReplyIsTheTurns
  BY DEF BridgeInv
<1>1. StepsAreSound'
  <2> SUFFICES ASSUME NEW e \in Executions
               PROVE  /\ exec'[e].step \in {"initialize", "wait"} => exec'[e].peer # 0
                      /\ exec'[e].step \in {"decide", "resolve"} => exec'[e].id # 0
                      /\ turn'[e] \in {"running", "asking"} => host'[e] # 0
                      /\ Starts(exec'[e]) => turn'[e] = "none"
                      /\ turn'[e] = "none" => pieces[e] = 0 /\ wire'[e] = {} /\ \A x \in buffer : x.turn # e
                      /\ Starts(exec'[e]) \/ exec'[e].step = "connect" => content[e] = 0
                      /\ wire'[e] # {} => Streams(e)'
    BY DEF StepsAreSound
  <2>1. Onward(e)
    OBVIOUS
  <2> QED
    BY <1>0, <2>1 DEF StepsAreSound, Onward
<1>2. EventsAreSound'
  <2>1. \A e \in Executions : turn[e] \in Ends => turn'[e] = turn[e]
    BY DEF Onward
  <2>2. Sound(buffer', cursor', turn')
    BY <1>0, <2>1, SoundLater DEF EventsAreSound, TypeOK
  <2>3. ASSUME NEW e \in Executions PROVE Sound(wire'[e], cursor', turn') /\ \A x \in wire'[e] : x.turn = e
    <3>1. Sound(wire[e], cursor, turn) /\ wire[e] \in SUBSET Events /\ \A x \in wire[e] : x.turn = e
      BY <1>0 DEF EventsAreSound, TypeOK
    <3>2. Sound(wire[e], cursor, turn')
      BY <2>1, <3>1, SoundLater
    <3>3. wire'[e] \subseteq wire[e]
      OBVIOUS
    <3> QED
      BY <3>1, <3>2, <3>3, SoundSubset
  <2> QED
    BY <2>2, <2>3 DEF EventsAreSound
<1>3. PiecesAreKept'
  <2> SUFFICES ASSUME NEW e \in Executions
               PROVE  /\ content[e] + Cardinality(Deltas(wire'[e], e)) <= pieces[e]
                      /\ Streams(e)' /\ e \notin dropped => content[e] + Cardinality(Deltas(wire'[e], e)) = pieces[e]
    BY <1>0 DEF PiecesAreKept
  <2>1. CASE wire'[e] = wire[e]
    BY <1>0, <2>1 DEF PiecesAreKept
  <2>2. CASE wire'[e] = {} /\ ~Streams(e)'
    <3>1. Sound(wire[e], cursor, turn) /\ IsFiniteSet(wire[e])
      BY <1>0 DEF EventsAreSound, Sound
    <3>2. Cardinality(Deltas(wire'[e], e)) <= Cardinality(Deltas(wire[e], e))
      BY <2>2, <3>1, DeltasDrop
    <3>3. Cardinality(Deltas(wire[e], e)) \in Nat /\ Cardinality(Deltas(wire'[e], e)) \in Nat
      <4>1. IsFiniteSet(wire'[e])
        BY <2>2, FS_EmptySet
      <4> QED
        BY <3>1, <4>1, DeltasCount
    <3>4. content[e] \in Nat /\ pieces[e] \in Nat
      BY <1>0, Bounds DEF TypeOK
    <3> QED
      BY <1>0, <2>2, <3>2, <3>3, <3>4 DEF PiecesAreKept
  <2> QED
    BY <2>1, <2>2
<1>4. ReplyIsTheTurns'
  BY <1>0 DEF ReplyIsTheTurns, Onward, Ends
<1> QED
  BY <1>1, <1>2, <1>3, <1>4 DEF BridgeInv

\* The step of one execution.
Turns(e, q) == q \in ExecutionStates /\ exec' = [exec EXCEPT ![e] = q]

LEMMA ExecutionTurns ==
  ASSUME TypeOK, NEW e \in Executions, NEW q, Turns(e, q)
  PROVE  /\ exec' \in [Executions -> ExecutionStates]
         /\ exec'[e] = q
         /\ \A f \in Executions \ {e} : exec'[f] = exec[f]
  BY DEF Turns, TypeOK

LEMMA StateSets ==
  ASSUME NEW x \in ExecutionStates
  PROVE  /\ x.step \in {"idle", "call", "mkdir", "initialize", "wait", "connect", "consume",
                        "decide", "resolve", "done", "failed"}
         /\ x.call \in Calls /\ x.peer \in 0..MaxChildren /\ x.id \in 0..MaxAsks /\ x.row \in Rows
         /\ \A step \in {"idle", "call", "mkdir", "initialize", "wait", "connect", "consume",
                        "decide", "resolve", "done", "failed"} :
              /\ [x EXCEPT !.step = step] \in ExecutionStates
              /\ [x EXCEPT !.step = step, !.row = NoRow] \in ExecutionStates
              /\ \A peer \in 0..MaxChildren : [x EXCEPT !.step = step, !.peer = peer] \in ExecutionStates
              /\ \A id \in 0..MaxAsks : [x EXCEPT !.step = step, !.id = id] \in ExecutionStates
              /\ \A row \in Rows : [x EXCEPT !.step = step, !.row = row] \in ExecutionStates
              /\ \A call \in Calls, peer \in 0..MaxChildren :
                    [x EXCEPT !.step = step, !.call = call, !.peer = peer] \in ExecutionStates
<1> DEFINE Steps == {"idle", "call", "mkdir", "initialize", "wait", "connect", "consume",
                     "decide", "resolve", "done", "failed"}
<1>1. NoRow \in Rows
  BY DEF NoRow, Rows
<1>2. x.step \in Steps /\ x.call \in Calls /\ x.peer \in 0..MaxChildren /\ x.id \in 0..MaxAsks /\ x.row \in Rows
  BY DEF ExecutionStates
<1>3. ASSUME NEW step \in Steps
      PROVE  [x EXCEPT !.step = step] \in ExecutionStates
  BY DEF ExecutionStates
<1>4. ASSUME NEW step \in Steps, NEW row \in Rows
      PROVE  [x EXCEPT !.step = step, !.row = row] \in ExecutionStates
  BY DEF ExecutionStates
<1>5. ASSUME NEW step \in Steps, NEW peer \in 0..MaxChildren
      PROVE  [x EXCEPT !.step = step, !.peer = peer] \in ExecutionStates
  BY DEF ExecutionStates
<1>6. ASSUME NEW step \in Steps, NEW id \in 0..MaxAsks
      PROVE  [x EXCEPT !.step = step, !.id = id] \in ExecutionStates
  BY DEF ExecutionStates
<1>7. ASSUME NEW step \in Steps, NEW call \in Calls, NEW peer \in 0..MaxChildren
      PROVE  [x EXCEPT !.step = step, !.call = call, !.peer = peer] \in ExecutionStates
  BY DEF ExecutionStates
<1> QED
  BY <1>1, <1>2, <1>3, <1>4, <1>5, <1>6, <1>7, Zenon

LEMMA RejectedIs ==
  ASSUME NEW x \in ExecutionStates
  PROVE  /\ Rejected(x) \in ExecutionStates
         /\ Rejected(x).step \in {"call", "failed"}
         /\ x.step \in {"mkdir", "initialize", "wait"} /\ Starts(Rejected(x)) => Starts(x)
<1>1. 0 \in 0..MaxChildren
  BY Bounds
<1>2. "start" \in Calls
  BY DEF Calls
<1>3. CASE x.call = "resume"
  <2> DEFINE q == [x EXCEPT !.step = "call", !.call = "start", !.peer = 0]
  <2>1. q \in ExecutionStates /\ q.step = "call"
    BY <1>1, <1>2 DEF ExecutionStates
  <2>2. Rejected(x) = q
    BY <1>3 DEF Rejected
  <2> HIDE DEF q
  <2> QED
    BY <1>3, <2>1, <2>2 DEF Starts
<1>4. CASE x.call # "resume"
  <2> DEFINE q == [x EXCEPT !.step = "failed"]
  <2>1. q \in ExecutionStates /\ q.step = "failed"
    BY DEF ExecutionStates
  <2>2. Rejected(x) = q
    BY <1>4 DEF Rejected
  <2> HIDE DEF q
  <2> QED
    BY <2>1, <2>2 DEF Starts
<1> QED
  BY <1>3, <1>4

\* One execution goes on, without an event: what remains to show.
LEMMA OneTurns ==
  ASSUME BridgeInv, TypeOK', NEW e \in Executions, NEW q, Turns(e, q),
         UNCHANGED <<cursor, buffer, dropped, pieces, content, reading>>,
         \A f \in Executions \ {e} : /\ host'[f] = host[f]
                                     /\ turn'[f] = turn[f] \/ (turn[f] = "asking" /\ turn'[f] = "running"),
         turn[e] \in Ends => turn'[e] = turn[e],
         turn'[e] = "none" => turn[e] = "none",
         turn'[e] \in {"running", "asking"} => host'[e] # 0,
         q.step # "done",
         q.step \in {"initialize", "wait"} => q.peer # 0,
         q.step \in {"decide", "resolve"} => q.id # 0,
         Starts(q) => Starts(exec[e]) /\ turn'[e] = turn[e],
         q.step = "connect" => Starts(exec[e]),
         q.step \in {"consume", "decide", "resolve"} => Streams(e) /\ wire' = wire,
         wire' = wire \/ wire' = [wire EXCEPT ![e] = {}],
         q.step \notin {"consume", "decide", "resolve"} => wire'[e] = {}
  PROVE  BridgeInv'
<1>0. StepsAreSound /\ TypeOK
  BY DEF BridgeInv
<1>1. exec'[e] = q /\ \A f \in Executions \ {e} : exec'[f] = exec[f]
  BY <1>0, ExecutionTurns
<1>2. ASSUME NEW f \in Executions, f # e
      PROVE  /\ Onward(f)
             /\ exec'[f].step = "done" => exec[f].step = "done"
             /\ wire'[f] = wire[f]
             /\ Streams(f)' <=> Streams(f)
             /\ wire'[f] # {} => Streams(f)'
  <2>1. exec'[f] = exec[f] /\ wire'[f] = wire[f] /\ host'[f] = host[f]
    BY <1>0, <1>1, <1>2 DEF TypeOK
  <2>2. turn'[f] = turn[f] \/ (turn[f] = "asking" /\ turn'[f] = "running")
    BY <1>2
  <2>3. Starts(exec[f]) => turn[f] = "none"
    BY <1>0 DEF StepsAreSound
  <2>4. Onward(f)
    BY <1>0, <2>1, <2>2, <2>3 DEF Onward, StepsAreSound, Ends
  <2> QED
    BY <1>0, <2>1, <2>4 DEF StepsAreSound, Streams
<1>3. /\ Onward(e)
      /\ exec'[e].step = "done" => exec[e].step = "done"
      /\ wire'[e] = wire[e] \/ wire'[e] = {}
      /\ Streams(e)' => Streams(e) /\ wire'[e] = wire[e]
      /\ wire'[e] # {} => Streams(e)'
  <2>1. Onward(e)
    BY <1>1 DEF Onward
  <2>2. wire'[e] = wire[e] \/ wire'[e] = {}
    BY <1>0 DEF TypeOK
  <2> QED
    BY <1>1, <2>1, <2>2 DEF Streams
<1>4. reading' # Nothing => reading'.id # 0
  BY <1>0 DEF StepsAreSound
<1> QED
  BY <1>2, <1>3, <1>4, QuietKeeps

\* Before its stream an execution has none.
LEMMA NoStreamYet ==
  ASSUME BridgeInv, NEW e \in Executions, ~Streams(e)
  PROVE  wire[e] = {}
  BY DEF BridgeInv, StepsAreSound

LEMMA OldStates ==
  ASSUME BridgeInv, NEW e \in Executions
  PROVE  exec[e] \in ExecutionStates
  BY DEF BridgeInv, TypeOK

LEMMA CallKeeps ==
  ASSUME BridgeInv, NEW e \in Executions, Call(e) \/ Begin(e)
  PROVE  BridgeInv'
<1>0. TypeOK /\ exec[e] \in ExecutionStates
  BY OldStates DEF BridgeInv
<1>1. PICK old \in ExecutionStates : old = exec[e]
  BY <1>0
<1>2. client \in 0..MaxChildren /\ client \in Nat
  BY <1>0, Bounds DEF TypeOK
<1>3. UNCHANGED <<codexVars, workerVars, wire, content, approvals, reading>>
  BY DEF Call, Begin
<1>4. old.step \in {"idle", "call"} /\ wire[e] = {}
  <2>1. old.step \in {"idle", "call"}
    BY <1>1 DEF Call, Begin
  <2> QED
    BY <1>1, <2>1, NoStreamYet DEF Streams
<1>5. \E q : /\ Turns(e, q)
             /\ q.step \in {"mkdir", "wait", "call"}
             /\ q.step = "wait" => q.peer # 0
             /\ Starts(q) => Starts(old)
  <2>1. CASE Call(e) /\ client = 0
    <3> DEFINE q == [old EXCEPT !.step = "mkdir"]
    <3>1. q \in ExecutionStates /\ q.step = "mkdir" /\ q.call = old.call
      BY DEF ExecutionStates
    <3>2. exec' = [exec EXCEPT ![e] = q]
      BY <1>1, <2>1 DEF Call, Step
    <3> HIDE DEF q
    <3> QED
      BY <1>1, <2>1, <3>1, <3>2 DEF Turns, Starts, Call
  <2>2. CASE Call(e) /\ client # 0
    <3> DEFINE q == [old EXCEPT !.step = "wait", !.peer = client]
    <3>1. q \in ExecutionStates /\ q.step = "wait" /\ q.call = old.call /\ q.peer = client
      BY <1>2 DEF ExecutionStates
    <3>2. exec' = [exec EXCEPT ![e] = q]
      BY <1>1, <2>2 DEF Call
    <3> HIDE DEF q
    <3> QED
      BY <1>1, <2>2, <3>1, <3>2 DEF Turns, Starts, Call
  <2>3. CASE Begin(e)
    <3>1. PICK call \in {"resume", "start"} : exec' = [exec EXCEPT ![e].step = "call", ![e].call = call]
      BY <2>3 DEF Begin
    <3> DEFINE q == [old EXCEPT !.step = "call", !.call = call]
    <3>2. q \in ExecutionStates /\ q.step = "call" /\ q.call = call
      BY DEF ExecutionStates, Calls
    <3>3. exec' = [exec EXCEPT ![e] = q]
      BY <1>1, <3>1
    <3> HIDE DEF q
    <3>4. Starts(old)
      BY <1>1, <2>3 DEF Starts, Begin
    <3> QED
      BY <3>2, <3>3, <3>4 DEF Turns
  <2> QED
    BY <2>1, <2>2, <2>3
<1>6. PICK q : /\ Turns(e, q)
               /\ q.step \in {"mkdir", "wait", "call"}
               /\ q.step = "wait" => q.peer # 0
               /\ Starts(q) => Starts(old)
  BY <1>5
<1>7. TypeOK'
  <2>1. exec' \in [Executions -> ExecutionStates]
    BY <1>0, <1>6, ExecutionTurns
  <2> QED
    BY <1>0, <1>3, <2>1 DEF TypeOK, codexVars, workerVars
<1>8. \A f \in Executions : turn[f] \in {"running", "asking"} => host[f] # 0
  BY DEF BridgeInv, StepsAreSound
<1>9. /\ UNCHANGED <<cursor, buffer, dropped, pieces, content, reading, turn, host>> /\ wire' = wire
      /\ wire'[e] = {} /\ q.step \notin {"initialize", "decide", "resolve", "consume", "connect", "done"}
      /\ Starts(q) => Starts(exec[e])
  BY <1>1, <1>3, <1>4, <1>6 DEF codexVars, workerVars
<1> QED
  BY <1>6, <1>7, <1>8, <1>9, OneTurns

LEMMA StartKeeps ==
  ASSUME BridgeInv, NEW e \in Executions, Start(e)
  PROVE  BridgeInv'
<1>0. TypeOK /\ exec[e] \in ExecutionStates
  BY OldStates DEF BridgeInv
<1>1. PICK old \in ExecutionStates : old = exec[e]
  BY <1>0
<1>2. client \in 0..MaxChildren /\ old.peer \in 0..MaxChildren /\ Children \subseteq 0..MaxChildren
      /\ \A k \in Children : k # 0
  <2>1. client \in 0..MaxChildren
    BY <1>0 DEF TypeOK
  <2>2. old.peer \in 0..MaxChildren
    BY StateSets
  <2>3. Children \subseteq 0..MaxChildren /\ \A k \in Children : k # 0
    BY Bounds DEF Children
  <2> QED
    BY <2>1, <2>2, <2>3
<1>3. UNCHANGED <<codexVars, pending, cursor, buffer, dropped, restarts, wire, content, approvals, reading>>
  BY DEF Start, Spawn, SpawnFails, Initialized, InitializeFails
<1>4. old.step \in {"mkdir", "initialize"} /\ wire[e] = {} /\ (old.step = "initialize" => old.peer \in Children)
  <2>1. old.step \in {"mkdir", "initialize"}
    BY <1>1 DEF Start, Spawn, SpawnFails, Initialized, InitializeFails
  <2>2. wire[e] = {}
    BY <1>1, <2>1, NoStreamYet DEF Streams
  <2>3. old.step = "initialize" => old.peer # 0
    BY <1>1 DEF BridgeInv, StepsAreSound
  <2>4. old.peer # 0 => old.peer \in Children
    BY <1>2, Bounds DEF Children
  <2> QED
    BY <2>1, <2>2, <2>3, <2>4
<1>5. /\ Rejected(old) \in ExecutionStates /\ Rejected(old).step \in {"call", "failed"}
      /\ Starts(Rejected(old)) => Starts(old)
  BY <1>4, RejectedIs
<1>6. /\ \E q : /\ Turns(e, q)
                /\ q.step \in {"initialize", "wait", "call", "failed"}
                /\ q.step \in {"initialize", "wait"} => q.peer # 0
                /\ Starts(q) => Starts(old)
      /\ child' \in [Children -> {"none", "starting", "ready", "stopping", "exited"}]
      /\ client' \in 0..MaxChildren /\ initialized' \in BOOLEAN
  <2>0. /\ child \in [Children -> {"none", "starting", "ready", "stopping", "exited"}]
        /\ initialized \in BOOLEAN /\ 0 \in 0..MaxChildren
    BY <1>0, Bounds DEF TypeOK
  <2>1. CASE Spawn(e)
    <3>1. PICK k \in Children : /\ child' = [child EXCEPT ![k] = "starting"]
                                /\ client' = k
                                /\ exec' = [exec EXCEPT ![e].step = "initialize", ![e].peer = k]
      BY <2>1 DEF Spawn
    <3> DEFINE q == [old EXCEPT !.step = "initialize", !.peer = k]
    <3>2. q \in ExecutionStates /\ q.step = "initialize" /\ q.call = old.call /\ q.peer = k
      BY <1>2 DEF ExecutionStates
    <3>3. exec' = [exec EXCEPT ![e] = q]
      BY <1>1, <3>1
    <3>4. initialized' = initialized
      BY <2>1 DEF Spawn
    <3>5. old.step = "mkdir"
      BY <1>1, <2>1 DEF Spawn
    <3> HIDE DEF q
    <3>6. Turns(e, q) /\ (Starts(q) => Starts(old))
      BY <3>2, <3>3, <3>5 DEF Turns, Starts
    <3>7. child' \in [Children -> {"none", "starting", "ready", "stopping", "exited"}]
      BY <2>0, <3>1
    <3>8. client' \in 0..MaxChildren
      BY <1>2, <3>1
    <3> QED
      BY <1>2, <2>0, <3>2, <3>4, <3>6, <3>7, <3>8
  <2>2. CASE SpawnFails(e)
    <3>1. Turns(e, Rejected(old))
      BY <1>1, <1>5, <2>2 DEF Turns, SpawnFails
    <3> QED
      BY <1>5, <2>0, <2>2, <3>1 DEF SpawnFails
  <2>3. CASE Initialized(e)
    <3>0. child' = [child EXCEPT ![exec[e].peer] = "ready"] /\ initialized' = TRUE /\ client' = client
      BY <2>3 DEF Initialized
    <3>1. child' \in [Children -> {"none", "starting", "ready", "stopping", "exited"}]
      BY <2>0, <3>0
    <3>2. CASE client = 0
      <4>1. Turns(e, Rejected(old))
        BY <1>1, <1>5, <2>3, <3>2 DEF Turns, Initialized
      <4> QED
        BY <1>2, <1>5, <3>0, <3>1, <4>1
    <3>3. CASE client # 0
      <4> DEFINE q == [old EXCEPT !.step = "wait", !.peer = client]
      <4>1. q \in ExecutionStates /\ q.step = "wait" /\ q.call = old.call /\ q.peer = client
        BY <1>2 DEF ExecutionStates
      <4>2. exec' = [exec EXCEPT ![e] = q]
        BY <1>1, <2>3, <3>3 DEF Initialized
      <4> HIDE DEF q
      <4>3. Turns(e, q) /\ (Starts(q) => Starts(old))
        BY <1>4, <4>1, <4>2 DEF Turns, Starts
      <4> QED
        BY <1>2, <3>0, <3>1, <3>3, <4>1, <4>3
    <3> QED
      BY <3>2, <3>3
  <2>4. CASE InitializeFails(e)
    <3>1. Turns(e, Rejected(old))
      BY <1>1, <1>5, <2>4 DEF Turns, InitializeFails
    <3>2. child' \in [Children -> {"none", "starting", "ready", "stopping", "exited"}]
      BY <2>0, <2>4 DEF InitializeFails
    <3>3. client' = 0 /\ initialized' = initialized
      BY <2>4 DEF InitializeFails
    <3> QED
      BY <1>5, <2>0, <3>1, <3>2, <3>3
  <2> QED
    BY <2>1, <2>2, <2>3, <2>4 DEF Start
<1>7. PICK q : /\ Turns(e, q)
               /\ q.step \in {"initialize", "wait", "call", "failed"}
               /\ q.step \in {"initialize", "wait"} => q.peer # 0
               /\ Starts(q) => Starts(old)
  BY <1>6
<1>8. TypeOK'
  <2>1. exec' \in [Executions -> ExecutionStates]
    BY <1>0, <1>7, ExecutionTurns
  <2> QED
    BY <1>0, <1>3, <1>6, <2>1 DEF TypeOK, codexVars
<1>9. \A f \in Executions : turn[f] \in {"running", "asking"} => host[f] # 0
  BY DEF BridgeInv, StepsAreSound
<1>10. /\ UNCHANGED <<cursor, buffer, dropped, pieces, content, reading, turn, host>> /\ wire' = wire
       /\ wire'[e] = {} /\ q.step \notin {"decide", "resolve", "consume", "connect", "done"}
       /\ Starts(q) => Starts(exec[e])
  BY <1>1, <1>3, <1>4, <1>7 DEF codexVars
<1> QED
  BY <1>7, <1>8, <1>9, <1>10, OneTurns

\* A call that fails: it may have started a turn nevertheless.
LEMMA CallFailsKeeps ==
  ASSUME BridgeInv, NEW e \in Executions, CallFails(e)
  PROVE  BridgeInv'
<1>0. TypeOK /\ StepsAreSound /\ exec[e] \in ExecutionStates
  BY OldStates DEF BridgeInv
<1>1. PICK old \in ExecutionStates : old = exec[e]
  BY <1>0
<1>2. UNCHANGED <<thread, pieces, asked, told, workerVars, wire, content, approvals, reading>>
      /\ exec' = [exec EXCEPT ![e] = Rejected(old)] /\ old.step = "wait"
  BY <1>1 DEF CallFails
<1>3. /\ Rejected(old) \in ExecutionStates /\ Rejected(old).step \in {"call", "failed"}
      /\ Starts(Rejected(old)) => Starts(old)
  BY <1>2, RejectedIs
<1>4. wire[e] = {} /\ old.peer # 0 /\ old.peer \in 0..MaxChildren
  BY <1>0, <1>1, <1>2, NoStreamYet, StateSets DEF Streams, StepsAreSound
<1>5. Turns(e, Rejected(old))
  BY <1>2, <1>3 DEF Turns
<1>6. \/ UNCHANGED <<turn, host>>
      \/ /\ old.call = "turn"
         /\ turn' = [turn EXCEPT ![e] = "running"] /\ host' = [host EXCEPT ![e] = old.peer]
  BY <1>1 DEF CallFails
<1>7. turn' \in [Executions -> {"none", "running", "asking", "completed", "failed", "lost"}]
      /\ host' \in [Executions -> 0..MaxChildren]
  BY <1>0, <1>4, <1>6 DEF TypeOK
<1>8. TypeOK'
  <2>1. exec' \in [Executions -> ExecutionStates]
    BY <1>0, <1>5, ExecutionTurns
  <2> QED
    BY <1>0, <1>2, <1>7, <2>1 DEF TypeOK, workerVars
<1>9. \A f \in Executions \ {e} : turn'[f] = turn[f] /\ host'[f] = host[f]
  BY <1>0, <1>6 DEF TypeOK
<1>10. /\ turn[e] \in Ends => turn'[e] = turn[e]
       /\ turn'[e] = "none" => turn[e] = "none"
       /\ turn'[e] \in {"running", "asking"} => host'[e] # 0
       /\ Starts(Rejected(old)) => turn'[e] = turn[e]
  <2>1. CASE UNCHANGED <<turn, host>>
    BY <1>0, <2>1 DEF StepsAreSound
  <2>2. CASE /\ old.call = "turn"
             /\ turn' = [turn EXCEPT ![e] = "running"] /\ host' = [host EXCEPT ![e] = old.peer]
    <3>1. turn[e] = "none"
      BY <1>0, <1>1, <1>2, <2>2 DEF StepsAreSound, Starts
    <3>2. turn'[e] = "running" /\ host'[e] = old.peer
      BY <1>0, <2>2 DEF TypeOK
    <3>3. Rejected(old).step = "failed"
      BY <2>2 DEF Rejected
    <3> QED
      BY <1>4, <3>1, <3>2, <3>3 DEF Ends, Starts
  <2> QED
    BY <1>6, <2>1, <2>2
<1>11. /\ UNCHANGED <<cursor, buffer, dropped, pieces, content, reading>> /\ wire' = wire /\ wire'[e] = {}
  BY <1>2, <1>4 DEF workerVars
<1> DEFINE q == Rejected(old)
<1>12. /\ q.step \notin {"done", "initialize", "wait", "decide", "resolve", "connect", "consume"}
       /\ Starts(q) => Starts(exec[e]) /\ turn'[e] = turn[e]
  BY <1>1, <1>3, <1>10
<1> HIDE DEF q
<1>13. Turns(e, q)
  BY <1>5 DEF q
<1> QED
  BY <1>8, <1>9, <1>10, <1>11, <1>12, <1>13, OneTurns

\* A decision: the turn that gets it runs on.
LEMMA ReceivesIs ==
  ASSUME TypeOK, NEW k \in Children, NEW id
  PROVE  /\ Receives(k, id) \in [Executions -> {"none", "running", "asking", "completed", "failed", "lost"}]
         /\ \A f \in Executions : \/ Receives(k, id)[f] = turn[f]
                                  \/ (turn[f] = "asking" /\ Receives(k, id)[f] = "running")
<1>0. turn \in [Executions -> {"none", "running", "asking", "completed", "failed", "lost"}]
      /\ asked[k] \in Seq(Executions)
  BY DEF TypeOK
<1>1. CASE id \notin DOMAIN asked[k]
  BY <1>0, <1>1 DEF Receives
<1>2. CASE id \in DOMAIN asked[k]
  <2>1. PICK g \in Executions : g = asked[k][id]
    BY <1>0, <1>2
  <2>2. Receives(k, id) = [turn EXCEPT ![g] = IF @ = "asking" THEN "running" ELSE @]
    BY <1>2, <2>1 DEF Receives
  <2> QED
    BY <1>0, <2>2
<1> QED
  BY <1>1, <1>2

LEMMA ResolveKeeps ==
  ASSUME BridgeInv, NEW e \in Executions, Resolve(e)
  PROVE  BridgeInv'
<1>0. TypeOK /\ StepsAreSound /\ exec[e] \in ExecutionStates
  BY OldStates DEF BridgeInv
<1>1. PICK old \in ExecutionStates : old = exec[e]
  BY <1>0
<1>2. /\ UNCHANGED <<thread, host, pieces, asked, child, client, initialized, cursor, buffer, dropped,
                     restarts, content, approvals, reading>>
      /\ old.step = "resolve"
  BY <1>1 DEF Resolve
<1>3. old.id # 0 /\ old.id \in Ids
  <2>1. old.id # 0
    BY <1>0, <1>1, <1>2 DEF StepsAreSound
  <2>2. old.id \in 0..MaxAsks
    BY StateSets
  <2> QED
    BY <2>1, <2>2, Bounds DEF Ids
<1>4. ~Starts(old) /\ turn \in [Executions -> {"none", "running", "asking", "completed", "failed", "lost"}]
      /\ \A f \in Executions : turn[f] \in {"running", "asking"} => host[f] # 0
  BY <1>0, <1>2 DEF Starts, TypeOK, StepsAreSound
<1>5. ASSUME NEW step \in {"failed", "consume"}
      PROVE  LET q == [old EXCEPT !.step = step, !.row = NoRow]
             IN  q \in ExecutionStates /\ q.step = step
  <2>1. NoRow \in Rows
    BY DEF NoRow, Rows
  <2> QED
    BY <2>1 DEF ExecutionStates
<1>6. CASE pending[old.id] = NoAsk \/ client = 0
  <2> DEFINE q == [old EXCEPT !.step = "failed", !.row = NoRow]
  <2>1. q \in ExecutionStates /\ q.step = "failed"
    BY <1>5
  <2>2. /\ exec' = [exec EXCEPT ![e] = q] /\ wire' = [wire EXCEPT ![e] = {}]
        /\ UNCHANGED <<turn, told, pending>>
    BY <1>1, <1>6 DEF Resolve
  <2> HIDE DEF q
  <2>3. Turns(e, q)
    BY <2>1, <2>2 DEF Turns
  <2>4. wire' \in [Executions -> SUBSET Events] /\ wire'[e] = {}
    BY <1>0, <2>2 DEF TypeOK
  <2>5. TypeOK'
    <3>1. exec' \in [Executions -> ExecutionStates]
      BY <1>0, <2>3, ExecutionTurns
    <3> QED
      BY <1>0, <1>2, <2>2, <2>4, <3>1 DEF TypeOK
  <2>6. ~Starts(q)
    BY <2>1 DEF Starts
  <2> QED
    BY <1>2, <1>4, <2>1, <2>2, <2>3, <2>4, <2>5, <2>6, OneTurns
<1>7. CASE pending[old.id] # NoAsk /\ client # 0
  <2> DEFINE q == [old EXCEPT !.step = "consume", !.row = NoRow]
  <2>1. q \in ExecutionStates /\ q.step = "consume"
    BY <1>5
  <2>2. /\ exec' = [exec EXCEPT ![e] = q] /\ wire' = wire
        /\ pending' = [pending EXCEPT ![old.id] = NoAsk]
        /\ told' = told \cup {[process |-> client, id |-> old.id, of |-> old.row.of]}
        /\ turn' = Receives(client, old.id)
    BY <1>1, <1>7 DEF Resolve
  <2> HIDE DEF q
  <2>3. Turns(e, q)
    BY <2>1, <2>2 DEF Turns
  <2>4. client \in Children
    BY <1>0, <1>7, Bounds DEF TypeOK, Children
  <2>5. /\ turn' \in [Executions -> {"none", "running", "asking", "completed", "failed", "lost"}]
        /\ \A f \in Executions : turn'[f] = turn[f] \/ (turn[f] = "asking" /\ turn'[f] = "running")
    <3> DEFINE r == Receives(client, old.id)
    <3>1. /\ r \in [Executions -> {"none", "running", "asking", "completed", "failed", "lost"}]
          /\ \A f \in Executions : r[f] = turn[f] \/ (turn[f] = "asking" /\ r[f] = "running")
      BY <1>0, <2>4, ReceivesIs
    <3> HIDE DEF r
    <3>2. turn' = r
      BY <2>2 DEF r
    <3> QED
      BY <3>1, <3>2
  <2>6. TypeOK'
    <3>1. exec' \in [Executions -> ExecutionStates]
      BY <1>0, <2>3, ExecutionTurns
    <3>2. pending' \in [Ids -> (Children \X Executions) \cup {NoAsk}]
      BY <1>0, <2>2 DEF TypeOK
    <3>3. \A t \in told' : t.process \in Children /\ t.id \in Ids
      BY <1>0, <1>3, <2>2, <2>4 DEF TypeOK
    <3> QED
      BY <1>0, <1>2, <2>2, <2>5, <3>1, <3>2, <3>3 DEF TypeOK
  <2>7. ~Starts(q) /\ Streams(e)
    BY <1>1, <1>2, <2>1 DEF Starts, Streams
  <2>8. /\ turn[e] \in Ends => turn'[e] = turn[e]
        /\ turn'[e] = "none" => turn[e] = "none"
        /\ turn'[e] \in {"running", "asking"} => host'[e] # 0
    BY <1>2, <1>4, <2>5 DEF Ends
  <2> QED
    BY <1>2, <2>1, <2>2, <2>3, <2>5, <2>6, <2>7, <2>8, OneTurns
<1> QED
  BY <1>6, <1>7

LEMMA DecidedKeeps ==
  ASSUME BridgeInv, NEW e \in Executions, Decided(e) \/ Abort(e)
  PROVE  BridgeInv'
<1>0. TypeOK /\ StepsAreSound /\ exec[e] \in ExecutionStates
  BY OldStates DEF BridgeInv
<1>1. PICK old \in ExecutionStates : old = exec[e]
  BY <1>0
<1>2. UNCHANGED <<codexVars, workerVars, content, approvals, reading>>
      /\ \A f \in Executions : turn[f] \in {"running", "asking"} => host[f] # 0
  BY <1>0 DEF Decided, Abort, StepsAreSound
<1>3. CASE Decided(e)
  <2>1. old.step = "decide" /\ old.id # 0 /\ old.id \in Ids
    <3>1. old.step = "decide" /\ old.id # 0
      BY <1>0, <1>1, <1>3 DEF Decided, StepsAreSound
    <3>2. old.id \in 0..MaxAsks
      BY StateSets
    <3> QED
      BY <3>1, <3>2, Bounds DEF Ids
  <2>2. PICK row \in Rows : row = approvals[old.id]
    BY <1>0, <2>1 DEF TypeOK
  <2> DEFINE q == [old EXCEPT !.step = "resolve", !.row = row]
  <2>3. q \in ExecutionStates /\ q.step = "resolve" /\ q.id = old.id
    BY DEF ExecutionStates
  <2>4. exec' = [exec EXCEPT ![e] = q] /\ wire' = wire
    BY <1>1, <1>3, <2>2 DEF Decided
  <2> HIDE DEF q
  <2>5. Turns(e, q) /\ ~Starts(q) /\ Streams(e)
    BY <1>1, <2>1, <2>3, <2>4 DEF Turns, Starts, Streams
  <2>6. TypeOK'
    <3>1. exec' \in [Executions -> ExecutionStates]
      BY <1>0, <2>5, ExecutionTurns
    <3> QED
      BY <1>0, <1>2, <2>4, <3>1 DEF TypeOK, codexVars, workerVars
  <2>7. UNCHANGED <<cursor, buffer, dropped, pieces, content, reading, turn, host>>
    BY <1>2 DEF codexVars, workerVars
  <2> QED
    BY <1>2, <2>1, <2>3, <2>4, <2>5, <2>6, <2>7, OneTurns
<1>4. CASE Abort(e)
  <2> DEFINE q == [Idle EXCEPT !.step = "call", !.call = "interrupt"]
  <2>1. q \in ExecutionStates /\ q.step = "call" /\ q.call = "interrupt"
    <3>1. Idle \in ExecutionStates
      BY Bounds DEF Idle, ExecutionStates, Rows, NoRow, Calls
    <3>2. "interrupt" \in Calls
      BY DEF Calls
    <3> QED
      BY <3>1, <3>2 DEF ExecutionStates
  <2>2. exec' = [exec EXCEPT ![e] = q] /\ wire' = [wire EXCEPT ![e] = {}]
    BY <1>4 DEF Abort
  <2> HIDE DEF q
  <2>3. Turns(e, q) /\ ~Starts(q)
    BY <2>1, <2>2 DEF Turns, Starts
  <2>4. wire' \in [Executions -> SUBSET Events] /\ wire'[e] = {}
    BY <1>0, <2>2 DEF TypeOK
  <2>5. TypeOK'
    <3>1. exec' \in [Executions -> ExecutionStates]
      BY <1>0, <2>3, ExecutionTurns
    <3> QED
      BY <1>0, <1>2, <2>4, <3>1 DEF TypeOK, codexVars, workerVars
  <2>6. UNCHANGED <<cursor, buffer, dropped, pieces, content, reading, turn, host>>
    BY <1>2 DEF codexVars, workerVars
  <2> QED
    BY <1>2, <2>1, <2>2, <2>3, <2>4, <2>5, <2>6, OneTurns
<1> QED
  BY <1>3, <1>4

\* The user's steps and the exit of a process change the step of no execution
\* that streams.
LEMMA ReadKeeps ==
  ASSUME BridgeInv, NEW i \in Ids, ReadApproval(i)
  PROVE  BridgeInv'
<1>0. TypeOK /\ StepsAreSound
  BY DEF BridgeInv
<1>1. UNCHANGED <<codexVars, workerVars, exec, wire, content, approvals>>
      /\ reading' = [id |-> i, row |-> approvals[i]]
  BY DEF ReadApproval
<1>2. i \in 0..MaxAsks /\ i # 0 /\ approvals[i] \in Rows
  BY <1>0, Bounds DEF Ids, TypeOK
<1>3. TypeOK'
  <2>1. reading' \in [id : 0..MaxAsks, row : Rows]
    BY <1>1, <1>2
  <2> QED
    BY <1>0, <1>1, <2>1 DEF TypeOK, codexVars, workerVars
<1>4. reading'.id # 0
  BY <1>1, <1>2
<1>5. ASSUME NEW e \in Executions
      PROVE  Onward(e) /\ (Streams(e)' <=> Streams(e)) /\ (wire'[e] # {} => Streams(e)')
  BY <1>0, <1>1 DEF Onward, Streams, StepsAreSound, codexVars
<1>6. UNCHANGED <<cursor, buffer, dropped, pieces, content, exec, wire>>
  BY <1>1 DEF codexVars, workerVars
<1> QED
  BY <1>3, <1>4, <1>5, <1>6, QuietKeeps

LEMMA DecideKeeps ==
  ASSUME BridgeInv, NEW status \in {"approved", "denied"}, Decide(status)
  PROVE  BridgeInv'
<1>0. TypeOK /\ StepsAreSound
  BY DEF BridgeInv
<1>1. UNCHANGED <<codexVars, workerVars, exec, wire, content>> /\ reading' = Nothing
      /\ approvals' = [approvals EXCEPT ![reading.id] = [reading.row EXCEPT !.status = status]]
  BY DEF Decide
<1>2. [reading.row EXCEPT !.status = status] \in Rows
  <2>1. PICK row \in Rows : row = reading.row
    BY <1>0 DEF TypeOK
  <2>2. [row EXCEPT !.status = status] \in Rows
    BY DEF Rows
  <2> QED
    BY <2>1, <2>2
<1>3. TypeOK'
  <2>1. Nothing \in [id : 0..MaxAsks, row : Rows]
    BY Bounds DEF Nothing, Rows, NoRow
  <2>2. approvals' \in [Ids -> Rows]
    BY <1>0, <1>1, <1>2 DEF TypeOK
  <2> QED
    BY <1>0, <1>1, <2>1, <2>2 DEF TypeOK, codexVars, workerVars
<1>4. ASSUME NEW e \in Executions
      PROVE  Onward(e) /\ (Streams(e)' <=> Streams(e)) /\ (wire'[e] # {} => Streams(e)')
  BY <1>0, <1>1 DEF Onward, Streams, StepsAreSound, codexVars
<1>5. UNCHANGED <<cursor, buffer, dropped, pieces, content, exec, wire>>
  BY <1>1 DEF codexVars, workerVars
<1> QED
  BY <1>1, <1>3, <1>4, <1>5, QuietKeeps

LEMMA ExitKeeps ==
  ASSUME BridgeInv, NEW k \in Children, Exit(k)
  PROVE  BridgeInv'
<1>0. TypeOK /\ StepsAreSound
  BY DEF BridgeInv
<1>1. /\ UNCHANGED <<thread, host, pieces, asked, told, pending, cursor, buffer, dropped, restarts,
                     wire, content, approvals, reading>>
      /\ child' = [child EXCEPT ![k] = "exited"] /\ client' = 0 /\ initialized' = FALSE
  BY DEF Exit
<1>2. turn' = [e \in Executions |-> IF e \in TurnsOf(k) THEN "lost" ELSE turn[e]]
  BY DEF Exit
<1>3. ASSUME NEW e \in Executions
      PROVE  /\ exec'[e] \in ExecutionStates
             /\ \/ exec'[e] = exec[e]
                \/ /\ exec[e].step = "wait" /\ exec'[e] = Rejected(exec[e])
                   /\ exec'[e].step \in {"call", "failed"}
                   /\ Starts(exec'[e]) => Starts(exec[e])
  <2>1. exec'[e] = IF exec[e].step = "initialize" /\ exec[e].peer = k THEN exec[e] ELSE Closed(exec[e], k)
    BY DEF Exit
  <2>2. exec[e] \in ExecutionStates
    BY OldStates
  <2>3. exec'[e] = exec[e] \/ (exec[e].step = "wait" /\ exec'[e] = Rejected(exec[e]))
    BY <2>1 DEF Closed
  <2>4. /\ Rejected(exec[e]) \in ExecutionStates /\ Rejected(exec[e]).step \in {"call", "failed"}
        /\ exec[e].step = "wait" /\ Starts(Rejected(exec[e])) => Starts(exec[e])
    BY <2>2, RejectedIs
  <2>5. CASE exec'[e] = exec[e]
    BY <2>2, <2>5
  <2>6. CASE exec[e].step = "wait" /\ exec'[e] = Rejected(exec[e])
    BY <2>4, <2>6
  <2> QED
    BY <2>3, <2>5, <2>6
<1>4. turn' \in [Executions -> {"none", "running", "asking", "completed", "failed", "lost"}]
      /\ \A e \in Executions : turn'[e] = turn[e] \/ (turn[e] \in {"running", "asking"} /\ turn'[e] = "lost")
  BY <1>0, <1>2 DEF TypeOK, TurnsOf
<1>5. TypeOK'
  <2>1. exec' \in [Executions -> ExecutionStates]
    <3>1. exec' = [e \in Executions |-> exec'[e]]
      BY DEF Exit
    <3> QED
      BY <1>3, <3>1
  <2>2. child' \in [Children -> {"none", "starting", "ready", "stopping", "exited"}]
    BY <1>0, <1>1 DEF TypeOK
  <2>3. client' \in 0..MaxChildren
    BY <1>1, Bounds
  <2>4. initialized' \in BOOLEAN
    BY <1>1
  <2> QED
    BY <1>0, <1>1, <1>4, <2>1, <2>2, <2>3, <2>4 DEF TypeOK
<1>6. ASSUME NEW e \in Executions
      PROVE  /\ Onward(e)
             /\ exec'[e].step = "done" => exec[e].step = "done"
             /\ Streams(e)' <=> Streams(e)
             /\ wire'[e] # {} => Streams(e)'
  <2>1. turn'[e] = turn[e] \/ (turn[e] \in {"running", "asking"} /\ turn'[e] = "lost")
    BY <1>4
  <2>2. Starts(exec[e]) => turn[e] = "none"
    BY <1>0 DEF StepsAreSound
  <2>3. \/ exec'[e] = exec[e]
        \/ exec[e].step = "wait" /\ exec'[e].step \in {"call", "failed"} /\ (Starts(exec'[e]) => Starts(exec[e]))
    BY <1>3
  <2>4. Streams(e)' <=> Streams(e)
    BY <2>3 DEF Streams
  <2>5. Starts(exec'[e]) => Starts(exec[e]) /\ turn'[e] = turn[e]
    BY <2>1, <2>2, <2>3
  <2>6. Onward(e)
    BY <1>0, <1>1, <2>1, <2>3, <2>5 DEF Onward, StepsAreSound, Ends
  <2> QED
    BY <1>0, <1>1, <2>3, <2>4, <2>6 DEF StepsAreSound
<1>7. reading' # Nothing => reading'.id # 0
  BY <1>0, <1>1 DEF StepsAreSound
<1> QED
  BY <1>1, <1>5, <1>6, <1>7, QuietKeeps

\* A turn that runs has an event: what remains to show.
LEMMA EventKeeps ==
  ASSUME BridgeInv, TypeOK', NEW e \in Executions,
         NEW kind \in {"delta", "ask", "completed", "failed"}, NEW id \in 0..MaxAsks, kind = "ask" => id # 0,
         AppendEvent(e, kind, id),
         turn[e] \in {"running", "asking"}, turn'[e] # "none", kind \in Ends => turn'[e] = kind,
         \A f \in Executions \ {e} : turn'[f] = turn[f] /\ pieces'[f] = pieces[f] /\ exec'[f] = exec[f],
         pieces'[e] = IF kind = "delta" THEN pieces[e] + 1 ELSE pieces[e],
         UNCHANGED <<host, content, reading>>,
         exec'[e] = exec[e] \/ (~Streams(e) /\ exec'[e].step = "failed")
  PROVE  BridgeInv'
<1>0. TypeOK /\ StepsAreSound /\ EventsAreSound /\ PiecesAreKept /\ ReplyIsTheTurns
  BY DEF BridgeInv
<1>1. /\ dropped \subseteq dropped'
      /\ EventsAreSound'
      /\ \A x \in buffer' : x \in buffer \/ x.turn = e
      /\ \A f \in Executions :
           /\ f # e \/ ~Streams(f) => wire'[f] = wire[f]
           /\ f # e \/ kind # "delta" =>
                 /\ Cardinality(Deltas(buffer', f)) <= Cardinality(Deltas(buffer, f))
                 /\ f \notin dropped' => Cardinality(Deltas(buffer', f)) = Cardinality(Deltas(buffer, f))
                 /\ Cardinality(Deltas(wire'[f], f)) = Cardinality(Deltas(wire[f], f))
      /\ kind = "delta" =>
           /\ Cardinality(Deltas(buffer', e)) <= Cardinality(Deltas(buffer, e)) + 1
           /\ e \notin dropped' => Cardinality(Deltas(buffer', e)) = Cardinality(Deltas(buffer, e)) + 1
           /\ Cardinality(Deltas(wire'[e], e)) =
                 IF Streams(e) THEN Cardinality(Deltas(wire[e], e)) + 1 ELSE Cardinality(Deltas(wire[e], e))
  <2>1. turn[e] \notin Ends /\ \A f \in Executions \ {e} : turn'[f] = turn[f]
    BY DEF Ends
  <2> QED
    BY <1>0, <2>1, AppendKeeps
<1>2. \A f \in Executions : Streams(f)' <=> Streams(f)
  BY DEF Streams
<1>3. StepsAreSound'
  <2> SUFFICES ASSUME NEW f \in Executions
               PROVE  /\ exec'[f].step \in {"initialize", "wait"} => exec'[f].peer # 0
                      /\ exec'[f].step \in {"decide", "resolve"} => exec'[f].id # 0
                      /\ turn'[f] \in {"running", "asking"} => host'[f] # 0
                      /\ Starts(exec'[f]) => turn'[f] = "none"
                      /\ turn'[f] = "none" => pieces'[f] = 0 /\ wire'[f] = {} /\ \A x \in buffer' : x.turn # f
                      /\ Starts(exec'[f]) \/ exec'[f].step = "connect" => content'[f] = 0
                      /\ wire'[f] # {} => Streams(f)'
    BY <1>0 DEF StepsAreSound
  <2>1. CASE f # e
    <3>1. /\ exec'[f] = exec[f] /\ turn'[f] = turn[f] /\ pieces'[f] = pieces[f] /\ wire'[f] = wire[f]
          /\ host'[f] = host[f] /\ content'[f] = content[f]
      BY <1>1, <2>1
    <3>2. (\A x \in buffer : x.turn # f) => \A x \in buffer' : x.turn # f
      BY <1>1, <2>1
    <3> QED
      BY <1>0, <1>2, <3>1, <3>2 DEF StepsAreSound
  <2>2. CASE f = e
    <3>1. ~Starts(exec[e]) /\ host'[e] # 0 /\ content'[e] = content[e]
      BY <1>0 DEF StepsAreSound
    <3>2. ~Starts(exec'[e])
      BY <3>1 DEF Starts
    <3>3. wire'[e] # {} => Streams(e)
      BY <1>0, <1>1 DEF StepsAreSound
    <3> QED
      BY <1>0, <1>2, <2>2, <3>1, <3>2, <3>3 DEF StepsAreSound
  <2> QED
    BY <2>1, <2>2
<1>4. PiecesAreKept'
  <2> SUFFICES ASSUME NEW f \in Executions
               PROVE  /\ Cardinality(Deltas(buffer', f)) <= pieces'[f]
                      /\ f \notin dropped' => Cardinality(Deltas(buffer', f)) = pieces'[f]
                      /\ content[f] + Cardinality(Deltas(wire'[f], f)) <= pieces'[f]
                      /\ Streams(f) /\ f \notin dropped' =>
                            content[f] + Cardinality(Deltas(wire'[f], f)) = pieces'[f]
    BY <1>2 DEF PiecesAreKept
  <2>1. /\ Cardinality(Deltas(buffer, f)) <= pieces[f]
        /\ f \notin dropped => Cardinality(Deltas(buffer, f)) = pieces[f]
        /\ content[f] + Cardinality(Deltas(wire[f], f)) <= pieces[f]
        /\ Streams(f) /\ f \notin dropped => content[f] + Cardinality(Deltas(wire[f], f)) = pieces[f]
    BY <1>0 DEF PiecesAreKept
  <2>2. pieces[f] \in Nat /\ content[f] \in Nat
    BY <1>0, Bounds DEF TypeOK
  <2>3. IsFiniteSet(buffer) /\ IsFiniteSet(wire[f]) /\ IsFiniteSet(buffer') /\ IsFiniteSet(wire'[f])
    BY <1>0, <1>1 DEF EventsAreSound, Sound
  <2>4. /\ Cardinality(Deltas(buffer, f)) \in Nat /\ Cardinality(Deltas(buffer', f)) \in Nat
        /\ Cardinality(Deltas(wire[f], f)) \in Nat /\ Cardinality(Deltas(wire'[f], f)) \in Nat
    BY <2>3, DeltasCount
  <2>5. f \notin dropped' => f \notin dropped
    BY <1>1
  <2>6. CASE f # e \/ kind # "delta"
    <3>1. pieces'[f] = pieces[f]
      BY <2>6
    <3>2. /\ Cardinality(Deltas(buffer', f)) <= Cardinality(Deltas(buffer, f))
          /\ f \notin dropped' => Cardinality(Deltas(buffer', f)) = Cardinality(Deltas(buffer, f))
          /\ Cardinality(Deltas(wire'[f], f)) = Cardinality(Deltas(wire[f], f))
      BY <1>1, <2>6
    <3> QED
      BY <2>1, <2>2, <2>4, <2>5, <3>1, <3>2
  <2>7. CASE f = e /\ kind = "delta"
    <3>1. pieces'[f] = pieces[f] + 1
      BY <2>7
    <3>2. /\ Cardinality(Deltas(buffer', f)) <= Cardinality(Deltas(buffer, f)) + 1
          /\ f \notin dropped' => Cardinality(Deltas(buffer', f)) = Cardinality(Deltas(buffer, f)) + 1
          /\ Cardinality(Deltas(wire'[f], f)) =
                IF Streams(f) THEN Cardinality(Deltas(wire[f], f)) + 1 ELSE Cardinality(Deltas(wire[f], f))
      BY <1>1, <2>7
    <3> QED
      BY <2>1, <2>2, <2>4, <2>5, <3>1, <3>2
  <2> QED
    BY <2>6, <2>7
<1>5. ReplyIsTheTurns'
  <2> SUFFICES ASSUME NEW f \in Executions, exec'[f].step = "done", f \notin dropped'
               PROVE  turn'[f] = "completed" /\ content'[f] = pieces'[f]
    BY DEF ReplyIsTheTurns
  <2>1. exec[f].step = "done" /\ f \notin dropped
    BY <1>1
  <2>2. turn[f] = "completed" /\ content[f] = pieces[f]
    BY <1>0, <2>1 DEF ReplyIsTheTurns
  <2>3. f # e
    BY <2>2
  <2> QED
    BY <2>2, <2>3
<1> QED
  BY <1>1, <1>3, <1>4, <1>5 DEF BridgeInv

LEMMA CodexKeeps ==
  ASSUME BridgeInv, NEW e \in Executions,
         Delta(e) \/ EndTurn(e, "completed") \/ EndTurn(e, "failed") \/ AskApproval(e)
  PROVE  BridgeInv'
<1>0. TypeOK /\ StepsAreSound /\ EventsAreSound
  BY DEF BridgeInv
<1>1. /\ turn[e] = "running"
      /\ UNCHANGED <<thread, host, told, child, client, initialized, restarts, exec, content, approvals, reading>>
  BY DEF Delta, EndTurn, AskApproval
<1>2. turn[e] \notin Ends
  BY <1>1 DEF Ends
<1>3. CASE Delta(e)
  <2>1. /\ pieces[e] < MaxPieces /\ pieces' = [pieces EXCEPT ![e] = @ + 1] /\ AppendEvent(e, "delta", 0)
        /\ UNCHANGED <<turn, asked, pending>>
    BY <1>3 DEF Delta
  <2>2. 0 \in 0..MaxAsks
    BY Bounds
  <2>3. /\ cursor' \in Nat /\ buffer' \in SUBSET Events /\ Cardinality(buffer') <= BufferLimit
        /\ dropped' \in SUBSET Executions /\ wire' \in [Executions -> SUBSET Events]
    BY <1>0, <1>2, <2>1, <2>2, AppendKeeps DEF Ends
  <2>4. pieces' \in [Executions -> 0..MaxPieces] /\ pieces'[e] = pieces[e] + 1
        /\ \A f \in Executions \ {e} : pieces'[f] = pieces[f]
    <3>1. pieces[e] + 1 \in 0..MaxPieces
      BY <1>0, <2>1, Bounds DEF TypeOK
    <3> QED
      BY <1>0, <2>1, <3>1 DEF TypeOK
  <2>5. TypeOK'
    BY <1>0, <1>1, <2>1, <2>3, <2>4 DEF TypeOK
  <2> QED
    BY <1>1, <2>1, <2>2, <2>4, <2>5, EventKeeps DEF Ends
<1>4. ASSUME NEW status \in Ends, EndTurn(e, status) PROVE BridgeInv'
  <2>1. /\ turn' = [turn EXCEPT ![e] = status] /\ AppendEvent(e, status, 0)
        /\ UNCHANGED <<pieces, asked, pending>>
    BY <1>4 DEF EndTurn
  <2>2. 0 \in 0..MaxAsks /\ status \in {"delta", "ask", "completed", "failed"} /\ status # "ask" /\ status # "delta"
        /\ status # "none"
    BY <1>4, Bounds DEF Ends
  <2>3. turn' \in [Executions -> {"none", "running", "asking", "completed", "failed", "lost"}]
        /\ turn'[e] = status /\ \A f \in Executions \ {e} : turn'[f] = turn[f]
    BY <1>0, <1>4, <2>1 DEF TypeOK, Ends
  <2>4. /\ cursor' \in Nat /\ buffer' \in SUBSET Events /\ Cardinality(buffer') <= BufferLimit
        /\ dropped' \in SUBSET Executions /\ wire' \in [Executions -> SUBSET Events]
    BY <1>0, <1>2, <2>1, <2>2, <2>3, AppendKeeps
  <2>5. TypeOK'
    BY <1>0, <1>1, <2>1, <2>3, <2>4 DEF TypeOK
  <2> QED
    BY <1>1, <2>1, <2>2, <2>3, <2>5, EventKeeps
<1>5. CASE AskApproval(e)
  <2> DEFINE k == host[e]
             id == Len(asked[k]) + 1
  <2>1. /\ id \in Ids
        /\ asked' = [asked EXCEPT ![k] = Append(@, e)]
        /\ pending' = [pending EXCEPT ![id] = <<k, e>>]
        /\ AppendEvent(e, "ask", id)
        /\ turn' = [turn EXCEPT ![e] = "asking"]
        /\ UNCHANGED pieces
    BY <1>5 DEF AskApproval
  <2>2. k \in Children
    <3>1. k # 0 /\ k \in 0..MaxChildren
      BY <1>0, <1>1 DEF StepsAreSound, TypeOK
    <3> QED
      BY <3>1, Bounds DEF Children
  <2>3. id \in 0..MaxAsks /\ id # 0 /\ id \in Ids /\ Len(asked[k]) < MaxAsks
    <3>1. Len(asked[k]) \in Nat
      BY <1>0, <2>2 DEF TypeOK
    <3> QED
      BY <2>1, <3>1, Bounds DEF Ids
  <2>4. asked' \in [Children -> Seq(Executions)] /\ \A j \in Children : Len(asked'[j]) <= MaxAsks
    <3>1. Append(asked[k], e) \in Seq(Executions) /\ Len(Append(asked[k], e)) = id
      BY <1>0, <2>2 DEF TypeOK
    <3>2. id <= MaxAsks
      BY <2>3, Bounds
    <3>3. ASSUME NEW j \in Children PROVE Len(asked'[j]) <= MaxAsks
      <4>1. CASE j = k
        BY <1>0, <2>1, <3>1, <3>2, <4>1 DEF TypeOK
      <4>2. CASE j # k
        BY <1>0, <2>1, <4>2 DEF TypeOK
      <4> QED
        BY <4>1, <4>2
    <3> QED
      BY <1>0, <2>1, <3>1, <3>3 DEF TypeOK
  <2>5. pending' \in [Ids -> (Children \X Executions) \cup {NoAsk}]
    BY <1>0, <2>1, <2>2 DEF TypeOK
  <2>6. turn' \in [Executions -> {"none", "running", "asking", "completed", "failed", "lost"}]
        /\ turn'[e] = "asking" /\ \A f \in Executions \ {e} : turn'[f] = turn[f]
    BY <1>0, <2>1 DEF TypeOK
  <2> HIDE DEF id
  <2>7. /\ cursor' \in Nat /\ buffer' \in SUBSET Events /\ Cardinality(buffer') <= BufferLimit
        /\ dropped' \in SUBSET Executions /\ wire' \in [Executions -> SUBSET Events]
    BY <1>0, <1>2, <2>1, <2>3, <2>6, AppendKeeps DEF Ends
  <2>8. TypeOK'
    BY <1>0, <1>1, <2>1, <2>4, <2>5, <2>6, <2>7 DEF TypeOK
  <2> QED
    BY <1>1, <2>1, <2>3, <2>6, <2>8, EventKeeps DEF Ends
<1> QED
  BY <1>3, <1>4, <1>5 DEF Ends

\* An answer, of an interrupted turn too.
LEMMA AnswersKeeps ==
  ASSUME BridgeInv, NEW e \in Executions, Answers(e)
  PROVE  BridgeInv'
<1>0. TypeOK /\ StepsAreSound /\ EventsAreSound /\ exec[e] \in ExecutionStates
  BY OldStates DEF BridgeInv
<1>1. PICK old \in ExecutionStates : old = exec[e]
  BY <1>0
<1>2. /\ UNCHANGED <<pieces, asked, told, child, client, initialized, pending, restarts,
                     content, approvals, reading>>
      /\ old.step = "wait" /\ Serves(old, e)
      /\ exec' = [exec EXCEPT ![e] = Answered(old)]
      /\ thread' = thread \cup {old.peer}
  BY <1>1 DEF Answers
<1>3. old.peer # 0 /\ old.peer \in 0..MaxChildren /\ old.peer \in Children /\ ~Streams(e) /\ wire[e] = {}
  <2>1. old.peer # 0
    BY <1>0, <1>1, <1>2 DEF StepsAreSound
  <2>2. old.peer \in 0..MaxChildren
    BY StateSets
  <2>3. ~Streams(e)
    BY <1>1, <1>2 DEF Streams
  <2>4. wire[e] = {}
    BY <2>3, NoStreamYet
  <2> QED
    BY <2>1, <2>2, <2>3, <2>4, Bounds DEF Children
<1>4. thread' \in SUBSET Children
  BY <1>0, <1>2, <1>3 DEF TypeOK
<1>5. CASE old.call = "turn"
  <2> DEFINE q == [old EXCEPT !.step = "connect"]
  <2>1. q \in ExecutionStates /\ q.step = "connect"
    BY DEF ExecutionStates
  <2>2. q = Answered(old)
    BY <1>5 DEF Answered
  <2> HIDE DEF q
  <2>3. Turns(e, q)
    BY <1>2, <2>1, <2>2 DEF Turns
  <2>4. turn' = [turn EXCEPT ![e] = "running"] /\ host' = [host EXCEPT ![e] = old.peer]
        /\ UNCHANGED <<cursor, buffer, dropped, wire>>
    BY <1>1, <1>5 DEF Answers
  <2>5. turn' \in [Executions -> {"none", "running", "asking", "completed", "failed", "lost"}]
        /\ host' \in [Executions -> 0..MaxChildren]
        /\ turn'[e] = "running" /\ host'[e] = old.peer
        /\ \A f \in Executions \ {e} : turn'[f] = turn[f] /\ host'[f] = host[f]
    BY <1>0, <1>3, <2>4 DEF TypeOK
  <2>6. TypeOK'
    <3>1. exec' \in [Executions -> ExecutionStates]
      BY <1>0, <2>3, ExecutionTurns
    <3> QED
      BY <1>0, <1>2, <1>4, <2>4, <2>5, <3>1 DEF TypeOK
  <2>7. Starts(exec[e]) /\ turn[e] = "none" /\ ~Starts(q)
    BY <1>0, <1>1, <1>2, <1>5, <2>1 DEF StepsAreSound, Starts
  <2>8. turn[e] \notin Ends /\ wire'[e] = {}
    BY <1>3, <2>4, <2>7 DEF Ends
  <2> QED
    BY <1>2, <1>3, <2>1, <2>3, <2>4, <2>5, <2>6, <2>7, <2>8, OneTurns
<1>6. CASE old.call = "interrupt"
  <2> DEFINE q == [old EXCEPT !.step = "failed"]
  <2>1. q \in ExecutionStates /\ q.step = "failed"
    BY DEF ExecutionStates
  <2>2. q = Answered(old)
    BY <1>6 DEF Answered
  <2> HIDE DEF q
  <2>3. Turns(e, q)
    BY <1>2, <2>1, <2>2 DEF Turns
  <2>4. turn' = [turn EXCEPT ![e] = "completed"] /\ host' = host /\ AppendEvent(e, "completed", 0)
    BY <1>1, <1>6 DEF Answers
  <2>5. turn[e] \in {"running", "asking"} /\ turn[e] \notin Ends
    BY <1>2, <1>6 DEF Serves, TurnsOf, Ends
  <2>6. turn' \in [Executions -> {"none", "running", "asking", "completed", "failed", "lost"}]
        /\ turn'[e] = "completed" /\ \A f \in Executions \ {e} : turn'[f] = turn[f]
    BY <1>0, <2>4 DEF TypeOK
  <2>7. 0 \in 0..MaxAsks /\ "completed" \in {"delta", "ask", "completed", "failed"}
    BY Bounds
  <2>8. /\ cursor' \in Nat /\ buffer' \in SUBSET Events /\ Cardinality(buffer') <= BufferLimit
        /\ dropped' \in SUBSET Executions /\ wire' \in [Executions -> SUBSET Events]
    BY <1>0, <2>4, <2>5, <2>6, <2>7, AppendKeeps
  <2>9. exec' \in [Executions -> ExecutionStates] /\ exec'[e] = q /\ \A f \in Executions \ {e} : exec'[f] = exec[f]
    BY <1>0, <2>3, ExecutionTurns
  <2>10. TypeOK'
    BY <1>0, <1>2, <1>4, <2>4, <2>6, <2>8, <2>9 DEF TypeOK
  <2> QED
    BY <1>2, <1>3, <2>1, <2>4, <2>5, <2>6, <2>7, <2>9, <2>10, EventKeeps
<1>7. CASE old.call \notin {"turn", "interrupt"}
  <2> DEFINE q == [old EXCEPT !.step = "call", !.call = "turn", !.peer = 0]
  <2>1. q \in ExecutionStates /\ q.step = "call"
    <3>1. "turn" \in Calls /\ 0 \in 0..MaxChildren
      BY Bounds DEF Calls
    <3> QED
      BY <3>1 DEF ExecutionStates
  <2>2. q = Answered(old)
    BY <1>7 DEF Answered
  <2> HIDE DEF q
  <2>3. Turns(e, q)
    BY <1>2, <2>1, <2>2 DEF Turns
  <2>4. UNCHANGED <<turn, host, cursor, buffer, dropped, wire>>
    BY <1>1, <1>7 DEF Answers
  <2>5. TypeOK'
    <3>1. exec' \in [Executions -> ExecutionStates]
      BY <1>0, <2>3, ExecutionTurns
    <3> QED
      BY <1>0, <1>2, <1>4, <2>4, <3>1 DEF TypeOK
  <2>6. Starts(exec[e]) /\ wire'[e] = {}
    BY <1>1, <1>2, <1>3, <1>7, <2>4 DEF Starts
  <2>7. \A f \in Executions : turn[f] \in {"running", "asking"} => host[f] # 0
    BY <1>0 DEF StepsAreSound
  <2> QED
    BY <1>2, <2>1, <2>3, <2>4, <2>5, <2>6, <2>7, OneTurns
<1> QED
  BY <1>5, <1>6, <1>7

\* A stream begins with what the buffer still has of the turn.
LEMMA ConnectKeeps ==
  ASSUME BridgeInv, NEW e \in Executions, Connect(e)
  PROVE  BridgeInv'
<1>0. TypeOK /\ StepsAreSound /\ EventsAreSound /\ PiecesAreKept /\ ReplyIsTheTurns /\ exec[e] \in ExecutionStates
  BY OldStates DEF BridgeInv
<1>1. PICK old \in ExecutionStates : old = exec[e]
  BY <1>0
<1> DEFINE q == [old EXCEPT !.step = "consume"]
<1>2. q \in ExecutionStates /\ q.step = "consume"
  BY DEF ExecutionStates
<1>3. /\ UNCHANGED <<codexVars, workerVars, content, approvals, reading>>
      /\ old.step = "connect" /\ wire' = [wire EXCEPT ![e] = Replayed(e)] /\ exec' = [exec EXCEPT ![e] = q]
  BY <1>1 DEF Connect, Step
<1> HIDE DEF q
<1>4. Turns(e, q) /\ ~Starts(q)
  BY <1>2, <1>3 DEF Turns, Starts
<1>5. exec' \in [Executions -> ExecutionStates] /\ exec'[e] = q /\ \A f \in Executions \ {e} : exec'[f] = exec[f]
  BY <1>0, <1>4, ExecutionTurns
<1>6. /\ Replayed(e) \subseteq buffer /\ Replayed(e) = {x \in buffer : x.turn = e}
      /\ Deltas(Replayed(e), e) = Deltas(buffer, e)
  BY DEF Replayed, Matches, Deltas
<1>7. wire' \in [Executions -> SUBSET Events] /\ wire'[e] = Replayed(e)
      /\ \A f \in Executions \ {e} : wire'[f] = wire[f]
  BY <1>0, <1>3, <1>6 DEF TypeOK
<1>8. TypeOK'
  BY <1>0, <1>3, <1>5, <1>7 DEF TypeOK, codexVars, workerVars
<1>9. UNCHANGED <<turn, host, pieces, content, cursor, buffer, dropped, reading>>
  BY <1>3 DEF codexVars, workerVars
<1>10. StepsAreSound'
  <2> SUFFICES ASSUME NEW f \in Executions
               PROVE  /\ exec'[f].step \in {"initialize", "wait"} => exec'[f].peer # 0
                      /\ exec'[f].step \in {"decide", "resolve"} => exec'[f].id # 0
                      /\ turn[f] \in {"running", "asking"} => host[f] # 0
                      /\ Starts(exec'[f]) => turn[f] = "none"
                      /\ turn[f] = "none" => pieces[f] = 0 /\ wire'[f] = {} /\ \A x \in buffer : x.turn # f
                      /\ Starts(exec'[f]) \/ exec'[f].step = "connect" => content[f] = 0
                      /\ wire'[f] # {} => Streams(f)'
    BY <1>0, <1>9 DEF StepsAreSound
  <2>1. CASE f # e
    <3>1. exec'[f] = exec[f] /\ wire'[f] = wire[f]
      BY <1>5, <1>7, <2>1
    <3> QED
      BY <1>0, <3>1 DEF StepsAreSound, Streams
  <2>2. CASE f = e
    <3>1. turn[e] = "none" => wire'[e] = {}
      BY <1>0, <1>6, <1>7 DEF StepsAreSound
    <3> QED
      BY <1>0, <1>2, <1>4, <1>5, <2>2, <3>1 DEF StepsAreSound, Streams
  <2> QED
    BY <2>1, <2>2
<1>11. EventsAreSound'
  <2>1. Sound(buffer, cursor, turn) /\ Sound(Replayed(e), cursor, turn)
    BY <1>0, <1>6, SoundSubset DEF EventsAreSound
  <2>2. \A f \in Executions : Sound(wire'[f], cursor, turn) /\ \A x \in wire'[f] : x.turn = f
    <3> SUFFICES ASSUME NEW f \in Executions PROVE Sound(wire'[f], cursor, turn) /\ \A x \in wire'[f] : x.turn = f
      OBVIOUS
    <3>1. CASE f = e
      BY <1>6, <1>7, <2>1, <3>1
    <3>2. CASE f # e
      BY <1>0, <1>7, <3>2 DEF EventsAreSound
    <3> QED
      BY <3>1, <3>2
  <2> QED
    BY <1>9, <2>1, <2>2 DEF EventsAreSound
<1>12. PiecesAreKept'
  <2> SUFFICES ASSUME NEW f \in Executions
               PROVE  /\ content[f] + Cardinality(Deltas(wire'[f], f)) <= pieces[f]
                      /\ Streams(f)' /\ f \notin dropped =>
                            content[f] + Cardinality(Deltas(wire'[f], f)) = pieces[f]
    BY <1>0, <1>9 DEF PiecesAreKept
  <2>1. CASE f # e
    <3>1. wire'[f] = wire[f] /\ (Streams(f)' <=> Streams(f))
      BY <1>5, <1>7, <2>1 DEF Streams
    <3> QED
      BY <1>0, <3>1 DEF PiecesAreKept
  <2>2. CASE f = e
    <3>1. content[e] = 0
      BY <1>0, <1>1, <1>3 DEF StepsAreSound
    <3>2. Cardinality(Deltas(wire'[e], e)) = Cardinality(Deltas(buffer, e))
      BY <1>6, <1>7
    <3>3. Cardinality(Deltas(buffer, e)) \in Nat
      BY <1>0, DeltasCount DEF EventsAreSound, Sound
    <3> QED
      BY <1>0, <2>2, <3>1, <3>2, <3>3 DEF PiecesAreKept
  <2> QED
    BY <2>1, <2>2
<1>13. ReplyIsTheTurns'
  <2> SUFFICES ASSUME NEW f \in Executions, exec'[f].step = "done", f \notin dropped
               PROVE  turn[f] = "completed" /\ content[f] = pieces[f]
    BY <1>9 DEF ReplyIsTheTurns
  <2>1. exec[f].step = "done"
    BY <1>2, <1>5
  <2> QED
    BY <1>0, <2>1 DEF ReplyIsTheTurns
<1> QED
  BY <1>8, <1>10, <1>11, <1>12, <1>13 DEF BridgeInv

\* The worker restarts: what the buffer had is dropped, nothing streams.
LEMMA RestartKeeps ==
  ASSUME BridgeInv, Restart
  PROVE  BridgeInv'
<1>0. TypeOK /\ StepsAreSound /\ EventsAreSound /\ PiecesAreKept /\ ReplyIsTheTurns
  BY DEF BridgeInv
<1>1. /\ UNCHANGED <<thread, host, pieces, asked, told, content, approvals, reading>>
      /\ client' = 0 /\ initialized' = FALSE /\ cursor' = 0 /\ buffer' = {}
      /\ restarts < MaxRestarts /\ restarts' = restarts + 1
      /\ pending' = [i \in Ids |-> NoAsk]
      /\ child' = [k \in Children |-> IF Up(k) THEN "exited" ELSE child[k]]
      /\ dropped' = dropped \cup {x.turn : x \in buffer}
      /\ wire' = [e \in Executions |-> {}]
      /\ turn' = [e \in Executions |-> IF turn[e] \in {"running", "asking"} THEN "lost" ELSE turn[e]]
  BY DEF Restart
<1>2. /\ exec' = [e \in Executions |-> exec'[e]]
      /\ \A e \in Executions :
           exec'[e] = IF exec[e].step \in {"mkdir", "initialize", "wait"} THEN Rejected(exec[e])
                      ELSE IF Streams(e) THEN [exec[e] EXCEPT !.step = "failed", !.row = NoRow] ELSE exec[e]
  BY DEF Restart
<1>3. ASSUME NEW e \in Executions
      PROVE  /\ exec'[e] \in ExecutionStates
             /\ exec'[e].step \in {"idle", "call", "connect", "done", "failed"}
             /\ exec'[e].step \in {"connect", "done"} => exec'[e] = exec[e]
             /\ Starts(exec'[e]) => Starts(exec[e])
  <2>1. PICK old \in ExecutionStates : old = exec[e]
    BY <1>0 DEF TypeOK
  <2>2. CASE old.step \in {"mkdir", "initialize", "wait"}
    <3>1. /\ Rejected(old) \in ExecutionStates /\ Rejected(old).step \in {"call", "failed"}
          /\ Starts(Rejected(old)) => Starts(old)
      BY <2>2, RejectedIs
    <3>2. exec'[e] = Rejected(old)
      BY <1>2, <2>1, <2>2
    <3> QED
      BY <2>1, <3>1, <3>2
  <2>3. CASE Streams(e)
    <3> DEFINE q == [old EXCEPT !.step = "failed", !.row = NoRow]
    <3>1. q \in ExecutionStates /\ q.step = "failed"
      <4>1. NoRow \in Rows
        BY DEF NoRow, Rows
      <4> QED
        BY <4>1 DEF ExecutionStates
    <3>2. exec'[e] = q
      BY <1>2, <2>1, <2>3 DEF Streams
    <3> HIDE DEF q
    <3> QED
      BY <3>1, <3>2 DEF Starts
  <2>4. CASE old.step \notin {"mkdir", "initialize", "wait"} /\ ~Streams(e)
    <3>1. exec'[e] = exec[e]
      BY <1>2, <2>1, <2>4
    <3>2. old.step \in {"idle", "call", "connect", "done", "failed"}
      BY <2>1, <2>4 DEF Streams, ExecutionStates
    <3> QED
      BY <2>1, <3>1, <3>2
  <2> QED
    BY <2>2, <2>3, <2>4
<1>4. turn' \in [Executions -> {"none", "running", "asking", "completed", "failed", "lost"}]
      /\ \A e \in Executions : /\ turn'[e] \notin {"running", "asking"}
                               /\ turn[e] \notin {"running", "asking"} => turn'[e] = turn[e]
                               /\ turn'[e] = "none" => turn[e] = "none"
                               /\ wire'[e] = {}
  BY <1>0, <1>1 DEF TypeOK
<1>5. Sound({}, 0, turn') /\ IsFiniteSet({}) /\ Cardinality({}) = 0 /\ \A e \in Executions : Deltas({}, e) = {}
  BY FS_EmptySet DEF Sound, Deltas
<1>6. TypeOK'
  <2>1. exec' \in [Executions -> ExecutionStates]
    BY <1>2, <1>3
  <2>2. child' \in [Children -> {"none", "starting", "ready", "stopping", "exited"}]
    BY <1>0, <1>1 DEF TypeOK
  <2>3. client' \in 0..MaxChildren /\ restarts' \in 0..MaxRestarts
    BY <1>0, <1>1, Bounds DEF TypeOK
  <2>4. initialized' \in BOOLEAN
    BY <1>1
  <2>5. pending' \in [Ids -> (Children \X Executions) \cup {NoAsk}]
    BY <1>1
  <2>6. cursor' \in Nat /\ buffer' \in SUBSET Events /\ Cardinality(buffer') <= BufferLimit
    BY <1>1, <1>5, Bounds
  <2>7. dropped' \in SUBSET Executions /\ wire' \in [Executions -> SUBSET Events]
    <3>1. \A x \in buffer : x.turn \in Executions
      BY <1>0 DEF TypeOK, Events
    <3>2. dropped \in SUBSET Executions
      BY <1>0 DEF TypeOK
    <3> QED
      BY <1>1, <3>1, <3>2
  <2> QED
    BY <1>0, <1>1, <1>4, <2>1, <2>2, <2>3, <2>4, <2>5, <2>6, <2>7 DEF TypeOK
<1>7. StepsAreSound'
  <2> SUFFICES ASSUME NEW e \in Executions
               PROVE  /\ exec'[e].step \in {"initialize", "wait"} => exec'[e].peer # 0
                      /\ exec'[e].step \in {"decide", "resolve"} => exec'[e].id # 0
                      /\ turn'[e] \in {"running", "asking"} => host'[e] # 0
                      /\ Starts(exec'[e]) => turn'[e] = "none"
                      /\ turn'[e] = "none" => pieces[e] = 0
                      /\ Starts(exec'[e]) \/ exec'[e].step = "connect" => content[e] = 0
    BY <1>0, <1>1, <1>4 DEF StepsAreSound
  <2>1. Starts(exec'[e]) => turn'[e] = "none" /\ content[e] = 0
    BY <1>0, <1>3, <1>4 DEF StepsAreSound
  <2>2. exec'[e].step = "connect" => content[e] = 0
    BY <1>0, <1>3 DEF StepsAreSound
  <2>3. turn'[e] = "none" => pieces[e] = 0
    BY <1>0, <1>4 DEF StepsAreSound
  <2> QED
    BY <1>3, <1>4, <2>1, <2>2, <2>3
<1>8. EventsAreSound'
  BY <1>1, <1>4, <1>5 DEF EventsAreSound
<1>9. PiecesAreKept'
  <2> SUFFICES ASSUME NEW e \in Executions
               PROVE  /\ 0 <= pieces[e]
                      /\ e \notin dropped' => 0 = pieces[e]
                      /\ content[e] + 0 <= pieces[e]
                      /\ ~Streams(e)'
    BY <1>1, <1>4, <1>5 DEF PiecesAreKept
  <2>1. ~Streams(e)'
    BY <1>3 DEF Streams
  <2>2. pieces[e] \in Nat /\ content[e] \in Nat
    BY <1>0, Bounds DEF TypeOK
  <2>3. content[e] <= pieces[e]
    <3>1. IsFiniteSet(wire[e])
      BY <1>0 DEF EventsAreSound, Sound
    <3>2. Cardinality(Deltas(wire[e], e)) \in Nat
      BY <3>1, DeltasCount
    <3> QED
      BY <1>0, <2>2, <3>2 DEF PiecesAreKept
  <2>4. ASSUME e \notin dropped' PROVE pieces[e] = 0
    <3>1. e \notin dropped /\ \A x \in buffer : x.turn # e
      BY <1>1, <2>4
    <3>2. Deltas(buffer, e) = {}
      BY <3>1 DEF Deltas
    <3> QED
      BY <1>0, <1>5, <3>1, <3>2 DEF PiecesAreKept
  <2> QED
    BY <2>1, <2>2, <2>3, <2>4
<1>10. ReplyIsTheTurns'
  <2> SUFFICES ASSUME NEW e \in Executions, exec'[e].step = "done", e \notin dropped'
               PROVE  turn'[e] = "completed" /\ content[e] = pieces[e]
    BY <1>1 DEF ReplyIsTheTurns
  <2>1. exec[e].step = "done" /\ e \notin dropped
    BY <1>1, <1>3
  <2>2. turn[e] = "completed" /\ content[e] = pieces[e]
    BY <1>0, <2>1 DEF ReplyIsTheTurns
  <2> QED
    BY <1>4, <2>2
<1> QED
  BY <1>6, <1>7, <1>8, <1>9, <1>10 DEF BridgeInv

\* An event is read: a piece of text, a request for an approval, or the end,
\* which comes when everything else has been read.
LEMMA ConsumeKeeps ==
  ASSUME BridgeInv, NEW e \in Executions, Consume(e)
  PROVE  BridgeInv'
<1>0. TypeOK /\ StepsAreSound /\ EventsAreSound /\ PiecesAreKept /\ ReplyIsTheTurns /\ exec[e] \in ExecutionStates
  BY OldStates DEF BridgeInv
<1>1. PICK old \in ExecutionStates : old = exec[e]
  BY <1>0
<1>2. PICK event \in wire[e] :
          /\ \A other \in wire[e] : event.cursor <= other.cursor
          /\ content' = [content EXCEPT ![e] = IF event.kind = "delta" THEN @ + 1 ELSE @]
          /\ exec' = [exec EXCEPT ![e] =
                CASE event.kind = "completed" -> [@ EXCEPT !.step = "done"]
                  [] event.kind = "failed" -> [@ EXCEPT !.step = "failed"]
                  [] event.kind = "ask" -> [@ EXCEPT !.step = "decide", !.id = event.id]
                  [] OTHER -> @]
          /\ wire' = [wire EXCEPT ![e] = IF event.kind \in {"completed", "failed"} THEN {} ELSE @ \ {event}]
          /\ approvals' = IF event.kind = "ask"
                          THEN [approvals EXCEPT ![event.id] =
                                  [of |-> <<host[e], e>>, status |-> "pending"]]
                          ELSE approvals
  BY DEF Consume
<1>3. UNCHANGED <<codexVars, workerVars, reading>> /\ old.step = "consume" /\ Streams(e)
  BY <1>1 DEF Consume, Streams
<1>4. /\ event \in Events /\ event.kind \in {"delta", "ask", "completed", "failed"} /\ event.id \in 0..MaxAsks
      /\ event.cursor \in Nat /\ event.turn = e /\ (event.kind = "ask" => event.id # 0)
      /\ event.kind \in Ends => turn[e] = event.kind
      /\ IsFiniteSet(wire[e]) /\ wire[e] \in SUBSET Events /\ Sound(wire[e], cursor, turn)
  <2>1. wire[e] \in SUBSET Events
    BY <1>0 DEF TypeOK
  <2>2. Sound(wire[e], cursor, turn) /\ event.turn = e
    BY <1>0, <1>2 DEF EventsAreSound
  <2>3. event \in Events
    BY <2>1
  <2> QED
    BY <2>1, <2>2, <2>3 DEF Sound, Events
<1>5. turn[e] # "none" /\ wire[e] # {}
  BY <1>0, <1>2 DEF StepsAreSound
<1>6. UNCHANGED <<turn, host, pieces, cursor, buffer, dropped, reading>>
  BY <1>3 DEF codexVars, workerVars
<1>7. \E q : /\ Turns(e, q)
             /\ event.kind = "completed" => q.step = "done"
             /\ event.kind = "failed" => q.step = "failed"
             /\ event.kind = "ask" => q.step = "decide" /\ q.id # 0
             /\ event.kind = "delta" => q = old
  <2>1. CASE event.kind = "completed"
    <3> DEFINE q == [old EXCEPT !.step = "done"]
    <3>1. q \in ExecutionStates /\ q.step = "done"
      BY DEF ExecutionStates
    <3>2. exec' = [exec EXCEPT ![e] = q]
      BY <1>1, <1>2, <2>1
    <3> HIDE DEF q
    <3> QED
      BY <2>1, <3>1, <3>2 DEF Turns
  <2>2. CASE event.kind = "failed"
    <3> DEFINE q == [old EXCEPT !.step = "failed"]
    <3>1. q \in ExecutionStates /\ q.step = "failed"
      BY DEF ExecutionStates
    <3>2. exec' = [exec EXCEPT ![e] = q]
      BY <1>1, <1>2, <2>2
    <3> HIDE DEF q
    <3> QED
      BY <2>2, <3>1, <3>2 DEF Turns
  <2>3. CASE event.kind = "ask"
    <3> DEFINE q == [old EXCEPT !.step = "decide", !.id = event.id]
    <3>1. q \in ExecutionStates /\ q.step = "decide" /\ q.id = event.id
      BY <1>4 DEF ExecutionStates
    <3>2. exec' = [exec EXCEPT ![e] = q]
      BY <1>1, <1>2, <2>3
    <3> HIDE DEF q
    <3> QED
      BY <1>4, <2>3, <3>1, <3>2 DEF Turns
  <2>4. CASE event.kind = "delta"
    <3>1. exec' = [exec EXCEPT ![e] = old]
      BY <1>1, <1>2, <2>4
    <3> QED
      BY <2>4, <3>1 DEF Turns
  <2> QED
    BY <1>4, <2>1, <2>2, <2>3, <2>4
<1>8. PICK q : /\ Turns(e, q)
               /\ event.kind = "completed" => q.step = "done"
               /\ event.kind = "failed" => q.step = "failed"
               /\ event.kind = "ask" => q.step = "decide" /\ q.id # 0
               /\ event.kind = "delta" => q = old
  BY <1>7
<1>9. exec' \in [Executions -> ExecutionStates] /\ exec'[e] = q /\ \A f \in Executions \ {e} : exec'[f] = exec[f]
  BY <1>0, <1>8, ExecutionTurns
<1>10. /\ wire' \in [Executions -> SUBSET Events]
       /\ wire'[e] = IF event.kind \in Ends THEN {} ELSE wire[e] \ {event}
       /\ \A f \in Executions \ {e} : wire'[f] = wire[f]
  BY <1>0, <1>2 DEF TypeOK, Ends
<1>11. pieces[e] \in 0..MaxPieces /\ pieces[e] \in Nat /\ content[e] \in Nat
  BY <1>0, Bounds DEF TypeOK
<1>12. /\ content'[e] = IF event.kind = "delta" THEN content[e] + 1 ELSE content[e]
       /\ \A f \in Executions \ {e} : content'[f] = content[f]
  BY <1>0, <1>2 DEF TypeOK
<1>13. /\ Cardinality(Deltas(wire[e], e)) \in Nat
       /\ IsFiniteSet(wire'[e]) /\ wire'[e] \subseteq wire[e]
       /\ Cardinality(Deltas(wire'[e], e)) \in Nat
       /\ content'[e] + Cardinality(Deltas(wire'[e], e)) = content[e] + Cardinality(Deltas(wire[e], e))
  <2>1. Cardinality(Deltas(wire[e], e)) \in Nat
    BY <1>4, DeltasCount
  <2>2. CASE event.kind \notin Ends
    <3>1. wire'[e] = wire[e] \ {event}
      BY <1>10, <2>2
    <3>2. Cardinality(Deltas(wire[e], e)) =
            IF event.kind = "delta" THEN Cardinality(Deltas(wire[e] \ {event}, e)) + 1
            ELSE Cardinality(Deltas(wire[e] \ {event}, e))
      BY <1>4, DeltasRemove
    <3>3. IsFiniteSet(wire[e] \ {event})
      BY <1>4, FS_Subset
    <3>4. Cardinality(Deltas(wire[e] \ {event}, e)) \in Nat
      BY <3>3, DeltasCount
    <3> QED
      BY <1>11, <1>12, <2>1, <3>1, <3>2, <3>3, <3>4
  <2>3. CASE event.kind \in Ends
    <3>1. \A x \in wire[e] : x = event
      <4> SUFFICES ASSUME NEW x \in wire[e] PROVE x = event
        OBVIOUS
      <4>1. x.turn = event.turn
        BY <1>0, <1>4 DEF EventsAreSound
      <4>2. x.cursor <= event.cursor /\ event.cursor <= x.cursor
        BY <1>2, <1>4, <2>3, <4>1 DEF Sound
      <4>3. x.cursor \in Nat
        BY <1>4 DEF Events
      <4>4. x.cursor = event.cursor
        BY <1>4, <4>2, <4>3
      <4> QED
        BY <1>4, <4>4 DEF Sound
    <3>2. Deltas(wire[e], e) = {} /\ Deltas({}, e) = {} /\ event.kind # "delta"
      BY <2>3, <3>1 DEF Deltas, Ends
    <3>3. wire'[e] = {} /\ IsFiniteSet({}) /\ Cardinality({}) = 0
      BY <1>10, <2>3, FS_EmptySet
    <3>4. Cardinality(Deltas(wire[e], e)) = 0 /\ Cardinality(Deltas(wire'[e], e)) = 0
      BY <3>2, <3>3
    <3>5. content'[e] = content[e]
      BY <1>12, <3>2
    <3> QED
      BY <1>11, <2>1, <3>3, <3>4, <3>5
  <2> QED
    BY <2>1, <2>2, <2>3
<1>14. content'[e] <= pieces[e] /\ content'[e] \in Nat
  <2>1. content[e] + Cardinality(Deltas(wire[e], e)) <= pieces[e]
    BY <1>0 DEF PiecesAreKept
  <2>2. content'[e] \in Nat
    BY <1>11, <1>12
  <2> QED
    BY <1>11, <1>13, <2>1, <2>2
<1>15. TypeOK'
  <2>1. content' \in [Executions -> 0..MaxPieces]
    <3>1. content'[e] \in 0..MaxPieces
      BY <1>11, <1>14, Bounds
    <3>2. content' = [content EXCEPT ![e] = content'[e]]
      BY <1>0, <1>2, <1>12 DEF TypeOK
    <3> QED
      BY <1>0, <3>1, <3>2 DEF TypeOK
  <2>2. approvals' \in [Ids -> Rows]
    <3>1. CASE event.kind = "ask"
      <4>1. host[e] \in 0..MaxChildren
        BY <1>0 DEF TypeOK
      <4>2. [of |-> <<host[e], e>>, status |-> "pending"] \in Rows
        BY <4>1 DEF Rows
      <4> QED
        BY <1>0, <1>2, <3>1, <4>2 DEF TypeOK
    <3>2. CASE event.kind # "ask"
      BY <1>0, <1>2, <3>2 DEF TypeOK
    <3> QED
      BY <3>1, <3>2
  <2> QED
    BY <1>0, <1>3, <1>9, <1>10, <2>1, <2>2 DEF TypeOK, codexVars, workerVars
<1>16. /\ ~Starts(q) /\ q.step \notin {"connect", "initialize", "wait"}
       /\ q.step = "done" => event.kind = "completed"
       /\ q.step \in {"decide", "resolve"} => q.id # 0
       /\ wire'[e] # {} => Streams(e)'
  BY <1>1, <1>3, <1>4, <1>8, <1>9, <1>10 DEF Starts, Streams, Ends
<1>17. StepsAreSound'
  <2> SUFFICES ASSUME NEW f \in Executions
               PROVE  /\ exec'[f].step \in {"initialize", "wait"} => exec'[f].peer # 0
                      /\ exec'[f].step \in {"decide", "resolve"} => exec'[f].id # 0
                      /\ turn[f] \in {"running", "asking"} => host[f] # 0
                      /\ Starts(exec'[f]) => turn[f] = "none"
                      /\ turn[f] = "none" => pieces[f] = 0 /\ wire'[f] = {} /\ \A x \in buffer : x.turn # f
                      /\ Starts(exec'[f]) \/ exec'[f].step = "connect" => content'[f] = 0
                      /\ wire'[f] # {} => Streams(f)'
    BY <1>0, <1>6 DEF StepsAreSound
  <2>1. CASE f # e
    <3>1. exec'[f] = exec[f] /\ wire'[f] = wire[f] /\ content'[f] = content[f]
      BY <1>9, <1>10, <1>12, <2>1
    <3> QED
      BY <1>0, <3>1 DEF StepsAreSound, Streams
  <2>2. CASE f = e
    BY <1>0, <1>5, <1>9, <1>16, <2>2 DEF StepsAreSound
  <2> QED
    BY <2>1, <2>2
<1>18. EventsAreSound'
  <2>1. Sound(wire'[e], cursor, turn) /\ \A x \in wire'[e] : x.turn = e
    BY <1>0, <1>4, <1>13, SoundSubset DEF EventsAreSound
  <2>2. \A f \in Executions : Sound(wire'[f], cursor, turn) /\ \A x \in wire'[f] : x.turn = f
    BY <1>0, <1>10, <2>1 DEF EventsAreSound
  <2> QED
    BY <1>0, <1>6, <2>2 DEF EventsAreSound
<1>19. PiecesAreKept'
  <2> SUFFICES ASSUME NEW f \in Executions
               PROVE  /\ content'[f] + Cardinality(Deltas(wire'[f], f)) <= pieces[f]
                      /\ Streams(f)' /\ f \notin dropped =>
                            content'[f] + Cardinality(Deltas(wire'[f], f)) = pieces[f]
    BY <1>0, <1>6 DEF PiecesAreKept
  <2>1. CASE f # e
    <3>1. content'[f] = content[f] /\ wire'[f] = wire[f] /\ (Streams(f)' <=> Streams(f))
      BY <1>9, <1>10, <1>12, <2>1 DEF Streams
    <3> QED
      BY <1>0, <3>1 DEF PiecesAreKept
  <2>2. CASE f = e
    BY <1>0, <1>3, <1>13, <2>2 DEF PiecesAreKept
  <2> QED
    BY <2>1, <2>2
<1>20. ReplyIsTheTurns'
  <2> SUFFICES ASSUME NEW f \in Executions, exec'[f].step = "done", f \notin dropped
               PROVE  turn[f] = "completed" /\ content'[f] = pieces[f]
    BY <1>6 DEF ReplyIsTheTurns
  <2>1. CASE f # e
    BY <1>0, <1>9, <1>12, <2>1 DEF ReplyIsTheTurns
  <2>2. CASE f = e
    <3>1. event.kind = "completed" /\ turn[e] = "completed"
      BY <1>4, <1>9, <1>16, <2>2 DEF Ends
    <3>2. wire'[e] = {} /\ Deltas({}, e) = {} /\ Cardinality({}) = 0
      BY <1>10, <3>1, FS_EmptySet DEF Ends, Deltas
    <3>3. content[e] + Cardinality(Deltas(wire[e], e)) = pieces[e]
      BY <1>0, <1>3, <2>2 DEF PiecesAreKept
    <3>4. content'[e] + 0 = pieces[e]
      BY <1>13, <3>2, <3>3
    <3> QED
      BY <1>14, <2>2, <3>1, <3>4
  <2> QED
    BY <2>1, <2>2
<1> QED
  BY <1>15, <1>17, <1>18, <1>19, <1>20 DEF BridgeInv

-----------------------------------------------------------------------------
(* The theorems.                                                           *)

LEMMA InitBridge == Init => BridgeInv
<1> SUFFICES ASSUME Init PROVE BridgeInv
  OBVIOUS
<1>1. IsFiniteSet({}) /\ Cardinality({}) = 0 /\ \A e \in Executions : Deltas({}, e) = {}
  BY FS_EmptySet DEF Deltas
<1>2. Idle \in ExecutionStates /\ Idle.step = "idle" /\ NoRow \in Rows
      /\ Nothing \in [id : 0..MaxAsks, row : Rows]
  BY Bounds DEF Idle, ExecutionStates, Rows, NoRow, Calls, Nothing
<1>3. TypeOK
  <2>1. child \in [Children -> {"none", "starting", "ready", "stopping", "exited"}]
    BY DEF Init
  <2>2. client \in 0..MaxChildren
    BY Bounds DEF Init
  <2>3. initialized \in BOOLEAN
    BY Zenon DEF Init
  <2>4. asked \in [Children -> Seq(Executions)] /\ \A k \in Children : Len(asked[k]) <= MaxAsks
    BY Bounds DEF Init
  <2>5. cursor \in Nat /\ buffer \in SUBSET Events /\ Cardinality(buffer) <= BufferLimit
    BY <1>1, Bounds DEF Init
  <2>6. /\ host \in [Executions -> 0..MaxChildren] /\ pieces \in [Executions -> 0..MaxPieces]
        /\ content \in [Executions -> 0..MaxPieces] /\ restarts \in 0..MaxRestarts
    BY Bounds DEF Init
  <2>7. /\ exec \in [Executions -> ExecutionStates] /\ approvals \in [Ids -> Rows]
        /\ reading \in [id : 0..MaxAsks, row : Rows]
    BY <1>2 DEF Init
  <2> QED
    BY <2>1, <2>2, <2>3, <2>4, <2>5, <2>6, <2>7 DEF Init, TypeOK
<1>4. StepsAreSound
  BY <1>2 DEF Init, StepsAreSound, Starts
<1>5. EventsAreSound
  BY <1>1 DEF Init, EventsAreSound, Sound
<1>6. PiecesAreKept
  <2> SUFFICES ASSUME NEW e \in Executions
               PROVE  /\ Cardinality(Deltas(buffer, e)) = pieces[e]
                      /\ content[e] + Cardinality(Deltas(wire[e], e)) = pieces[e]
                      /\ pieces[e] = 0
    BY DEF PiecesAreKept
  <2>1. buffer = {} /\ wire[e] = {} /\ pieces[e] = 0 /\ content[e] = 0
    BY DEF Init
  <2> QED
    BY <1>1, <2>1
<1>7. ReplyIsTheTurns
  BY <1>2 DEF Init, ReplyIsTheTurns
<1> QED
  BY <1>3, <1>4, <1>5, <1>6, <1>7 DEF BridgeInv

LEMMA NextBridge == BridgeInv /\ [Next]_vars => BridgeInv'
<1> SUFFICES ASSUME BridgeInv, [Next]_vars PROVE BridgeInv'
  OBVIOUS
<1>1. CASE Codex
  BY <1>1, CodexKeeps, ExitKeeps DEF Codex
<1>2. ASSUME NEW e \in Executions, Begin(e) \/ Start(e) \/ Request(e) \/ Execute(e) \/ Abort(e)
      PROVE  BridgeInv'
  <2>1. CASE Begin(e)
    BY <2>1, CallKeeps
  <2>2. CASE Start(e)
    BY <2>2, StartKeeps
  <2>3. CASE Request(e)
    BY <2>3, CallKeeps, AnswersKeeps, CallFailsKeeps DEF Request
  <2>4. CASE Execute(e)
    BY <2>4, ConnectKeeps, ConsumeKeeps, DecidedKeeps, ResolveKeeps DEF Execute
  <2>5. CASE Abort(e)
    BY <2>5, DecidedKeeps
  <2> QED
    BY <1>2, <2>1, <2>2, <2>3, <2>4, <2>5
<1>3. CASE User
  BY <1>3, ReadKeeps, DecideKeeps DEF User
<1>4. CASE Restart
  BY <1>4, RestartKeeps
<1>5. CASE UNCHANGED vars
  <2>1. UNCHANGED <<thread, turn, host, pieces, asked, told, child, client, initialized, pending, cursor, buffer,
                    dropped, restarts, exec, wire, content, approvals, reading>>
    BY <1>5 DEF vars, codexVars, workerVars, execVars
  <2> QED
    BY <2>1 DEF BridgeInv, TypeOK, StepsAreSound, EventsAreSound, PiecesAreKept, ReplyIsTheTurns, Streams
<1> QED
  BY <1>1, <1>2, <1>3, <1>4, <1>5 DEF Next

\* The bridge keeps its types; the buffer never has more than BufferLimit events
\* and an execution never reads more of a turn than the process has sent of it.
THEOREM BridgeTyped == Spec => []TypeOK
<1>1. BridgeInv => TypeOK
  BY DEF BridgeInv
<1> QED
  BY InitBridge, NextBridge, <1>1, PTL DEF Spec

\* An execution that ends well returns the text of its own turn, all of it: however
\* late it connects (consumeTurn replays the buffer), whichever processes exit and
\* calls fail, unless the buffer has dropped an event of the turn.
THEOREM RepliesAreWhole == Spec => []ReplyIsTheTurns
<1>1. BridgeInv => ReplyIsTheTurns
  BY DEF BridgeInv
<1> QED
  BY InitBridge, NextBridge, <1>1, PTL DEF Spec

=============================================================================
