--------------------------- MODULE ClientsProofs ---------------------------
(* What TLAPS proves of EventStream and Clients: their types, and that a   *)
(* stream is complete, for any emitters, any clients and any bounds.       *)
EXTENDS Clients, FiniteSetTheorems, NaturalsInduction, WellFoundedInduction, TLAPS

-----------------------------------------------------------------------------
(* The inductive invariant.                                                *)

\* Emitters whose event is stored and not published, or not committed.
Emitting == {e \in Emitters : emitter[e].step \in {"commit", "publish"}}
Appending == {e \in Emitters : emitter[e].step = "append"}

\* Each event under way has a cursor of its own, in the log once it is
\* committed, and every emitter that is to append finds one.
CursorsAreDistinct ==
    /\ sequence + Cardinality(Appending) <= MaxEvents
    /\ \A e \in Emitters : emitter[e].step = "commit" => emitter[e].cursor \in (1..sequence) \ log
    /\ \A e \in Emitters : emitter[e].step = "publish" => emitter[e].cursor \in log
    /\ \A e, f \in Emitting : emitter[e].cursor = emitter[f].cursor => e = f

\* While nothing has overtaken anything, what is to be committed comes after the
\* log, and what is to be published after all that is published.
LogIsInOrder ==
    ~reordered =>
        /\ \A e \in Emitters : emitter[e].step = "commit" => \A c \in log : c < emitter[e].cursor
        /\ \A e \in Emitting : \A c \in Published : c < emitter[e].cursor

\* What is kept during the replay.
PendingIsPublished ==
    /\ \A n \in DOMAIN stream.pending : stream.pending[n] \in log
    /\ ~reordered =>
          /\ \A n \in DOMAIN stream.pending : stream.pending[n] \in Published
          /\ \A n, m \in DOMAIN stream.pending : n < m => stream.pending[n] < stream.pending[m]

\* Before the replay nothing is sent.
NothingIsSentYet ==
    stream.step \in {"read", "replay"} => stream.cursor = stream.after /\ stream.sent = {}

\* What is published and was not read is kept, and comes after what was read.
ReplayIsComplete ==
    stream.step = "replay" =>
        /\ stream.batch \subseteq After(stream.after)
        /\ ~reordered /\ stream.whole =>
              /\ \A c \in Published : c > stream.after =>
                    c \in stream.batch \/ \E n \in DOMAIN stream.pending : stream.pending[n] = c
              /\ \A c \in After(stream.after) \ stream.batch : \A d \in stream.batch : d < c

\* Up to the last event sent, the whole log is sent.
NothingIsSkipped ==
    stream.step = "follow" =>
        /\ stream.sent \subseteq After(stream.after)
        /\ stream.cursor \in stream.sent \cup {stream.after}
        /\ ~reordered /\ stream.whole =>
              \A c \in After(stream.after) :
                  c \in Published \/ c <= stream.cursor => c \in stream.sent

StreamInv ==
    /\ CursorsAreDistinct
    /\ LogIsInOrder
    /\ PendingIsPublished
    /\ NothingIsSentYet
    /\ ReplayIsComplete
    /\ NothingIsSkipped

CInv == TypeOK /\ StreamInv

-----------------------------------------------------------------------------
(* The operators of the stream.                                            *)

\* Of some cursors one is the greatest.
LEMMA GreatestIs ==
  ASSUME NEW S \in SUBSET (0..MaxEvents), S # {}
  PROVE  Greatest(S) \in S /\ \A other \in S : other <= Greatest(S)
<1> DEFINE T == {MaxEvents - c : c \in S}
           R == OpToRel(<, Nat)
<1>1. \A c \in S : c \in Nat /\ c <= MaxEvents /\ MaxEvents - c \in Nat
  BY StreamAssumption
<1>2. T \in SUBSET Nat /\ T # {}
  BY <1>1
<1>3. IsWellFoundedOn(R, Nat)
  BY NatLessThanWellFounded
<1>4. ASSUME NEW m \in Nat, NEW n \in Nat, n < m PROVE <<n, m>> \in R
  BY <1>4 DEF OpToRel
<1> HIDE DEF R, T
<1>5. PICK m \in T : \A n \in T : <<n, m>> \notin R
  BY <1>2, <1>3, WFMin
<1>6. PICK c \in S : m = MaxEvents - c
  BY DEF T
<1>7. ASSUME NEW other \in S PROVE other <= c
  <2>1. MaxEvents - other \in T /\ MaxEvents - other \in Nat /\ m \in Nat
    BY <1>1, <1>2, <1>5 DEF T
  <2>2. ~(MaxEvents - other < m)
    BY <1>4, <1>5, <2>1
  <2> QED
    BY <1>1, <1>6, <2>1, <2>2, StreamAssumption
<1>8. \E d \in S : \A other \in S : other <= d
  BY <1>7
<1> QED
  BY <1>8 DEF Greatest

\* Cursors that are sent one after the other: the newer ones are written, and the
\* greatest is remembered.
LEMMA SendAllSends ==
  ASSUME NEW s \in StreamStates, NEW events \in SUBSET Cursors,
         NEW g, g = SendAll(s, events).cursor
  PROVE  /\ g \in {c \in events : c > s.cursor} \cup {s.cursor}
         /\ \A c \in events : c <= g
         /\ s.cursor <= g
         /\ g \in 0..MaxEvents
<1> DEFINE news == {c \in events : c > s.cursor}
<1>0. s.cursor \in Nat /\ s.cursor <= MaxEvents /\ MaxEvents \in Nat
  BY StreamAssumption DEF StreamStates
<1>1. news \cup {s.cursor} \in SUBSET (0..MaxEvents)
  <2>1. \A c \in events : c \in Nat /\ c <= MaxEvents
    BY <1>0 DEF Cursors
  <2> QED
    BY <1>0, <2>1
<1>2. g = Greatest(news \cup {s.cursor})
  BY DEF SendAll, StreamStates
<1>3. /\ g \in news \cup {s.cursor}
      /\ \A c \in news \cup {s.cursor} : c <= g
  BY <1>1, <1>2, GreatestIs
<1>4. g \in Nat
  BY <1>0, <1>1, <1>3
<1>5. ASSUME NEW c \in events PROVE c <= g
  <2>1. c \in Nat
    BY DEF Cursors
  <2>2. CASE c > s.cursor
    BY <1>3, <2>2
  <2>3. CASE c <= s.cursor
    BY <1>0, <1>3, <1>4, <2>1, <2>3
  <2> QED
    BY <1>0, <2>1, <2>2, <2>3
<1> QED
  BY <1>1, <1>3, <1>5

-----------------------------------------------------------------------------
(* Emitters.                                                               *)

\* The step of one emitter.
Moves(e, step, c) ==
    /\ emitter' \in [Emitters -> EmitterStates]
    /\ emitter'[e].step = step
    /\ emitter'[e].cursor = c
    /\ \A other \in Emitters \ {e} : emitter'[other] = emitter[other]

LEMMA EmitterMoves ==
  ASSUME StreamTypeOK, CursorsAreDistinct, NEW e \in Emitters
  PROVE  /\ Put(e) \/ Stream(e) => Moves(e, "append", emitter[e].cursor)
         /\ AppendEvent(e) => Moves(e, "commit", sequence + 1) /\ sequence + 1 \in Cursors
         /\ CommitEvent(e) => Moves(e, "publish", emitter[e].cursor)
         /\ FailToEmit(e) => Moves(e, "idle", 0)
         /\ Publish(e) => Moves(e, "idle", 0)
<1>0. MaxEvents \in Nat /\ MaxWrites \in Nat /\ sequence \in Nat
  BY StreamAssumption DEF StreamTypeOK
<1>1. PICK old \in EmitterStates : old = emitter[e]
  BY DEF StreamTypeOK
<1>2. /\ old.step \in Steps /\ old.event \in Contents \cup {0} /\ old.cursor \in 0..MaxEvents
      /\ 0 \in 0..MaxEvents
      /\ {"idle", "append", "commit", "publish"} \subseteq Steps
  BY <1>0, <1>1 DEF EmitterStates, Steps
<1>3. ASSUME NEW q \in EmitterStates, emitter' = [emitter EXCEPT ![e] = q]
      PROVE  Moves(e, q.step, q.cursor)
  BY <1>3 DEF Moves, StreamTypeOK
<1>4. ASSUME NEW content1 \in Contents, emitter' = [emitter EXCEPT ![e] = [@ EXCEPT !.step = "append", !.event = content1]]
      PROVE  Moves(e, "append", emitter[e].cursor)
  <2> DEFINE q == [old EXCEPT !.step = "append", !.event = content1]
  <2>1. q \in EmitterStates /\ q.step = "append" /\ q.cursor = old.cursor
    BY <1>2 DEF EmitterStates
  <2>2. emitter' = [emitter EXCEPT ![e] = q]
    BY <1>1, <1>4 DEF StreamTypeOK
  <2> HIDE DEF q
  <2> QED
    BY <1>1, <1>3, <2>1, <2>2
<1>5. CASE Put(e)
  <2>1. version + 1 \in Contents
    BY <1>0, <1>5 DEF Put, StreamTypeOK, Contents
  <2> QED
    BY <1>4, <1>5, <2>1 DEF Put, AppendEvent, CommitEvent, FailToEmit, Publish, Stream
<1>6. CASE Stream(e)
  BY <1>4, <1>6 DEF Put, AppendEvent, CommitEvent, FailToEmit, Publish, Stream, Contents
<1>7. ASSUME AppendEvent(e) PROVE Moves(e, "commit", sequence + 1) /\ sequence + 1 \in Cursors
  <2>1. e \in Appending
    BY <1>7 DEF Appending, AppendEvent
  <2>2. IsFiniteSet(Appending) /\ Cardinality(Appending) \in Nat /\ Cardinality(Appending) # 0
    <3>1. IsFiniteSet(Appending)
      BY StreamAssumption, FS_Subset DEF Appending
    <3> QED
      BY <2>1, <3>1, FS_CardinalityType, FS_EmptySet
  <2>3. sequence + 1 \in Cursors /\ sequence + 1 \in 0..MaxEvents
    BY <1>0, <2>2 DEF CursorsAreDistinct, Cursors
  <2> DEFINE q == [old EXCEPT !.step = "commit", !.cursor = sequence + 1]
  <2>4. q \in EmitterStates /\ q.step = "commit" /\ q.cursor = sequence + 1
    BY <1>2, <2>3 DEF EmitterStates
  <2>5. emitter' = [emitter EXCEPT ![e] = q]
    BY <1>1, <1>7 DEF StreamTypeOK, AppendEvent
  <2> HIDE DEF q
  <2> QED
    BY <1>3, <2>3, <2>4, <2>5
<1>8. ASSUME CommitEvent(e) PROVE Moves(e, "publish", emitter[e].cursor)
  <2> DEFINE q == [old EXCEPT !.step = "publish"]
  <2>1. q \in EmitterStates /\ q.step = "publish" /\ q.cursor = old.cursor
    BY <1>2 DEF EmitterStates
  <2>2. emitter' = [emitter EXCEPT ![e] = q]
    BY <1>1, <1>8 DEF StreamTypeOK, CommitEvent
  <2> HIDE DEF q
  <2> QED
    BY <1>1, <1>3, <2>1, <2>2
<1>9. [step |-> "idle", event |-> 0, cursor |-> 0] \in EmitterStates
  BY <1>2 DEF EmitterStates
<1>10. ASSUME FailToEmit(e) \/ Publish(e) PROVE Moves(e, "idle", 0)
  BY <1>3, <1>9, <1>10 DEF FailToEmit, Publish
<1> QED
  BY <1>4, <1>5, <1>6, <1>7, <1>8, <1>10

\* Every emitter that is to append still finds a cursor.
LEMMA CursorsRemain ==
  ASSUME StreamTypeOK, CursorsAreDistinct, NEW e \in Emitters, NEW step, NEW c, Moves(e, step, c),
         \/ step = "append" /\ emitter[e].step # "append" /\ CursorsLeft /\ sequence' = sequence
         \/ step # "append" /\ emitter[e].step = "append" /\ sequence' = sequence + 1
         \/ step # "append" /\ sequence' = sequence
  PROVE  sequence' + Cardinality(Appending') <= MaxEvents
<1>0. MaxEvents \in Nat /\ sequence \in Nat
  BY StreamAssumption DEF StreamTypeOK
<1>1. IsFiniteSet(Appending) /\ Cardinality(Appending) \in Nat
  BY StreamAssumption, FS_Subset, FS_CardinalityType DEF Appending
<1>2. CASE step = "append" /\ emitter[e].step # "append" /\ CursorsLeft /\ sequence' = sequence
  <2>1. Appending' = Appending \cup {e} /\ e \notin Appending
    BY <1>2 DEF Appending, Moves
  <2>2. Cardinality(Appending') = Cardinality(Appending) + 1
    BY <1>1, <2>1, FS_AddElement
  <2>3. sequence + Cardinality(Appending) < MaxEvents
    BY <1>2 DEF CursorsLeft, Appending
  <2> QED
    BY <1>0, <1>1, <1>2, <2>2, <2>3
<1>3. CASE step # "append"
  <2>1. Appending' = Appending \ {e}
    BY <1>3 DEF Appending, Moves
  <2>2. Cardinality(Appending') = IF e \in Appending THEN Cardinality(Appending) - 1 ELSE Cardinality(Appending)
    BY <1>1, <2>1, FS_RemoveElement
  <2>3. emitter[e].step = "append" => e \in Appending
    BY DEF Appending
  <2> QED
    BY <1>0, <1>1, <1>3, <2>2, <2>3 DEF CursorsAreDistinct
<1> QED
  BY <1>2, <1>3

\* What is in pending is kept, what is published is added to it, or sent.
LEMMA ListenTyped ==
  ASSUME NEW s \in StreamStates, NEW c \in Cursors
  PROVE  Listen(s, c) \in StreamStates
<1>0. MaxEvents \in Nat
  BY StreamAssumption
<1>1. c \in 0..MaxEvents
  BY <1>0 DEF Cursors
<1>2. s.step \in {"closed", "read", "replay", "follow"} /\ s.cursor \in 0..MaxEvents
      /\ s.pending \in Seq(Cursors) /\ s.wire \in SUBSET Cursors /\ s.sent \in SUBSET Cursors
  BY DEF StreamStates
<1>3. Append(s.pending, c) \in Seq(Cursors)
  BY <1>2
<1>4. [s EXCEPT !.pending = Append(@, c)] \in StreamStates
  BY <1>3 DEF StreamStates
<1>5. Send(s, c) \in StreamStates
  <2>1. s.wire \cup {c} \in SUBSET Cursors /\ s.sent \cup {c} \in SUBSET Cursors
    BY <1>2
  <2> QED
    BY <1>1, <2>1 DEF Send, StreamStates
<1> QED
  BY <1>2, <1>4, <1>5 DEF Listen

EmitterStep(e) ==
    \/ (Put(e) \/ Stream(e) \/ AppendEvent(e) \/ CommitEvent(e) \/ FailToEmit(e)) /\ UNCHANGED stream
    \/ Publish(e)

LEMMA EmitTyped ==
  ASSUME StreamTypeOK, CursorsAreDistinct, NEW e \in Emitters, EmitterStep(e)
  PROVE  StreamTypeOK'
<1>0. /\ MaxEvents \in Nat /\ MaxWrites \in Nat /\ MaxFaults \in Nat
      /\ sequence \in Nat /\ sequence <= MaxEvents /\ version \in Nat /\ version <= MaxWrites
      /\ faults \in Nat /\ faults <= MaxFaults
      /\ log \in SUBSET (1..sequence)
      /\ content \in [Cursors -> Contents \cup {0}] /\ reordered \in BOOLEAN /\ stream \in StreamStates
  BY StreamAssumption DEF StreamTypeOK
<1>1. emitter' \in [Emitters -> EmitterStates]
  BY EmitterMoves DEF EmitterStep, Moves
<1>2. emitter[e].event \in Contents \cup {0}
  BY DEF StreamTypeOK, EmitterStates
<1>3. CASE Put(e) /\ UNCHANGED stream
  BY <1>0, <1>1, <1>3 DEF Put, StreamTypeOK
<1>4. CASE Stream(e) /\ UNCHANGED stream
  BY <1>0, <1>1, <1>4 DEF Stream, StreamTypeOK
<1>5. CASE AppendEvent(e) /\ UNCHANGED stream
  <2>1. sequence' \in 0..MaxEvents /\ sequence' = sequence + 1
    <3>1. sequence + 1 \in Cursors
      BY <1>5, EmitterMoves
    <3> QED
      BY <1>0, <1>5, <3>1 DEF AppendEvent, Cursors
  <2>2. log' \in SUBSET (1..sequence')
    BY <1>0, <1>5, <2>1 DEF AppendEvent
  <2>3. content' \in [Cursors -> Contents \cup {0}]
    BY <1>0, <1>2, <1>5 DEF AppendEvent
  <2> QED
    BY <1>0, <1>1, <1>5, <2>1, <2>2, <2>3 DEF AppendEvent, StreamTypeOK
<1>6. CASE CommitEvent(e) /\ UNCHANGED stream
  <2>1. emitter[e].cursor \in 1..sequence
    BY <1>6 DEF CommitEvent, CursorsAreDistinct
  <2>2. log' \in SUBSET (1..sequence') /\ reordered' \in BOOLEAN
    BY <1>0, <1>6, <2>1 DEF CommitEvent
  <2> QED
    BY <1>0, <1>1, <1>6, <2>2 DEF CommitEvent, StreamTypeOK
<1>7. CASE FailToEmit(e) /\ UNCHANGED stream
  BY <1>0, <1>1, <1>7 DEF FailToEmit, StreamTypeOK
<1>8. CASE Publish(e)
  <2>1. emitter[e].cursor \in Cursors
    <3>1. emitter[e].cursor \in 1..sequence
      BY <1>0, <1>8 DEF Publish, CursorsAreDistinct
    <3> QED
      BY <1>0, <3>1 DEF Cursors
  <2>2. stream' \in StreamStates /\ reordered' \in BOOLEAN
    BY <1>0, <1>8, <2>1, ListenTyped DEF Publish
  <2> QED
    BY <1>0, <1>1, <1>8, <2>2 DEF Publish, StreamTypeOK
<1> QED
  BY <1>3, <1>4, <1>5, <1>6, <1>7, <1>8 DEF EmitterStep

LEMMA EmitDistinct ==
  ASSUME StreamTypeOK, CursorsAreDistinct, NEW e \in Emitters, EmitterStep(e)
  PROVE  CursorsAreDistinct'
<1>0. /\ MaxEvents \in Nat /\ sequence \in Nat /\ log \in SUBSET (1..sequence)
      /\ \A f \in Emitters : emitter[f].step \in Steps /\ emitter[f].cursor \in 0..MaxEvents
  BY StreamAssumption DEF StreamTypeOK, EmitterStates
<1>1. \A f \in Emitting : emitter[f].cursor \in 1..sequence
  BY <1>0 DEF Emitting, CursorsAreDistinct
<1>2. CASE (Put(e) \/ Stream(e)) /\ UNCHANGED stream
  <2>1. Moves(e, "append", emitter[e].cursor) /\ UNCHANGED <<sequence, log>>
        /\ emitter[e].step = "idle" /\ CursorsLeft
    BY <1>2, EmitterMoves DEF Put, Stream
  <2>2. sequence' + Cardinality(Appending') <= MaxEvents
    BY <2>1, CursorsRemain
  <2>3. Emitting' = Emitting /\ \A f \in Emitting : emitter'[f] = emitter[f]
    BY <2>1 DEF Emitting, Moves
  <2> QED
    BY <2>1, <2>2, <2>3 DEF CursorsAreDistinct, Moves
<1>3. CASE AppendEvent(e) /\ UNCHANGED stream
  <2>1. Moves(e, "commit", sequence + 1) /\ sequence' = sequence + 1 /\ log' = log
        /\ emitter[e].step = "append"
    BY <1>3, EmitterMoves DEF AppendEvent
  <2>2. sequence' + Cardinality(Appending') <= MaxEvents
    BY <2>1, CursorsRemain
  <2>3. Emitting' = Emitting \cup {e} /\ \A f \in Emitting : emitter'[f] = emitter[f] /\ f # e
    BY <2>1 DEF Emitting, Moves
  <2>4. \A f \in Emitting : emitter'[f].cursor # sequence + 1
    BY <1>0, <1>1, <2>3
  <2>5. sequence + 1 \notin log /\ sequence + 1 \in 1..sequence'
    BY <1>0, <2>1
  <2>6. \A f \in Emitters : emitter'[f].step = "commit" => emitter'[f].cursor \in (1..sequence') \ log'
    BY <1>0, <2>1, <2>5 DEF Moves, CursorsAreDistinct
  <2> QED
    BY <2>1, <2>2, <2>3, <2>4, <2>6 DEF CursorsAreDistinct, Moves
<1>4. CASE CommitEvent(e) /\ UNCHANGED stream
  <2>1. Moves(e, "publish", emitter[e].cursor) /\ sequence' = sequence
        /\ log' = log \cup {emitter[e].cursor} /\ emitter[e].step = "commit"
    BY <1>4, EmitterMoves DEF CommitEvent
  <2>2. sequence' + Cardinality(Appending') <= MaxEvents
    BY <2>1, CursorsRemain
  <2>3. Emitting' = Emitting /\ e \in Emitting /\ \A f \in Emitting : emitter'[f].cursor = emitter[f].cursor
    BY <2>1 DEF Emitting, Moves
  <2>4. \A f \in Emitters : emitter'[f].step = "commit" => emitter'[f].cursor \in (1..sequence') \ log'
    <3>1. ASSUME NEW f \in Emitters, emitter'[f].step = "commit" PROVE f # e /\ f \in Emitting /\ emitter'[f] = emitter[f]
      BY <2>1, <3>1 DEF Moves, Emitting
    <3> QED
      BY <2>1, <2>3, <3>1 DEF CursorsAreDistinct
  <2> QED
    BY <2>1, <2>2, <2>3, <2>4 DEF CursorsAreDistinct, Moves
<1>5. CASE FailToEmit(e) /\ UNCHANGED stream
  <2>1. Moves(e, "idle", 0) /\ UNCHANGED <<sequence, log>>
    BY <1>5, EmitterMoves DEF FailToEmit
  <2>2. sequence' + Cardinality(Appending') <= MaxEvents
    BY <2>1, CursorsRemain
  <2> QED
    BY <2>1, <2>2 DEF CursorsAreDistinct, Emitting, Moves
<1>6. CASE Publish(e)
  <2>1. Moves(e, "idle", 0) /\ UNCHANGED <<sequence, log>>
    BY <1>6, EmitterMoves DEF Publish
  <2>2. sequence' + Cardinality(Appending') <= MaxEvents
    BY <2>1, CursorsRemain
  <2> QED
    BY <2>1, <2>2 DEF CursorsAreDistinct, Emitting, Moves
<1> QED
  BY <1>2, <1>3, <1>4, <1>5, <1>6 DEF EmitterStep

\* What the steps of emitters do to the log, and what they show when nothing has
\* been overtaken.
Unmoved == log' = log /\ Published' = Published /\ reordered' = reordered

Commits(c) ==
    /\ c \in Cursors \ log
    /\ log' = log \cup {c}
    /\ Published' = Published
    /\ ~reordered' => ~reordered /\ \A d \in log : d < c

Publishes(c) ==
    /\ c \in log \ Published
    /\ log' = log
    /\ Published' = Published \cup {c}
    /\ ~reordered' => /\ ~reordered
                      /\ \A d \in Published : d < c
                      /\ \A d \in log \ Published' : c < d

LEMMA LogGrows ==
  ASSUME StreamTypeOK, CursorsAreDistinct, LogIsInOrder, NEW e \in Emitters, EmitterStep(e)
  PROVE  /\ LogIsInOrder'
         /\ \/ Unmoved /\ UNCHANGED stream
            \/ \E c \in Cursors : Commits(c) /\ UNCHANGED stream
            \/ \E c \in Cursors : Publishes(c) /\ stream' = Listen(stream, c)
<1>0. /\ MaxEvents \in Nat /\ sequence \in Nat /\ sequence <= MaxEvents /\ log \in SUBSET (1..sequence)
      /\ \A f \in Emitters : emitter[f].step \in Steps /\ emitter[f].cursor \in 0..MaxEvents
      /\ reordered \in BOOLEAN
  BY StreamAssumption DEF StreamTypeOK, EmitterStates
<1>a. \A c \in 1..sequence : c \in Cursors /\ c \in Nat
  BY <1>0 DEF Cursors
<1>b. \A f \in Emitting : emitter[f].cursor \in 1..sequence
  BY <1>0 DEF Emitting, CursorsAreDistinct
<1>1. Published = log \ {emitter[f].cursor : f \in {x \in Emitters : emitter[x].step = "publish"}}
  BY DEF Published
<1>2. Published' = log' \ {emitter'[f].cursor : f \in {x \in Emitters : emitter'[x].step = "publish"}}
  BY DEF Published
<1>3. CASE (Put(e) \/ Stream(e)) /\ UNCHANGED stream
  <2>1. Moves(e, "append", emitter[e].cursor) /\ UNCHANGED <<log, reordered>> /\ emitter[e].step = "idle"
    BY <1>3, EmitterMoves DEF Put, Stream
  <2>2. \A x \in Emitters : emitter'[x].step = "publish" <=> emitter[x].step = "publish"
    BY <2>1 DEF Moves
  <2>3. \A x \in Emitters : emitter'[x].cursor = emitter[x].cursor
    BY <2>1 DEF Moves
  <2>4. Published' = Published
    BY <1>1, <1>2, <2>1, <2>2, <2>3
  <2>5. Emitting' = Emitting
    BY <2>1 DEF Emitting, Moves
  <2>6. LogIsInOrder'
    <3>1. \A x \in Emitters : emitter'[x].step = "commit" <=> emitter[x].step = "commit"
      BY <2>1 DEF Moves
    <3> QED
      BY <2>1, <2>3, <2>4, <2>5, <3>1, Zenon DEF LogIsInOrder, Emitting
  <2> QED
    BY <1>3, <2>1, <2>4, <2>6 DEF Unmoved
<1>4. CASE AppendEvent(e) /\ UNCHANGED stream
  <2>1. Moves(e, "commit", sequence + 1) /\ UNCHANGED <<log, reordered>> /\ emitter[e].step = "append"
    BY <1>4, EmitterMoves DEF AppendEvent
  <2>2. \A x \in Emitters : emitter'[x].step = "publish" <=> emitter[x].step = "publish"
    BY <2>1 DEF Moves
  <2>3. \A x \in Emitters : emitter[x].step = "publish" => emitter'[x].cursor = emitter[x].cursor
    BY <2>1 DEF Moves
  <2>4. Published' = Published
    BY <1>1, <1>2, <2>1, <2>2, <2>3
  <2>5. \A c \in log : c < sequence + 1
    BY <1>0
  <2>6. \A x \in Emitting' : x = e \/ (x \in Emitting /\ emitter'[x] = emitter[x])
    BY <2>1 DEF Emitting, Moves
  <2>7. \A c \in Published : c \in log
    BY <1>1
  <2>8. LogIsInOrder'
    <3> SUFFICES ASSUME ~reordered PROVE LogIsInOrder'
      BY <2>1 DEF LogIsInOrder
    <3>1. \A f \in Emitters : emitter'[f].step = "commit" => \A c \in log : c < emitter'[f].cursor
      <4> SUFFICES ASSUME NEW f \in Emitters, emitter'[f].step = "commit" PROVE \A c \in log : c < emitter'[f].cursor
        OBVIOUS
      <4>1. CASE f = e
        BY <2>1, <2>5, <4>1 DEF Moves
      <4>2. CASE f # e
        BY <2>1, <4>2 DEF Moves, LogIsInOrder
      <4> QED
        BY <4>1, <4>2
    <3>2. \A f \in Emitting' : \A c \in Published : c < emitter'[f].cursor
      <4> SUFFICES ASSUME NEW f \in Emitting' PROVE \A c \in Published : c < emitter'[f].cursor
        OBVIOUS
      <4>1. CASE f = e
        BY <2>1, <2>5, <2>7, <4>1 DEF Moves
      <4>2. CASE f # e
        BY <2>6, <4>2 DEF LogIsInOrder
      <4> QED
        BY <4>1, <4>2
    <3> QED
      BY <2>1, <2>4, <3>1, <3>2 DEF LogIsInOrder
  <2> QED
    BY <1>4, <2>1, <2>4, <2>8 DEF Unmoved
<1>5. CASE CommitEvent(e) /\ UNCHANGED stream
  <2> DEFINE c == emitter[e].cursor
  <2>1. Moves(e, "publish", c) /\ log' = log \cup {c} /\ emitter[e].step = "commit"
        /\ reordered' = (reordered \/ Overtakes(e, {"commit"}))
    BY <1>5, EmitterMoves DEF CommitEvent
  <2>2. c \in (1..sequence) \ log /\ c \in Cursors /\ c \in Nat
    BY <1>a, <2>1 DEF CursorsAreDistinct
  <2>3. \A x \in Emitters : emitter'[x].cursor = emitter[x].cursor
    BY <2>1 DEF Moves
  <2>4. \A x \in Emitters : emitter'[x].step = "publish" <=> (x = e \/ emitter[x].step = "publish")
    BY <2>1 DEF Moves
  <2>5. Published' = Published
    BY <1>1, <1>2, <2>1, <2>2, <2>3, <2>4
  <2>6. Emitting' = Emitting /\ e \in Emitting
    BY <2>1 DEF Emitting, Moves
  <2>7. ~reordered' => ~reordered /\ \A d \in log : d < c
    BY <1>0, <2>1 DEF LogIsInOrder
  <2>8. LogIsInOrder'
    <3> SUFFICES ASSUME ~reordered' PROVE LogIsInOrder'
      BY DEF LogIsInOrder
    <3>1. ASSUME NEW f \in Emitters, emitter'[f].step = "commit" PROVE \A d \in log' : d < emitter'[f].cursor
      <4>1. f # e /\ emitter[f].step = "commit" /\ f \in Emitting
        BY <2>1, <3>1 DEF Moves, Emitting
      <4>2. \A d \in log : d < emitter[f].cursor
        BY <2>7, <3>1, <4>1 DEF LogIsInOrder
      <4>3. ~(emitter[f].cursor < c)
        BY <2>1, <4>1 DEF Overtakes
      <4>4. emitter[f].cursor # c
        BY <2>6, <4>1 DEF CursorsAreDistinct
      <4>5. c < emitter[f].cursor
        BY <1>b, <1>a, <2>2, <4>1, <4>3, <4>4
      <4> QED
        BY <2>1, <2>3, <4>2, <4>5
    <3>2. \A f \in Emitting : \A d \in Published : d < emitter[f].cursor
      BY <2>7 DEF LogIsInOrder
    <3> QED
      BY <2>3, <2>5, <2>6, <3>1, <3>2 DEF LogIsInOrder, Emitting
  <2>9. Commits(c)
    BY <2>1, <2>2, <2>5, <2>7 DEF Commits
  <2> QED
    BY <1>5, <2>2, <2>8, <2>9
<1>6. CASE FailToEmit(e) /\ UNCHANGED stream
  <2>1. Moves(e, "idle", 0) /\ UNCHANGED <<log, reordered>> /\ emitter[e].step \in {"append", "commit"}
    BY <1>6, EmitterMoves DEF FailToEmit
  <2>2. \A x \in Emitters : emitter'[x].step = "publish" <=> emitter[x].step = "publish"
    BY <2>1 DEF Moves
  <2>3. \A x \in Emitters : emitter[x].step = "publish" => emitter'[x].cursor = emitter[x].cursor
    BY <2>1 DEF Moves
  <2>4. Published' = Published
    BY <1>1, <1>2, <2>1, <2>2, <2>3
  <2>5. \A x \in Emitting' : x \in Emitting /\ emitter'[x] = emitter[x]
    BY <2>1 DEF Emitting, Moves
  <2>6. LogIsInOrder'
    BY <2>1, <2>4, <2>5 DEF LogIsInOrder, Moves
  <2> QED
    BY <1>6, <2>1, <2>4, <2>6 DEF Unmoved
<1>7. CASE Publish(e)
  <2> DEFINE c == emitter[e].cursor
  <2>1. Moves(e, "idle", 0) /\ log' = log /\ emitter[e].step = "publish"
        /\ reordered' = (reordered \/ Overtakes(e, {"commit", "publish"})) /\ stream' = Listen(stream, c)
    BY <1>7, EmitterMoves DEF Publish
  <2>2. e \in Emitting /\ c \in log /\ c \in Cursors /\ c \in Nat
    BY <1>0, <1>a, <2>1 DEF CursorsAreDistinct, Emitting
  <2>3. \A x \in Emitters : x # e => emitter'[x] = emitter[x]
    BY <2>1 DEF Moves
  <2>4. \A x \in Emitters : emitter'[x].step = "publish" <=> (x # e /\ emitter[x].step = "publish")
    BY <2>1 DEF Moves
  <2>5. \A x \in Emitters : x # e /\ emitter[x].step = "publish" => emitter[x].cursor # c
    BY <2>2 DEF CursorsAreDistinct, Emitting
  <2>6. Published' = Published \cup {c} /\ c \notin Published
    <3>1. \A d \in log : d \in Published <=> \A x \in Emitters : emitter[x].step = "publish" => emitter[x].cursor # d
      BY <1>1
    <3>2. \A d \in log : d \in Published' <=> \A x \in Emitters : emitter'[x].step = "publish" => emitter'[x].cursor # d
      BY <1>2, <2>1
    <3>3. \A d \in log : d \in Published' <=> d \in Published \/ d = c
      BY <2>1, <2>3, <2>4, <2>5, <3>1, <3>2
    <3> QED
      BY <1>1, <1>2, <2>1, <2>2, <3>1, <3>3
  <2>7. \A x \in Emitting' : x # e /\ x \in Emitting /\ emitter'[x] = emitter[x]
    BY <2>1 DEF Emitting, Moves
  <2>8. ASSUME ~reordered', NEW x \in Emitting, x # e PROVE c < emitter[x].cursor
    <3>1. ~(emitter[x].cursor < c)
      BY <2>1, <2>8 DEF Overtakes, Emitting
    <3>2. emitter[x].cursor # c
      BY <2>2, <2>8 DEF CursorsAreDistinct
    <3> QED
      BY <1>a, <1>b, <2>2, <3>1, <3>2
  <2>9. ~reordered' => ~reordered /\ \A d \in Published : d < c
    BY <1>0, <2>1, <2>2 DEF LogIsInOrder
  <2>10. ASSUME ~reordered', NEW d \in log \ Published' PROVE c < d
    <3>1. PICK x \in Emitters : emitter'[x].step = "publish" /\ emitter'[x].cursor = d
      BY <1>2, <2>1, <2>10
    <3> QED
      BY <2>3, <2>4, <2>8, <2>10, <3>1 DEF Emitting
  <2>11. LogIsInOrder'
    <3> SUFFICES ASSUME ~reordered' PROVE LogIsInOrder'
      BY DEF LogIsInOrder
    <3>1. \A f \in Emitters : emitter'[f].step = "commit" => \A d \in log' : d < emitter'[f].cursor
      BY <2>1, <2>3, <2>9 DEF LogIsInOrder, Moves
    <3>2. \A f \in Emitting' : \A d \in Published' : d < emitter'[f].cursor
      BY <2>6, <2>7, <2>8, <2>9 DEF LogIsInOrder
    <3> QED
      BY <3>1, <3>2 DEF LogIsInOrder
  <2>12. Publishes(c)
    BY <2>1, <2>2, <2>6, <2>9, <2>10 DEF Publishes
  <2> QED
    BY <2>1, <2>2, <2>11, <2>12
<1> QED
  BY <1>3, <1>4, <1>5, <1>6, <1>7 DEF EmitterStep

-----------------------------------------------------------------------------
(* The stream.                                                             *)

ConnectionInv == PendingIsPublished /\ NothingIsSentYet /\ ReplayIsComplete /\ NothingIsSkipped

LEMMA PublishedIsLogged == Published \subseteq log
  BY DEF Published

\* A step that leaves the log alone, and what the connection has to keep.
LEMMA QuietKeeps ==
  ASSUME StreamTypeOK, ConnectionInv, Unmoved,
         stream' = stream \/ \E wire \in SUBSET Cursors : stream' = [stream EXCEPT !.wire = wire]
  PROVE  ConnectionInv'
<1>1. /\ stream'.step = stream.step /\ stream'.after = stream.after
      /\ stream'.cursor = stream.cursor /\ stream'.batch = stream.batch
      /\ stream'.pending = stream.pending /\ stream'.sent = stream.sent
      /\ stream'.whole = stream.whole
  BY DEF StreamTypeOK, StreamStates
<1>2. After(stream.after)' = After(stream.after)
  BY <1>1 DEF After, Unmoved
<1>3. PendingIsPublished'
  BY <1>1 DEF ConnectionInv, PendingIsPublished, Unmoved
<1>4. NothingIsSentYet'
  BY <1>1 DEF ConnectionInv, NothingIsSentYet
<1>5. ReplayIsComplete'
  BY <1>1, <1>2 DEF ConnectionInv, ReplayIsComplete, Unmoved
<1>6. NothingIsSkipped'
  BY <1>1, <1>2 DEF ConnectionInv, NothingIsSkipped, Unmoved
<1> QED
  BY <1>3, <1>4, <1>5, <1>6 DEF ConnectionInv

LEMMA OpensEmpty ==
  ASSUME stream' = Closed \/ \E at \in 0..MaxEvents : stream' = Opened(at)
  PROVE  ConnectionInv'
<1>1. /\ stream'.step \in {"closed", "read"} /\ stream'.cursor = stream'.after
      /\ stream'.pending = <<>> /\ stream'.sent = {}
  <2>1. CASE stream' = Closed
    BY <2>1 DEF Closed
  <2>2. ASSUME NEW at \in 0..MaxEvents, stream' = Opened(at)
        PROVE  /\ stream'.step = "read" /\ stream'.cursor = at /\ stream'.after = at
               /\ stream'.pending = <<>> /\ stream'.sent = {}
    BY <2>2 DEF Closed, Opened
  <2> QED
    BY <2>1, <2>2
<1> QED
  BY <1>1 DEF ConnectionInv, PendingIsPublished, NothingIsSentYet, ReplayIsComplete, NothingIsSkipped

\* An event that is committed comes after the log, and is not published yet.
LEMMA CommitKeeps ==
  ASSUME StreamTypeOK, ConnectionInv, NEW c \in Cursors, Commits(c), stream' = stream
  PROVE  ConnectionInv'
<1>0. /\ MaxEvents \in Nat /\ log \subseteq Cursors
      /\ stream.after \in Nat /\ stream.cursor \in Nat /\ c \in Nat
      /\ stream.batch \in SUBSET Cursors
  <2>1. MaxEvents \in Nat /\ sequence \in Nat /\ sequence <= MaxEvents /\ log \subseteq 1..sequence
    BY StreamAssumption DEF StreamTypeOK
  <2> QED
    BY <2>1 DEF StreamTypeOK, StreamStates, Cursors
<1>1. /\ log' = log \cup {c} /\ Published' = Published /\ c \notin log
      /\ ~reordered' => ~reordered /\ \A d \in log : d < c
  BY DEF Commits
<1>2. After(stream.after) \subseteq After(stream.after)' /\ After(stream.after)' \subseteq After(stream.after) \cup {c}
  BY <1>1 DEF After
<1>3. PendingIsPublished'
  BY <1>1 DEF ConnectionInv, PendingIsPublished
<1>4. NothingIsSentYet'
  BY DEF ConnectionInv, NothingIsSentYet
<1>5. ReplayIsComplete'
  <2> SUFFICES ASSUME stream.step = "replay" PROVE ReplayIsComplete'
    BY DEF ReplayIsComplete
  <2>1. stream.batch \subseteq After(stream.after) /\ stream.batch \subseteq log
    BY DEF ConnectionInv, ReplayIsComplete, After
  <2>2. ASSUME ~reordered', stream.whole
        PROVE  \A d \in After(stream.after)' \ stream.batch : \A b \in stream.batch : b < d
    BY <1>1, <1>2, <2>1, <2>2 DEF ConnectionInv, ReplayIsComplete
  <2>3. ASSUME ~reordered', stream.whole
        PROVE  \A d \in Published : d > stream.after =>
                  d \in stream.batch \/ \E n \in DOMAIN stream.pending : stream.pending[n] = d
    BY <1>1, <2>3 DEF ConnectionInv, ReplayIsComplete
  <2> QED
    BY <1>1, <1>2, <2>1, <2>2, <2>3 DEF ReplayIsComplete
<1>6. NothingIsSkipped'
  <2> SUFFICES ASSUME stream.step = "follow" PROVE NothingIsSkipped'
    BY DEF NothingIsSkipped
  <2>1. /\ stream.sent \subseteq After(stream.after)
        /\ stream.cursor \in stream.sent \cup {stream.after}
    BY DEF ConnectionInv, NothingIsSkipped
  <2>2. ASSUME ~reordered', stream.whole, NEW d \in After(stream.after)',
               d \in Published \/ d <= stream.cursor
        PROVE  d \in stream.sent
    <3>1. CASE d \in After(stream.after)
      BY <1>1, <2>2, <3>1 DEF ConnectionInv, NothingIsSkipped
    <3>2. CASE d = c
      <4>1. c \notin Published
        BY <1>1, PublishedIsLogged
      <4>2. c > stream.after
        BY <2>2, <3>2 DEF After
      <4>3. CASE stream.cursor = stream.after
        BY <1>0, <2>2, <3>2, <4>1, <4>2, <4>3
      <4>4. CASE stream.cursor \in stream.sent
        <5>1. stream.cursor < c
          BY <1>1, <2>1, <2>2, <4>4 DEF After
        <5> QED
          BY <1>0, <2>2, <3>2, <4>1, <5>1
      <4> QED
        BY <2>1, <4>3, <4>4
    <3> QED
      BY <1>2, <3>1, <3>2
  <2> QED
    BY <1>1, <1>2, <2>1, <2>2 DEF NothingIsSkipped
<1> QED
  BY <1>3, <1>4, <1>5, <1>6 DEF ConnectionInv

\* An event that is published is kept for later, or sent.
LEMMA PublishKeeps ==
  ASSUME StreamTypeOK, ConnectionInv, NEW c \in Cursors, Publishes(c), stream' = Listen(stream, c)
  PROVE  ConnectionInv'
<1>0. /\ MaxEvents \in Nat /\ log \subseteq Cursors /\ log \subseteq Nat
      /\ stream.after \in Nat /\ stream.cursor \in Nat /\ c \in Nat
      /\ stream.pending \in Seq(Cursors) /\ stream \in StreamStates
  <2>1. MaxEvents \in Nat /\ sequence \in Nat /\ sequence <= MaxEvents /\ log \subseteq 1..sequence
    BY StreamAssumption DEF StreamTypeOK
  <2> QED
    BY <2>1 DEF StreamTypeOK, StreamStates, Cursors
<1>1. /\ log' = log /\ Published' = Published \cup {c} /\ c \in log /\ c \notin Published
      /\ ~reordered' => /\ ~reordered /\ \A d \in Published : d < c
                        /\ \A d \in log \ Published' : c < d
  BY DEF Publishes
<1>2. \A at : After(at)' = After(at)
  BY <1>1 DEF After
<1>3. CASE stream.step = "closed"
  <2>1. stream' = stream
    BY <1>3 DEF Listen
  <2> QED
    BY <1>1, <1>3, <2>1 DEF ConnectionInv, PendingIsPublished, NothingIsSentYet, ReplayIsComplete, NothingIsSkipped
<1>4. CASE stream.step \in {"read", "replay"}
  <2> DEFINE p == stream.pending
             q == Append(p, c)
  <2>1. stream' = [stream EXCEPT !.pending = q]
    BY <1>4 DEF Listen
  <2>2. /\ stream'.step = stream.step /\ stream'.after = stream.after /\ stream'.cursor = stream.cursor
        /\ stream'.batch = stream.batch /\ stream'.sent = stream.sent /\ stream'.whole = stream.whole
        /\ stream'.pending = q
    BY <1>0, <2>1 DEF StreamStates
  <2>3. /\ Len(p) \in Nat /\ DOMAIN p = 1..Len(p) /\ DOMAIN q = 1..(Len(p) + 1)
        /\ q[Len(p) + 1] = c /\ \A n \in DOMAIN p : q[n] = p[n] /\ n \in DOMAIN q
    BY <1>0
  <2>4. \A n \in DOMAIN q : n = Len(p) + 1 \/ n \in DOMAIN p
    BY <2>3
  <2> HIDE DEF q
  <2>5. PendingIsPublished'
    <3>1. \A n \in DOMAIN q : q[n] \in log
      BY <1>1, <2>3, <2>4 DEF ConnectionInv, PendingIsPublished
    <3>2. ASSUME ~reordered' PROVE \A n \in DOMAIN q : q[n] \in Published'
      BY <1>1, <2>3, <2>4, <3>2 DEF ConnectionInv, PendingIsPublished
    <3>3. ASSUME ~reordered', NEW n \in DOMAIN q, NEW m \in DOMAIN q, n < m PROVE q[n] < q[m]
      <4>1. n \in DOMAIN p
        BY <2>3, <2>4, <3>3
      <4>2. CASE m \in DOMAIN p
        BY <1>1, <2>3, <3>3, <4>1, <4>2 DEF ConnectionInv, PendingIsPublished
      <4>3. CASE m = Len(p) + 1
        BY <1>1, <2>3, <3>3, <4>1, <4>3 DEF ConnectionInv, PendingIsPublished
      <4> QED
        BY <2>4, <4>2, <4>3
    <3> QED
      BY <1>1, <2>2, <3>1, <3>2, <3>3 DEF PendingIsPublished
  <2>6. NothingIsSentYet'
    BY <2>2 DEF ConnectionInv, NothingIsSentYet
  <2>7. ReplayIsComplete'
    <3> SUFFICES ASSUME stream.step = "replay" PROVE ReplayIsComplete'
      BY <2>2 DEF ReplayIsComplete
    <3>1. ASSUME ~reordered', stream.whole, NEW d \in Published', d > stream.after
          PROVE  d \in stream.batch \/ \E n \in DOMAIN q : q[n] = d
      <4>1. CASE d = c
        BY <2>3, <4>1
      <4>2. CASE d \in Published
        BY <1>1, <2>3, <3>1, <4>2 DEF ConnectionInv, ReplayIsComplete
      <4> QED
        BY <1>1, <4>1, <4>2
    <3> QED
      BY <1>1, <1>2, <2>2, <3>1 DEF ConnectionInv, ReplayIsComplete
  <2>8. NothingIsSkipped'
    BY <1>4, <2>2 DEF NothingIsSkipped
  <2> QED
    BY <2>5, <2>6, <2>7, <2>8 DEF ConnectionInv
<1>5. CASE stream.step = "follow"
  <2>1. stream' = Send(stream, c)
    BY <1>5 DEF Listen
  <2>2. /\ stream'.step = "follow" /\ stream'.after = stream.after
        /\ stream'.pending = stream.pending /\ stream'.whole = stream.whole
        /\ IF c <= stream.cursor THEN stream'.sent = stream.sent /\ stream'.cursor = stream.cursor
                                 ELSE stream'.sent = stream.sent \cup {c} /\ stream'.cursor = c
    BY <1>0, <1>5, <2>1 DEF Send, StreamStates
  <2>3. PendingIsPublished'
    BY <1>1, <2>2 DEF ConnectionInv, PendingIsPublished
  <2>4. NothingIsSentYet' /\ ReplayIsComplete'
    BY <2>2 DEF NothingIsSentYet, ReplayIsComplete
  <2>5. NothingIsSkipped'
    <3>1. /\ stream.sent \subseteq After(stream.after)
          /\ stream.cursor \in stream.sent \cup {stream.after}
          /\ stream.cursor >= stream.after
      BY <1>0, <1>5 DEF ConnectionInv, NothingIsSkipped, After
    <3>2. /\ stream'.sent \subseteq After(stream.after)
          /\ stream'.cursor \in stream'.sent \cup {stream.after}
      BY <1>0, <1>1, <2>2, <3>1 DEF After
    <3>3. ASSUME ~reordered', stream.whole, NEW d \in After(stream.after),
                 d \in Published' \/ d <= stream'.cursor
          PROVE  d \in stream'.sent
      <4>1. ~reordered /\ d \in log /\ d \in Nat /\ d > stream.after
        BY <1>0, <1>1, <3>3 DEF After
      <4>2. \A x \in After(stream.after) : x \in Published \/ x <= stream.cursor => x \in stream.sent
        BY <1>5, <3>3, <4>1 DEF ConnectionInv, NothingIsSkipped
      <4>3. CASE d \in Published \/ d <= stream.cursor
        BY <2>2, <4>2, <4>3, <3>3
      <4>4. CASE d = c
        BY <2>2, <4>2, <3>3, <4>4
      <4>5. CASE d \notin Published' /\ ~(d <= stream.cursor)
        <5>1. c < d
          BY <1>1, <3>3, <4>1, <4>5
        <5> QED
          BY <1>0, <2>2, <3>3, <4>1, <4>5, <5>1
      <4> QED
        BY <1>1, <4>3, <4>4, <4>5
    <3> QED
      BY <1>1, <1>2, <2>2, <3>2, <3>3 DEF NothingIsSkipped
  <2> QED
    BY <2>3, <2>4, <2>5 DEF ConnectionInv
<1> QED
  BY <1>0, <1>3, <1>4, <1>5 DEF StreamStates

LEMMA ReadKeeps ==
  ASSUME StreamTypeOK, ConnectionInv, ReadLog
  PROVE  stream' \in StreamStates /\ Unmoved /\ ConnectionInv'
<1>0. /\ MaxEvents \in Nat /\ log \subseteq Cursors /\ stream \in StreamStates /\ stream.cursor = stream.after
      /\ stream.step = "read" /\ stream.sent = {}
  <2>1. MaxEvents \in Nat /\ sequence \in Nat /\ sequence <= MaxEvents /\ log \subseteq 1..sequence
    BY StreamAssumption DEF StreamTypeOK
  <2> QED
    BY <2>1 DEF StreamTypeOK, Cursors, ReadLog, ConnectionInv, NothingIsSentYet
<1>1. UNCHANGED <<version, sequence, log, content, emitter, reordered>> /\ Unmoved
  BY DEF ReadLog, logVars, Unmoved, Published
<1> DEFINE batch == ListEvents(stream.cursor)
           whole == Cardinality(After(stream.cursor)) <= ReplayLimit
<1>2. batch \subseteq After(stream.after) /\ batch \subseteq Cursors
  BY <1>0 DEF ListEvents, After
<1>3. /\ stream'.step = "replay" /\ stream'.after = stream.after /\ stream'.cursor = stream.cursor
      /\ stream'.batch = batch /\ stream'.pending = stream.pending /\ stream'.sent = {}
      /\ stream'.whole = whole
  BY <1>0 DEF ReadLog, StreamStates
<1>4. stream' \in StreamStates
  <2>1. whole \in BOOLEAN
    OBVIOUS
  <2> HIDE DEF whole, batch
  <2>2. stream' = [stream EXCEPT !.step = "replay", !.batch = batch, !.whole = whole]
    BY DEF ReadLog, batch, whole
  <2> QED
    BY <1>0, <1>2, <2>1, <2>2 DEF StreamStates
<1>5. \A at : After(at)' = After(at)
  BY <1>1 DEF After
<1>6. ASSUME whole PROVE batch = After(stream.after)
  <2> DEFINE A == After(stream.cursor)
  <2>1. IsFiniteSet(A) /\ Cardinality(A) \in Nat
    <3>1. A \subseteq 1..MaxEvents
      BY <1>0 DEF After, Cursors
    <3>2. IsFiniteSet(1..MaxEvents)
      BY <1>0, FS_Interval
    <3> QED
      BY <3>1, <3>2, FS_Subset, FS_CardinalityType
  <2>2. ASSUME NEW c \in A PROVE Cardinality({d \in A : d <= c}) <= ReplayLimit
    <3>1. {d \in A : d <= c} \subseteq A
      OBVIOUS
    <3>2. /\ IsFiniteSet({d \in A : d <= c}) /\ Cardinality({d \in A : d <= c}) \in Nat
          /\ Cardinality({d \in A : d <= c}) <= Cardinality(A)
      BY <2>1, <3>1, FS_Subset, FS_CardinalityType
    <3>3. ReplayLimit \in Nat
      BY StreamAssumption
    <3> HIDE DEF A
    <3> QED
      BY <1>6, <2>1, <3>2, <3>3 DEF A
  <2> QED
    BY <1>0, <2>2 DEF ListEvents
<1> HIDE DEF whole, batch
<1>7. PendingIsPublished'
  BY <1>1, <1>3 DEF ConnectionInv, PendingIsPublished, Unmoved
<1>8. NothingIsSentYet' /\ NothingIsSkipped'
  BY <1>0, <1>3 DEF NothingIsSentYet, NothingIsSkipped
<1>9. ReplayIsComplete'
  <2>1. \A c \in Published' : c > stream.after => c \in After(stream.after)
    BY <1>1 DEF Unmoved, Published, After
  <2> QED
    BY <1>2, <1>3, <1>5, <1>6, <2>1 DEF ReplayIsComplete
<1> QED
  BY <1>1, <1>4, <1>7, <1>8, <1>9 DEF ConnectionInv

\* The replay sends what was read, then what was published meanwhile.
LEMMA ReplayKeeps ==
  ASSUME StreamTypeOK, ConnectionInv, LogIsInOrder, Replay
  PROVE  stream' \in StreamStates /\ Unmoved /\ ConnectionInv'
<1>0. /\ MaxEvents \in Nat /\ log \subseteq Cursors /\ stream \in StreamStates /\ stream.cursor = stream.after
      /\ stream.step = "replay" /\ stream.sent = {} /\ stream.after \in Nat
      /\ stream.batch \in SUBSET Cursors /\ stream.pending \in Seq(Cursors)
      /\ stream.cursor \in 0..MaxEvents /\ stream.wire \in SUBSET Cursors
      /\ \A c \in Cursors : c \in Nat
  <2>1. MaxEvents \in Nat /\ sequence \in Nat /\ sequence <= MaxEvents /\ log \subseteq 1..sequence
    BY StreamAssumption DEF StreamTypeOK
  <2> QED
    BY <2>1 DEF StreamTypeOK, Cursors, Replay, ConnectionInv, NothingIsSentYet, StreamStates
<1>1. UNCHANGED <<version, sequence, log, content, emitter, reordered>> /\ Unmoved
  BY DEF Replay, logVars, Unmoved, Published
<1> DEFINE batch == stream.batch
           kept == Rising(stream.pending)
           s == SendAll(stream, batch)
           t == SendAll(s, kept)
           late == {c \in kept : c > s.cursor}
<1>2. kept \in SUBSET Cursors
  BY <1>0 DEF Rising
<1>3. batch \subseteq After(stream.after) /\ \A c \in batch : c > stream.cursor
  BY <1>0 DEF ConnectionInv, ReplayIsComplete, After
<1>4. /\ s \in StreamStates /\ s.sent = batch /\ s.after = stream.after /\ s.whole = stream.whole
      /\ s.cursor \in batch \cup {stream.after} /\ \A c \in batch : c <= s.cursor
      /\ stream.after <= s.cursor
  <2> DEFINE news == {c \in batch : c > stream.cursor}
             g == s.cursor
  <2>1. news = batch
    BY <1>3
  <2>2. /\ g \in news \cup {stream.cursor} /\ \A c \in batch : c <= g
        /\ stream.cursor <= g /\ g \in 0..MaxEvents
    BY <1>0, SendAllSends
  <2>3. s = [stream EXCEPT !.cursor = g, !.wire = stream.wire \cup news, !.sent = stream.sent \cup news]
    BY <1>0 DEF SendAll, StreamStates
  <2>4. /\ stream.wire \cup news \in SUBSET Cursors /\ stream.sent \cup news \in SUBSET Cursors
        /\ stream.sent \cup news = batch
    BY <1>0, <2>1
  <2> HIDE DEF s, g, news
  <2>5. s \in StreamStates /\ s.sent = stream.sent \cup news /\ s.after = stream.after
        /\ s.whole = stream.whole /\ s.cursor = g
    BY <1>0, <2>2, <2>3, <2>4 DEF StreamStates
  <2> QED
    BY <1>0, <2>1, <2>2, <2>4, <2>5
<1>5. /\ t \in StreamStates /\ t.sent = batch \cup late /\ t.after = stream.after /\ t.whole = stream.whole
      /\ t.cursor \in late \cup {s.cursor} /\ \A c \in kept : c <= t.cursor
      /\ s.cursor <= t.cursor
  <2> DEFINE g == t.cursor
  <2>1. /\ g \in late \cup {s.cursor} /\ \A c \in kept : c <= g
        /\ s.cursor <= g /\ g \in 0..MaxEvents
    <3> HIDE DEF s, kept
    <3> QED
      BY <1>2, <1>4, SendAllSends
  <2>2. t = [s EXCEPT !.cursor = g, !.wire = s.wire \cup late, !.sent = s.sent \cup late]
    <3> HIDE DEF s, kept
    <3> QED
      BY <1>4 DEF SendAll, StreamStates
  <2>3. late \in SUBSET Cursors
    BY <1>2
  <2>4. s.wire \cup late \in SUBSET Cursors /\ s.sent \cup late \in SUBSET Cursors
    <3> HIDE DEF s, late
    <3> QED
      BY <1>4, <2>3 DEF StreamStates
  <2> HIDE DEF s, t, g, late
  <2>5. t \in StreamStates /\ t.sent = s.sent \cup late /\ t.after = s.after
        /\ t.whole = s.whole /\ t.cursor = g
    BY <1>4, <2>1, <2>2, <2>4 DEF StreamStates
  <2> QED
    BY <1>4, <2>1, <2>5
<1>6. stream' = [t EXCEPT !.step = "follow", !.batch = {}, !.pending = <<>>]
  BY DEF Replay
<1> HIDE DEF s, t, kept, batch
<1>7. /\ stream' \in StreamStates
      /\ stream'.step = "follow" /\ stream'.after = stream.after /\ stream'.cursor = t.cursor
      /\ stream'.pending = <<>> /\ stream'.sent = batch \cup late /\ stream'.whole = stream.whole
  <2>1. <<>> \in Seq(Cursors)
    OBVIOUS
  <2> QED
    BY <1>5, <1>6, <2>1 DEF StreamStates
<1>8. \A at : After(at)' = After(at)
  BY <1>1 DEF After
<1>9. PendingIsPublished' /\ NothingIsSentYet' /\ ReplayIsComplete'
  BY <1>7 DEF PendingIsPublished, NothingIsSentYet, ReplayIsComplete
<1>10. \A c \in kept : c \in log /\ c \in Nat
  BY <1>0 DEF kept, Rising, ConnectionInv, PendingIsPublished
<1>11. s.cursor \in Nat /\ t.cursor \in Nat
  BY <1>4, <1>5 DEF StreamStates
<1>12. NothingIsSkipped'
  <2>1. batch \cup late \subseteq After(stream.after)
    BY <1>0, <1>3, <1>4, <1>10, <1>11 DEF After
  <2>2. t.cursor \in batch \cup late \cup {stream.after}
    BY <1>4, <1>5
  <2>3. ASSUME ~reordered, stream.whole, NEW c \in After(stream.after),
               c \in Published \/ c <= t.cursor
        PROVE  c \in batch \cup late
    <3>1. c \in log /\ c > stream.after /\ c \in Nat
      BY <1>0 DEF After
    <3>2. ASSUME NEW p \in Published, p > stream.after, p \notin batch PROVE p \in late
      <4>1. PICK n \in DOMAIN stream.pending : stream.pending[n] = p
        BY <1>0, <2>3, <3>2 DEF ConnectionInv, ReplayIsComplete, batch
      <4>2. \A l \in 1..(n - 1) : stream.pending[l] < stream.pending[n]
        <5>1. n \in Nat /\ \A l \in 1..(n - 1) : l \in DOMAIN stream.pending /\ l < n
          BY <1>0
        <5> QED
          BY <2>3, <5>1 DEF ConnectionInv, PendingIsPublished
      <4>3. p \in kept
        BY <4>1, <4>2 DEF kept, Rising
      <4>4. p \in After(stream.after) \ batch
        BY <1>10, <3>2, <4>3 DEF After
      <4>5. \A d \in batch : d < p
        BY <1>0, <2>3, <4>4 DEF ConnectionInv, ReplayIsComplete, batch
      <4>6. p > s.cursor
        BY <1>4, <3>2, <4>5
      <4> QED
        BY <4>3, <4>6
    <3>3. CASE c \in Published
      BY <3>1, <3>2, <3>3
    <3>4. CASE c \notin Published /\ c <= t.cursor
      <4> SUFFICES ASSUME c \notin batch PROVE FALSE
        OBVIOUS
      <4>1. \A d \in batch : d < c
        BY <1>0, <2>3 DEF ConnectionInv, ReplayIsComplete, batch
      <4>2. s.cursor < c
        BY <1>4, <3>1, <4>1
      <4>3. t.cursor \in late
        BY <1>5, <1>11, <3>1, <3>4, <4>2
      <4>4. t.cursor \in Published
        BY <2>3, <4>3 DEF kept, Rising, ConnectionInv, PendingIsPublished
      <4>5. PICK e \in Emitters : emitter[e].step = "publish" /\ emitter[e].cursor = c
        BY <3>1, <3>4 DEF Published
      <4>6. t.cursor < c
        BY <2>3, <4>4, <4>5 DEF LogIsInOrder, Emitting
      <4> QED
        BY <1>11, <3>1, <3>4, <4>6
    <3> QED
      BY <2>3, <3>3, <3>4
  <2> QED
    BY <1>1, <1>7, <1>8, <2>1, <2>2, <2>3 DEF NothingIsSkipped, Unmoved
<1> QED
  BY <1>1, <1>7, <1>9, <1>12 DEF ConnectionInv

-----------------------------------------------------------------------------
(* The client.                                                             *)

ClientTyped ==
    /\ app \in Apps
    /\ {online, reachable, queued} \subseteq BOOLEAN
    /\ connection \in Connections
    /\ mode \in {"live", "demo"}
    /\ view \in Versions \cup {Demo, Wished}
    /\ cursor \in 0..MaxEvents
    /\ text \in SUBSET Cursors
    /\ fetch \in [Fetches -> FetchStates]
    /\ request \in {"none", "sent", "ahead", "answered"}

LEMMA TypesAreBoth == TypeOK <=> StreamTypeOK /\ ClientTyped
  BY DEF TypeOK, ClientTyped

\* A step of the client leaves the log alone and keeps, closes or opens the
\* connection, or takes from its wire.
QuietStep ==
    /\ UNCHANGED logVars
    /\ faults' \in 0..MaxFaults
    /\ \/ stream' = stream
       \/ \E wire \in SUBSET Cursors : stream' = [stream EXCEPT !.wire = wire]
       \/ stream' = Closed
       \/ \E at \in 0..MaxEvents : stream' = Opened(at)

LEMMA QuietStepKeeps ==
  ASSUME StreamTypeOK, StreamInv, QuietStep
  PROVE  StreamTypeOK' /\ StreamInv'
<1>1. Unmoved /\ UNCHANGED <<version, sequence, log, content, emitter, reordered>>
  BY DEF QuietStep, logVars, Unmoved, Published
<1>2. stream' \in StreamStates
  <2>1. MaxEvents \in Nat /\ 0 \in 0..MaxEvents
    BY StreamAssumption
  <2>2. <<>> \in Seq(Cursors)
    OBVIOUS
  <2>3. Closed \in StreamStates
    BY <2>1, <2>2 DEF Closed, StreamStates
  <2>4. ASSUME NEW at \in 0..MaxEvents PROVE Opened(at) \in StreamStates
    BY <2>2 DEF Opened, Closed, StreamStates
  <2>5. ASSUME NEW wire \in SUBSET Cursors PROVE [stream EXCEPT !.wire = wire] \in StreamStates
    BY DEF StreamTypeOK, StreamStates
  <2> QED
    BY <2>3, <2>4, <2>5 DEF QuietStep, StreamTypeOK
<1>3. StreamTypeOK'
  BY <1>1, <1>2 DEF StreamTypeOK, QuietStep
<1>4. CursorsAreDistinct'
  BY <1>1 DEF StreamInv, CursorsAreDistinct, Appending, Emitting
<1>5. LogIsInOrder'
  BY <1>1 DEF StreamInv, LogIsInOrder, Emitting, Published
<1>6. ConnectionInv'
  <2>1. ConnectionInv
    BY DEF StreamInv, ConnectionInv
  <2> QED
    BY <1>1, <2>1, QuietKeeps, OpensEmpty DEF QuietStep
<1> QED
  BY <1>3, <1>4, <1>5, <1>6 DEF StreamInv, ConnectionInv

LEMMA FetchTypes ==
  /\ NoFetch \in FetchStates
  /\ \A kind \in {"load", "refresh", "poll", "retry"} : cursor \in 0..MaxEvents => Started(kind) \in FetchStates
<1>1. MaxEvents \in Nat /\ 0 \in 0..MaxEvents
  BY StreamAssumption
<1> DEFINE Rows == Versions \cup {Unread}
           Ats == (0..MaxEvents) \cup {Unread}
           Events == (SUBSET Cursors) \cup {Unread}
           Kinds == {"none", "load", "refresh", "poll", "retry"}
<1>a. FetchStates = [kind : Kinds, after : 0..MaxEvents, rows : Rows, cursor : Ats, events : Events]
  BY DEF FetchStates
<1>b. Unread \in Rows /\ Unread \in Ats /\ Unread \in Events
  OBVIOUS
<1> HIDE DEF Rows, Ats, Events
<1>2. NoFetch \in FetchStates
  BY <1>1, <1>a, <1>b DEF NoFetch
<1>3. ASSUME NEW kind \in {"load", "refresh", "poll", "retry"}, cursor \in 0..MaxEvents
      PROVE  Started(kind) \in FetchStates
  <2> DEFINE at == IF kind = "poll" THEN cursor ELSE 0
  <2>1. at \in 0..MaxEvents
    BY <1>1, <1>3
  <2> HIDE DEF at
  <2>2. [NoFetch EXCEPT !.kind = kind, !.after = at] \in FetchStates
    BY <1>a, <1>b, <2>1 DEF NoFetch
  <2> QED
    BY <2>2 DEF Started, at
<1> QED
  BY <1>2, <1>3

LEMMA TurnTypes ==
  ASSUME TypeOK, NEW state \in Connections, NEW at \in 0..MaxEvents, NEW timer \in BOOLEAN,
         NEW fetches \in [Fetches -> FetchStates]
  PROVE  /\ Become(state, at, timer, fetches) =>
              /\ connection' \in Connections /\ cursor' \in 0..MaxEvents
              /\ queued' \in BOOLEAN /\ fetch' \in [Fetches -> FetchStates]
         /\ Resubscribe(state, at) \in {stream, Closed} \cup {Opened(c) : c \in 0..MaxEvents}
<1>1. [i \in Fetches |-> IF fetches[i].kind = "poll" THEN NoFetch ELSE fetches[i]] \in [Fetches -> FetchStates]
  BY FetchTypes
<1>2. Become(state, at, timer, fetches) =>
              /\ connection' \in Connections /\ cursor' \in 0..MaxEvents
              /\ queued' \in BOOLEAN /\ fetch' \in [Fetches -> FetchStates]
  BY <1>1 DEF Become
<1>3. Resubscribe(state, at) \in {stream, Closed} \cup {Opened(c) : c \in 0..MaxEvents}
  BY DEF Resubscribe
<1> QED
  BY <1>2, <1>3

LEMMA TurnQuiet ==
  ASSUME TypeOK, NEW state \in Connections, NEW at \in 0..MaxEvents, NEW timer \in BOOLEAN,
         NEW fetches \in [Fetches -> FetchStates], Turn(state, at, timer, fetches),
         UNCHANGED logVars, faults' \in 0..MaxFaults
  PROVE  /\ QuietStep
         /\ connection' \in Connections /\ cursor' \in 0..MaxEvents
         /\ queued' \in BOOLEAN /\ fetch' \in [Fetches -> FetchStates]
  BY TurnTypes DEF Turn, QuietStep

LEMMA EventTypes ==
  ASSUME TypeOK
  PROVE  /\ log \subseteq Cursors
         /\ CurrentCursor \in 0..MaxEvents
         /\ \A at : ListEvents(at) \in SUBSET Cursors
         /\ \A c \in Cursors : content[c] # Delta => content[c] \in Versions
<1>1. MaxEvents \in Nat /\ MaxWrites \in Nat /\ sequence \in Nat /\ sequence <= MaxEvents /\ log \subseteq 1..sequence
  BY StreamAssumption DEF TypeOK, StreamTypeOK
<1>2. log \subseteq Cursors
  BY <1>1 DEF Cursors
<1>3. log \cup {0} \in SUBSET (0..MaxEvents)
  BY <1>1
<1>4. CurrentCursor \in 0..MaxEvents
  BY <1>3, GreatestIs DEF CurrentCursor
<1>5. \A at : ListEvents(at) \in SUBSET Cursors
  BY <1>2 DEF ListEvents, After
<1>6. ASSUME NEW c \in Cursors, content[c] # Delta PROVE content[c] \in Versions
  BY <1>1, <1>6 DEF TypeOK, StreamTypeOK, Contents, Versions
<1> QED
  BY <1>2, <1>4, <1>5, <1>6

LEMMA LeastExists ==
  ASSUME NEW S \in SUBSET Nat, S # {}
  PROVE  \E m \in S : \A n \in S : m <= n
<1> DEFINE R == OpToRel(<, Nat)
<1>1. IsWellFoundedOn(R, Nat)
  BY NatLessThanWellFounded
<1>2. ASSUME NEW m \in S, NEW n \in S, n < m PROVE <<n, m>> \in R
  BY <1>2 DEF OpToRel
<1> HIDE DEF R
<1>3. PICK m \in S : \A n \in S : <<n, m>> \notin R
  BY <1>1, WFMin
<1>4. ASSUME NEW n \in S PROVE m <= n
  <2>1. ~(n < m)
    BY <1>2, <1>3
  <2> QED
    BY <2>1
<1> QED
  BY <1>4

LEMMA FetchAnswers ==
  ASSUME TypeOK, NEW i \in Fetches
  PROVE  /\ Ended(i) \in [Fetches -> FetchStates]
         /\ fetch[i].rows # Unread => fetch[i].rows \in Versions
         /\ fetch[i].cursor # Unread => fetch[i].cursor \in 0..MaxEvents
         /\ fetch[i].events # Unread => fetch[i].events \in SUBSET Cursors
         /\ \A q \in FetchStates : [fetch EXCEPT ![i] = q] \in [Fetches -> FetchStates]
         /\ \A rows \in Versions : [fetch EXCEPT ![i]["rows"] = rows] \in [Fetches -> FetchStates]
         /\ \A at \in 0..MaxEvents : [fetch EXCEPT ![i]["cursor"] = at] \in [Fetches -> FetchStates]
         /\ \A events \in SUBSET Cursors : [fetch EXCEPT ![i]["events"] = events] \in [Fetches -> FetchStates]
<1> DEFINE Rows == Versions \cup {Unread}
           Ats == (0..MaxEvents) \cup {Unread}
           Events == (SUBSET Cursors) \cup {Unread}
           Kinds == {"none", "load", "refresh", "poll", "retry"}
<1>1. FetchStates = [kind : Kinds, after : 0..MaxEvents, rows : Rows, cursor : Ats, events : Events]
  BY DEF FetchStates
<1>2. fetch \in [Fetches -> FetchStates] /\ NoFetch \in FetchStates
  BY FetchTypes DEF TypeOK
<1>3. /\ \A rows \in Rows : rows # Unread => rows \in Versions
      /\ \A at \in Ats : at # Unread => at \in 0..MaxEvents
      /\ \A events \in Events : events # Unread => events \in SUBSET Cursors
      /\ Versions \subseteq Rows /\ 0..MaxEvents \subseteq Ats /\ SUBSET Cursors \subseteq Events
  OBVIOUS
<1> HIDE DEF Rows, Ats, Events, Kinds
<1>4. PICK q \in FetchStates : q = fetch[i]
  BY <1>2
<1>5. q.rows \in Rows /\ q.cursor \in Ats /\ q.events \in Events
  BY <1>1
<1>6. ASSUME NEW r \in FetchStates PROVE [fetch EXCEPT ![i] = r] \in [Fetches -> FetchStates]
  BY <1>2
<1>7. ASSUME NEW rows \in Versions PROVE [fetch EXCEPT ![i]["rows"] = rows] \in [Fetches -> FetchStates]
  <2>1. [q EXCEPT !["rows"] = rows] \in FetchStates
    BY <1>1, <1>3
  <2> QED
    BY <1>4, <1>6, <2>1
<1>8. ASSUME NEW at \in 0..MaxEvents PROVE [fetch EXCEPT ![i]["cursor"] = at] \in [Fetches -> FetchStates]
  <2>1. [q EXCEPT !["cursor"] = at] \in FetchStates
    BY <1>1, <1>3
  <2> QED
    BY <1>4, <1>6, <2>1
<1>9. ASSUME NEW events \in SUBSET Cursors PROVE [fetch EXCEPT ![i]["events"] = events] \in [Fetches -> FetchStates]
  <2>1. [q EXCEPT !["events"] = events] \in FetchStates
    BY <1>1, <1>3
  <2> QED
    BY <1>4, <1>6, <2>1
<1> QED
  BY <1>2, <1>3, <1>4, <1>5, <1>6, <1>7, <1>8, <1>9 DEF Ended

LEMMA FetchSteps ==
  ASSUME TypeOK, NEW i \in Fetches, Fetch(i)
  PROVE  QuietStep /\ ClientTyped'
<1>0. ClientTyped /\ faults \in 0..MaxFaults /\ {"connecting", "live", "demo", "offline", "error"} \subseteq Connections
      /\ 0 \in 0..MaxEvents /\ MaxWrites \in Nat /\ version \in Versions
  BY StreamAssumption, TypesAreBoth DEF TypeOK, StreamTypeOK, Connections, Versions
<1>1. CASE ReadRows(i)
  BY <1>0, <1>1, FetchAnswers DEF ReadRows, Read, QuietStep, ClientTyped, netVars
<1>2. CASE ReadCursor(i)
  BY <1>0, <1>2, FetchAnswers, EventTypes DEF ReadCursor, Read, QuietStep, ClientTyped, netVars
<1>3. CASE ReadEvents(i)
  <2>1. (IF Up THEN ListEvents(fetch[i].after) ELSE {}) \in SUBSET Cursors
    BY EventTypes
  <2> QED
    BY <1>0, <1>3, <2>1, FetchAnswers DEF ReadEvents, Read, QuietStep, ClientTyped, netVars
<1>4. CASE AnswerLoad(i)
  <2>1. fetch[i].rows \in Versions /\ fetch[i].cursor \in 0..MaxEvents /\ queued \in BOOLEAN
    BY <1>0, <1>4, FetchAnswers DEF AnswerLoad, Answered, ClientTyped
  <2>2. /\ QuietStep
        /\ connection' \in Connections /\ cursor' \in 0..MaxEvents
        /\ queued' \in BOOLEAN /\ fetch' \in [Fetches -> FetchStates]
    BY <1>0, <1>4, <2>1, FetchAnswers, TurnQuiet DEF AnswerLoad
  <2>3. text' \in SUBSET Cursors
    BY <1>0, <1>4 DEF AnswerLoad, Retained, ClientTyped
  <2> QED
    BY <1>0, <1>4, <2>1, <2>2, <2>3 DEF AnswerLoad, ClientTyped, netVars
<1>5. CASE AnswerPoll(i)
  <2>1. fetch[i].rows \in Versions /\ fetch[i].cursor \in 0..MaxEvents /\ queued \in BOOLEAN
        /\ fetch[i].events \in SUBSET Cursors
    BY <1>0, <1>5, FetchAnswers DEF AnswerPoll, Answered, ClientTyped
  <2>2. /\ QuietStep
        /\ connection' \in Connections /\ cursor' \in 0..MaxEvents
        /\ queued' \in BOOLEAN /\ fetch' \in [Fetches -> FetchStates]
    BY <1>0, <1>5, <2>1, FetchAnswers, TurnQuiet DEF AnswerPoll
  <2>3. text' \in SUBSET Cursors
    BY <1>0, <1>5, <2>1 DEF AnswerPoll, Retained, Captured, ClientTyped
  <2> QED
    BY <1>0, <1>5, <2>1, <2>2, <2>3 DEF AnswerPoll, ClientTyped, netVars
<1>6. CASE FetchFails(i)
  <2>0. queued \in BOOLEAN /\ cursor \in 0..MaxEvents /\ Ended(i) \in [Fetches -> FetchStates]
        /\ Disconnected \in Connections /\ UNCHANGED <<logVars, faults, netVars, request>>
    BY <1>0, <1>6, FetchAnswers DEF FetchFails, ClientTyped, Disconnected
  <2>1. CASE fetch[i].kind = "load"
    <3> DEFINE state == IF app = "desktop" THEN "demo" ELSE "offline"
    <3>1. state \in Connections
      BY <1>0
    <3>2. mode' = "demo" /\ view' = Demo /\ text' = (IF app = "desktop" THEN {} ELSE text)
          /\ Turn(state, 0, queued, Ended(i))
      BY <1>6, <2>1 DEF FetchFails
    <3> HIDE DEF state
    <3>3. /\ QuietStep
          /\ connection' \in Connections /\ cursor' \in 0..MaxEvents
          /\ queued' \in BOOLEAN /\ fetch' \in [Fetches -> FetchStates]
      BY <1>0, <2>0, <3>1, <3>2, TurnQuiet
    <3> QED
      BY <1>0, <2>0, <3>2, <3>3 DEF ClientTyped, netVars
  <2>2. CASE fetch[i].kind \in {"refresh", "poll"}
    <3>1. UNCHANGED <<mode, view, text>> /\ Turn(Disconnected, cursor, queued, Ended(i))
      BY <1>6, <2>2 DEF FetchFails
    <3>2. /\ QuietStep
          /\ connection' \in Connections /\ cursor' \in 0..MaxEvents
          /\ queued' \in BOOLEAN /\ fetch' \in [Fetches -> FetchStates]
      BY <1>0, <2>0, <3>1, TurnQuiet
    <3> QED
      BY <1>0, <2>0, <3>1, <3>2 DEF ClientTyped, netVars
  <2>3. CASE fetch[i].kind \notin {"load", "refresh", "poll"}
    <3>1. fetch' = Ended(i) /\ UNCHANGED <<stream, connection, mode, view, cursor, text, queued>>
      BY <1>6, <2>3 DEF FetchFails
    <3> QED
      BY <1>0, <2>0, <3>1 DEF ClientTyped, netVars, QuietStep
  <2> QED
    BY <2>1, <2>2, <2>3
<1> QED
  BY <1>1, <1>2, <1>3, <1>4, <1>5, <1>6 DEF Fetch

LEMMA LoadSteps ==
  ASSUME TypeOK, NEW i \in Fetches, NEW isOnline \in BOOLEAN, Load(i, isOnline), UNCHANGED <<logVars, faults>>
  PROVE  /\ QuietStep
         /\ connection' \in Connections /\ cursor' \in 0..MaxEvents
         /\ queued' \in BOOLEAN /\ fetch' \in [Fetches -> FetchStates]
         /\ UNCHANGED <<mode, view, text, request>>
<1>0. ClientTyped /\ faults \in 0..MaxFaults /\ {"connecting", "live", "demo", "offline", "error"} \subseteq Connections
      /\ queued \in BOOLEAN /\ cursor \in 0..MaxEvents
  BY TypesAreBoth DEF TypeOK, StreamTypeOK, Connections
<1>1. [fetch EXCEPT ![i] = Started("load")] \in [Fetches -> FetchStates] /\ fetch \in [Fetches -> FetchStates]
  BY <1>0, FetchTypes, FetchAnswers DEF ClientTyped
<1>2. CASE isOnline
  <2>1. Turn("connecting", cursor, queued, [fetch EXCEPT ![i] = Started("load")])
    BY <1>2 DEF Load
  <2>2. UNCHANGED <<mode, view, text, request>>
    BY DEF Load
  <2> QED
    BY <1>0, <1>1, <2>1, <2>2, TurnQuiet
<1>3. CASE ~isOnline
  <2>1. Turn("offline", cursor, queued, fetch)
    BY <1>3 DEF Load
  <2>2. UNCHANGED <<mode, view, text, request>>
    BY DEF Load
  <2> QED
    BY <1>0, <1>1, <2>1, <2>2, TurnQuiet
<1> QED
  BY <1>2, <1>3

LEMMA ReceiveSteps ==
  ASSUME TypeOK, Receive
  PROVE  QuietStep /\ ClientTyped'
<1>0. ClientTyped /\ faults \in 0..MaxFaults /\ stream \in StreamStates /\ queued \in BOOLEAN
      /\ cursor \in 0..MaxEvents /\ connection \in Connections /\ fetch \in [Fetches -> FetchStates]
      /\ MaxEvents \in Nat
  BY StreamAssumption, TypesAreBoth DEF TypeOK, StreamTypeOK
<1> DEFINE c == CHOOSE c \in stream.wire : \A other \in stream.wire : c <= other
           rest == [stream EXCEPT !.wire = @ \ {c}]
           at == IF c > cursor THEN c ELSE cursor
<1>1. c \in Cursors /\ c \in 0..MaxEvents
  <2>1. stream.wire \in SUBSET Nat /\ stream.wire # {} /\ stream.wire \subseteq Cursors
    <3>1. stream.wire \subseteq Cursors /\ stream.wire # {}
      BY <1>0 DEF StreamStates, Receive
    <3> QED
      BY <3>1 DEF Cursors
  <2>2. \E d \in stream.wire : \A other \in stream.wire : d <= other
    BY <2>1, LeastExists
  <2>3. c \in stream.wire
    BY <2>2
  <2> QED
    BY <1>0, <2>1, <2>3 DEF Cursors
<1>2. \E wire \in SUBSET Cursors : rest = [stream EXCEPT !.wire = wire]
  <2>1. stream.wire \ {c} \in SUBSET Cursors
    BY <1>0 DEF StreamStates
  <2> QED
    BY <2>1
<1>3. UNCHANGED <<logVars, faults, netVars, mode, request>>
  BY DEF Receive
<1>4. CASE app = "desktop"
  <2>1. text' = Captured(text, {c}) /\ queued' = TRUE /\ stream' = rest /\ UNCHANGED <<connection, view, cursor, fetch>>
    BY <1>4 DEF Receive
  <2> HIDE DEF c, rest
  <2>2. text' \in SUBSET Cursors
    BY <1>0, <1>1, <2>1 DEF Captured, ClientTyped
  <2> QED
    BY <1>0, <1>2, <1>3, <2>1, <2>2 DEF QuietStep, ClientTyped, netVars
<1>5. CASE app # "desktop"
  <2>1. /\ view' = (IF c > cursor /\ content[c] # Delta THEN content[c] ELSE view)
        /\ Become(connection, at, queued, fetch)
        /\ stream' = (IF at = cursor THEN rest ELSE Resubscribe(connection, at))
        /\ UNCHANGED text
    BY <1>5 DEF Receive
  <2> HIDE DEF c, rest
  <2>2. at \in 0..MaxEvents
    BY <1>0, <1>1
  <2>3. view' \in Versions \cup {Demo, Wished}
    BY <1>0, <1>1, <2>1, EventTypes DEF ClientTyped
  <2> HIDE DEF at
  <2>4. /\ connection' \in Connections /\ cursor' \in 0..MaxEvents
        /\ queued' \in BOOLEAN /\ fetch' \in [Fetches -> FetchStates]
        /\ Resubscribe(connection, at) \in {stream, Closed} \cup {Opened(x) : x \in 0..MaxEvents}
    BY <1>0, <2>1, <2>2, TurnTypes
  <2>5. QuietStep
    BY <1>0, <1>2, <1>3, <2>1, <2>4 DEF QuietStep
  <2> QED
    BY <1>0, <1>3, <2>1, <2>3, <2>4, <2>5 DEF ClientTyped, netVars
<1> QED
  BY <1>4, <1>5

LEMMA ClientSteps ==
  ASSUME TypeOK,
         \/ \E i \in Fetches : Fetch(i) \/ Retry(i)
         \/ Timers
         \/ Receive \/ StreamBreaks
         \/ AskLocally \/ Refused
         \/ \E ahead \in BOOLEAN : Ask(ahead)
         \/ GoOffline \/ GoOnline \/ ServerGoes \/ ServerReturns
  PROVE  QuietStep /\ ClientTyped'
<1>0. /\ ClientTyped /\ faults \in 0..MaxFaults /\ queued \in BOOLEAN /\ cursor \in 0..MaxEvents
      /\ {"connecting", "live", "demo", "offline", "error"} \subseteq Connections
      /\ Disconnected \in Connections /\ fetch \in [Fetches -> FetchStates] /\ connection \in Connections
      /\ MaxFaults \in Nat
  BY StreamAssumption, TypesAreBoth DEF TypeOK, StreamTypeOK, Connections, Disconnected
<1>1. ASSUME NEW i \in Fetches, Fetch(i) PROVE QuietStep /\ ClientTyped'
  BY <1>1, FetchSteps
<1>2. ASSUME NEW i \in Fetches, Retry(i) PROVE QuietStep /\ ClientTyped'
  <2>1. Load(i, online) /\ online \in BOOLEAN /\ UNCHANGED <<logVars, faults, netVars>>
    BY <1>0, <1>2 DEF Retry, ClientTyped
  <2>2. /\ QuietStep
        /\ connection' \in Connections /\ cursor' \in 0..MaxEvents
        /\ queued' \in BOOLEAN /\ fetch' \in [Fetches -> FetchStates]
        /\ UNCHANGED <<mode, view, text, request>>
    BY <2>1, LoadSteps
  <2> QED
    BY <1>0, <2>1, <2>2 DEF ClientTyped, netVars
<1>3. ASSUME NEW i \in Fetches, RefreshTimer(i) PROVE QuietStep /\ ClientTyped'
  <2>1. fetch' \in [Fetches -> FetchStates]
    BY <1>0, <1>3, FetchTypes, FetchAnswers DEF RefreshTimer
  <2> QED
    BY <1>0, <1>3, <2>1 DEF RefreshTimer, QuietStep, ClientTyped, netVars
<1>4. ASSUME NEW i \in Fetches, Tick(i) PROVE QuietStep /\ ClientTyped'
  <2>1. fetch' \in [Fetches -> FetchStates]
    BY <1>0, <1>4, FetchTypes, FetchAnswers DEF Tick
  <2> QED
    BY <1>0, <1>4, <2>1 DEF Tick, QuietStep, ClientTyped, netVars
<1>5. CASE Interval
  BY <1>0, <1>5 DEF Interval, QuietStep, ClientTyped, netVars
<1>6. CASE Receive
  BY <1>6, ReceiveSteps
<1>7. CASE StreamBreaks
  <2>1. Turn(Disconnected, cursor, queued, fetch) /\ UNCHANGED <<logVars, faults, netVars, mode, view, text, request>>
    BY <1>7 DEF StreamBreaks
  <2> QED
    BY <1>0, <2>1, TurnQuiet DEF ClientTyped, netVars
<1>8. CASE AskLocally
  BY <1>0, <1>8 DEF AskLocally, QuietStep, ClientTyped, netVars
<1>9. CASE Refused
  <2>1. UNCHANGED <<logVars, faults, netVars, mode, view, text>> /\ request' = "answered"
    BY <1>9 DEF Refused
  <2>2. CASE app = "desktop"
    BY <1>0, <1>9, <2>1, <2>2 DEF Refused, QuietStep, ClientTyped, netVars
  <2>3. CASE app # "desktop"
    <3>1. Turn("offline", cursor, queued, fetch)
      BY <1>9, <2>3 DEF Refused
    <3> QED
      BY <1>0, <2>1, <3>1, TurnQuiet DEF ClientTyped, netVars
  <2> QED
    BY <2>2, <2>3
<1>10. ASSUME NEW ahead \in BOOLEAN, Ask(ahead) PROVE QuietStep /\ ClientTyped'
  BY <1>0, <1>10 DEF Ask, QuietStep, ClientTyped, netVars
<1>11. CASE GoOffline
  <2>1. Turn("offline", cursor, queued, fetch) /\ UNCHANGED <<logVars, app, reachable, mode, view, text, request>>
        /\ online' = FALSE /\ faults' \in 0..MaxFaults
    BY <1>0, <1>11 DEF GoOffline
  <2> QED
    BY <1>0, <2>1, TurnQuiet DEF ClientTyped
<1>12. CASE GoOnline
  <2>1. PICK i \in Fetches : Load(i, TRUE)
    BY <1>12 DEF GoOnline
  <2>2. UNCHANGED <<logVars, faults, app, reachable>> /\ online' = TRUE
    BY <1>12 DEF GoOnline
  <2>3. /\ QuietStep
        /\ connection' \in Connections /\ cursor' \in 0..MaxEvents
        /\ queued' \in BOOLEAN /\ fetch' \in [Fetches -> FetchStates]
        /\ UNCHANGED <<mode, view, text, request>>
    BY <2>1, <2>2, LoadSteps
  <2> QED
    BY <1>0, <2>2, <2>3 DEF ClientTyped
<1>13. CASE ServerGoes
  <2>1. faults' \in 0..MaxFaults
    BY <1>0, <1>13 DEF ServerGoes
  <2>2. UNCHANGED <<logVars, stream, app, online, clientVars>> /\ reachable' = FALSE
    BY <1>13 DEF ServerGoes
  <2> QED
    BY <1>0, <2>1, <2>2 DEF QuietStep, ClientTyped, clientVars
<1>14. CASE ServerReturns
  BY <1>0, <1>14 DEF ServerReturns, QuietStep, ClientTyped, clientVars
<1> QED
  BY <1>1, <1>2, <1>3, <1>4, <1>5, <1>6, <1>7, <1>8, <1>9, <1>10, <1>11, <1>12, <1>13, <1>14 DEF Timers

-----------------------------------------------------------------------------
(* The invariant.                                                          *)

LEMMA InitCInv == Init => CInv
<1> SUFFICES ASSUME Init PROVE CInv
  OBVIOUS
<1>0. MaxEvents \in Nat /\ MaxWrites \in Nat /\ MaxFaults \in Nat
  BY StreamAssumption
<1>1. Closed \in StreamStates
  <2>1. <<>> \in Seq(Cursors)
    OBVIOUS
  <2> QED
    BY <1>0, <2>1 DEF Closed, StreamStates
<1>2. [step |-> "idle", event |-> 0, cursor |-> 0] \in EmitterStates
  BY <1>0 DEF EmitterStates, Steps
<1>3. StreamTypeOK
  <2>1. emitter \in [Emitters -> EmitterStates] /\ content \in [Cursors -> Contents \cup {0}]
    BY <1>2 DEF Init, StreamInit
  <2>2. stream = Closed /\ version = 0 /\ sequence = 0 /\ log = {} /\ reordered = FALSE /\ faults = 0
    BY DEF Init, StreamInit
  <2>3. version \in 0..MaxWrites /\ sequence \in 0..MaxEvents /\ log \in SUBSET (1..sequence)
        /\ faults \in 0..MaxFaults
    BY <1>0, <2>2
  <2>4. reordered \in BOOLEAN
    BY <2>2, Zenon
  <2> QED
    BY <1>1, <2>1, <2>2, <2>3, <2>4 DEF StreamTypeOK
<1>4. [NoFetch EXCEPT !.kind = "load"] \in FetchStates
  <2>1. NoFetch \in FetchStates
    BY FetchTypes
  <2> QED
    BY <2>1 DEF FetchStates
<1>5. ClientTyped
  <2>1. fetch \in [Fetches -> FetchStates]
    BY <1>4, FetchTypes DEF Init
  <2>2. /\ app \in Apps /\ online = TRUE /\ reachable = TRUE /\ connection = "connecting"
        /\ mode = "demo" /\ view = Demo /\ cursor = 0 /\ text = {} /\ queued = FALSE /\ request = "none"
    BY DEF Init
  <2>3. {online, reachable, queued} \subseteq BOOLEAN
    BY <2>2, Zenon
  <2>4. cursor \in 0..MaxEvents
    BY <1>0, <2>2
  <2> QED
    BY <2>1, <2>2, <2>3, <2>4 DEF ClientTyped, Connections
<1>6. \A e \in Emitters : emitter[e].step = "idle"
  BY DEF Init, StreamInit
<1>7. CursorsAreDistinct
  <2>1. Appending = {}
    BY <1>6 DEF Appending
  <2> QED
    BY <1>0, <1>6, <2>1, FS_EmptySet DEF CursorsAreDistinct, Emitting, Init, StreamInit
<1>8. LogIsInOrder
  BY <1>6 DEF LogIsInOrder, Emitting
<1>9. stream.step = "closed" /\ stream.pending = <<>>
  BY DEF Init, Closed
<1>10. PendingIsPublished /\ NothingIsSentYet /\ ReplayIsComplete /\ NothingIsSkipped
  BY <1>9 DEF PendingIsPublished, NothingIsSentYet, ReplayIsComplete, NothingIsSkipped
<1> QED
  BY <1>3, <1>5, <1>7, <1>8, <1>10, TypesAreBoth DEF CInv, StreamInv

LEMMA EmitKeeps ==
  ASSUME StreamTypeOK, StreamInv, NEW e \in Emitters, EmitterStep(e)
  PROVE  StreamTypeOK' /\ StreamInv'
<1>0. CursorsAreDistinct /\ LogIsInOrder /\ ConnectionInv
  BY DEF StreamInv, ConnectionInv
<1>1. StreamTypeOK' /\ CursorsAreDistinct'
  BY <1>0, EmitTyped, EmitDistinct
<1>2. /\ LogIsInOrder'
      /\ \/ Unmoved /\ UNCHANGED stream
         \/ \E c \in Cursors : Commits(c) /\ UNCHANGED stream
         \/ \E c \in Cursors : Publishes(c) /\ stream' = Listen(stream, c)
  BY <1>0, LogGrows
<1>3. ConnectionInv'
  BY <1>0, <1>2, QuietKeeps, CommitKeeps, PublishKeeps
<1> QED
  BY <1>1, <1>2, <1>3 DEF StreamInv, ConnectionInv

LEMMA ServeKeeps ==
  ASSUME StreamTypeOK, StreamInv, Serve
  PROVE  StreamTypeOK' /\ StreamInv'
<1>0. CursorsAreDistinct /\ LogIsInOrder /\ ConnectionInv
  BY DEF StreamInv, ConnectionInv
<1>1. stream' \in StreamStates /\ Unmoved /\ ConnectionInv'
  BY <1>0, ReadKeeps, ReplayKeeps DEF Serve
<1>2. UNCHANGED <<version, sequence, log, content, emitter, reordered, faults>>
  BY DEF Serve, ReadLog, Replay, logVars
<1>3. StreamTypeOK'
  BY <1>1, <1>2 DEF StreamTypeOK
<1>4. CursorsAreDistinct'
  BY <1>0, <1>2 DEF CursorsAreDistinct, Appending, Emitting
<1>5. LogIsInOrder'
  BY <1>0, <1>2 DEF LogIsInOrder, Emitting, Published
<1> QED
  BY <1>1, <1>3, <1>4, <1>5 DEF StreamInv, ConnectionInv

LEMMA NextCInv == CInv /\ [Next]_vars => CInv'
<1> SUFFICES ASSUME CInv, [Next]_vars PROVE CInv'
  OBVIOUS
<1>0. TypeOK /\ StreamTypeOK /\ StreamInv /\ ClientTyped
  BY TypesAreBoth DEF CInv
<1>a. StreamTypeOK' /\ ClientTyped' => TypeOK'
  BY DEF TypeOK, ClientTyped
<1>1. CASE (Emit \/ Serve) /\ UNCHANGED <<netVars, clientVars>>
  <2>1. ClientTyped'
    BY <1>0, <1>1 DEF ClientTyped, netVars, clientVars
  <2>2. StreamTypeOK' /\ StreamInv'
    BY <1>0, <1>1, EmitKeeps, ServeKeeps DEF Emit, EmitterStep
  <2> QED
    BY <1>a, <2>1, <2>2 DEF CInv
<1>2. ASSUME NEW e \in Emitters, Granted(e) PROVE CInv'
  <2>1. EmitterStep(e)
    BY <1>2 DEF Granted, EmitterStep
  <2>2. ClientTyped'
    BY <1>0, <1>2 DEF Granted, ClientTyped, netVars
  <2>3. StreamTypeOK' /\ StreamInv'
    BY <1>0, <2>1, EmitKeeps
  <2> QED
    BY <1>a, <2>2, <2>3 DEF CInv
<1>3. CASE \/ \E i \in Fetches : Fetch(i) \/ Retry(i)
           \/ Timers
           \/ Receive \/ StreamBreaks
           \/ AskLocally \/ Refused
           \/ \E ahead \in BOOLEAN : Ask(ahead)
           \/ GoOffline \/ GoOnline \/ ServerGoes \/ ServerReturns
  <2>1. QuietStep /\ ClientTyped'
    BY <1>0, <1>3, ClientSteps
  <2>2. StreamTypeOK' /\ StreamInv'
    BY <1>0, <2>1, QuietStepKeeps
  <2> QED
    BY <1>a, <2>1, <2>2 DEF CInv
<1>4. CASE UNCHANGED vars
  <2>1. QuietStep /\ ClientTyped'
    BY <1>0, <1>4 DEF vars, QuietStep, ClientTyped, StreamTypeOK, netVars, clientVars
  <2>2. StreamTypeOK' /\ StreamInv'
    BY <1>0, <2>1, QuietStepKeeps
  <2> QED
    BY <1>a, <2>1, <2>2 DEF CInv
<1> QED
  BY <1>1, <1>2, <1>3, <1>4 DEF Next

\* What was sent was asked for; what is published after the cursor was sent: up
\* to the last event sent the whole log is, and what comes later than that is not
\* published yet.
LEMMA InvIsComplete == CInv => StreamIsComplete
<1> SUFFICES ASSUME CInv, stream.step = "follow"
             PROVE  /\ stream.sent \subseteq {c \in log : c > stream.after}
                    /\ ~reordered /\ stream.whole =>
                          {c \in Published : c > stream.after} \subseteq stream.sent
  BY DEF StreamIsComplete
<1>1. NothingIsSkipped
  BY DEF CInv, StreamInv
<1>2. \A c \in Published : c > stream.after => c \in After(stream.after)
  BY PublishedIsLogged DEF After
<1> QED
  BY <1>1, <1>2 DEF NothingIsSkipped, After

\* Every variable of the event log, its stream and its client has its type.
THEOREM ClientsTyped == Spec => []TypeOK
<1>1. CInv => TypeOK
  BY DEF CInv
<1> QED
  BY <1>1, InitCInv, NextCInv, PTL DEF Spec

\* A connection that follows the hub has sent every published event after its
\* cursor and none that was not asked for, unless events were committed or
\* published out of order or the replay was cut off: nothing falls between the
\* query and the hub, whatever is emitted meanwhile.
THEOREM StreamsAreComplete == Spec => []StreamIsComplete
  BY InitCInv, NextCInv, InvIsComplete, PTL DEF Spec

=============================================================================
