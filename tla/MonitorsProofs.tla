---------------------------- MODULE MonitorsProofs ----------------------------
(***************************************************************************)
(* Proofs about the monitors.  filemon: wherever a line is missing the     *)
(* loss is told, and it does not act on the files it makes itself.         *)
(* jurple_console: what it prints is what it received, as long as no       *)
(* message is longer than what is cleared after it and than those that     *)
(* come later.  netbottom: the line of a source is printed once, and tells *)
(* of that source.  The bpf example: the packets that match are printed,   *)
(* in order and once each.  And all of them, with the first lsock, stay    *)
(* well typed: the last section rests on the invariants of the others.     *)
(***************************************************************************)
EXTENDS Monitors, OldLsockProofs, InductionLemmas, SequenceTheorems, FiniteSetTheorems

-----------------------------------------------------------------------------
(* filemon: the events are numbered as they are made.  The argument is     *)
(* about where it stands in that order: n events lie before the buffer,    *)
(* those in the buffer and then those in the queue follow without a gap    *)
(* unless the queue was full, and in that case a notice is read before     *)
(* them.                                                                   *)

FilemonSpec == FilemonInit /\ [][FilemonNext]_filemonVars

Names == Programs \cup {None, "filemon"}
Path == Seq(Files \cup Nat)

\* Only filemon itself makes names of more than one part.
Event ==
    {e \in [id : Nat \ {0}, type : {"create", "delete"}, pid : Pids, path : Path] :
        e.pid # Self => Len(e.path) = 1}
OutputLine == [id : Nat \ {0}, pid : Pids, name : Names]

FilemonShape ==
    /\ procs \in [Pids -> Names] /\ procName \in Names
    /\ autolink \in Nat /\ overflow \in BOOLEAN
    /\ posted \in Seq(Event) /\ queue \in Seq(Event)
    /\ buf \in Seq(Event \cup {Dropped})
    /\ output \in Seq(OutputLine \cup {Dropped})
    /\ doing \in {"link", "stop"} => buf # <<>> /\ event # Dropped
    /\ doing = "link" => event.pid # Self
    /\ doing \in {"start", "exit", "read"} => buf = <<>>
    /\ \A path \in fs : Len(path) <= 2

Numbered == \A i \in 1 .. Len(posted) : posted[i].id = i

\* While nothing was lost, the queue holds the last events.
QueueIsLast ==
    ~overflow =>
        /\ Len(queue) <= Len(posted)
        /\ \A i \in 1 .. Len(queue) : queue[i] = posted[(Len(posted) - Len(queue)) + i]

\* n events lie before the buffer, whose events follow them, and then the queue's.
BufferFollows(n) ==
    /\ n \in Nat /\ n <= Len(posted)
    /\ \/ buf # <<>> /\ event = Dropped
       \/ /\ n + Len(buf) <= Len(posted)
          /\ \A i \in 1 .. Len(buf) : buf[i] = posted[n + i]
          /\ overflow \/ (n + Len(buf)) + Len(queue) = Len(posted)

\* The event at the head of the buffer has been printed already.
Shown == IF doing \in {"link", "stop"} THEN 1 ELSE 0

LastLine == output[Len(output)]

\* Of the first s events, all behind the last line were filtered out.
LinesFollow(s) ==
    output # <<>> /\ LastLine # Dropped =>
        /\ LastLine.id <= s
        /\ \A j \in LastLine.id + 1 .. s : ~Interesting(posted[j])

LinesArePosted ==
    \A i \in 1 .. Len(output) : output[i] # Dropped => output[i].id \in 1 .. Len(posted)

Order ==
    /\ Numbered /\ QueueIsLast
    /\ \E n \in Nat : BufferFollows(n) /\ LinesFollow(n + Shown)
    /\ LinesArePosted /\ GapsAreMarked

FilemonInv == FilemonShape /\ Order

LEMMA Distinct ==
    /\ \A e \in Event : e # Dropped
    /\ \A l \in OutputLine : l # Dropped
  <1>1. Dropped.id = 0
    BY DEF Dropped
  <1>2. ASSUME NEW e \in Event PROVE e.id \in Nat \ {0}
    BY DEF Event
  <1>3. ASSUME NEW l \in OutputLine PROVE l.id \in Nat \ {0}
    BY DEF OutputLine
  <1> QED  BY <1>1, <1>2, <1>3

LEMMA Lengths ==
    ASSUME FilemonShape
    PROVE  Len(posted) \in Nat /\ Len(queue) \in Nat /\ Len(buf) \in Nat /\ Len(output) \in Nat
  BY LenProperties DEF FilemonShape

-----------------------------------------------------------------------------
(* What the kernel does to the queue                                       *)

\* Events are added to those that were made, and to the queue or to the losses.
Grows ==
    /\ posted' \in Seq(Event) /\ queue' \in Seq(Event) /\ overflow' \in BOOLEAN
    /\ Len(posted) <= Len(posted')
    /\ \A i \in 1 .. Len(posted) : posted'[i] = posted[i]
    /\ Numbered' /\ QueueIsLast'
    /\ overflow' \/ (~overflow /\ Len(posted') + Len(queue) = Len(posted) + Len(queue'))

LEMMA StaysGrows ==
    ASSUME FilemonShape, Numbered, QueueIsLast, UNCHANGED <<posted, queue, overflow>>
    PROVE  Grows
  BY Lengths DEF Grows, FilemonShape, Numbered, QueueIsLast

LEMMA PostGrows ==
    ASSUME FilemonShape, Numbered, QueueIsLast,
           NEW type \in {"create", "delete"}, NEW pid \in Pids, NEW path \in Path,
           pid # Self => Len(path) = 1, Post(type, pid, path)
    PROVE  Grows
  <1> DEFINE n == Len(posted)
             q == Len(queue)
             e == [id |-> n + 1, type |-> type, pid |-> pid, path |-> path]
  <1>1. CASE ~Listening
    BY <1>1, StaysGrows DEF Post
  <1>2. CASE Listening
    <2>0. /\ posted \in Seq(Event) /\ queue \in Seq(Event) /\ overflow \in BOOLEAN
          /\ n \in Nat /\ q \in Nat
      BY Lengths DEF FilemonShape
    <2>1. /\ posted' = Append(posted, e)
          /\ IF q < Depth THEN queue' = Append(queue, e) /\ overflow' = overflow
             ELSE overflow' = TRUE /\ queue' = queue
      BY <1>2 DEF Post
    <2>2. e \in Event /\ e.id = n + 1
      BY <2>0 DEF Event
    <2> HIDE DEF e
    <2>3. /\ posted' \in Seq(Event) /\ Len(posted') = n + 1
          /\ \A i \in 1 .. n : posted'[i] = posted[i]
          /\ posted'[n + 1] = e
      BY <2>0, <2>1, <2>2, AppendProperties
    <2>4. Append(queue, e) \in Seq(Event) /\ Len(Append(queue, e)) = q + 1
          /\ (\A i \in 1 .. q : Append(queue, e)[i] = queue[i])
          /\ Append(queue, e)[q + 1] = e
      BY <2>0, <2>2, AppendProperties
    <2> HIDE DEF n, q
    <2>5. Numbered'
      BY <2>0, <2>2, <2>3 DEF Numbered, n
    <2>6. CASE overflow' = TRUE
      <3>1. queue' \in Seq(Event)
        BY <2>0, <2>1, <2>4
      <3> QED  BY <2>0, <2>3, <2>5, <2>6, <3>1 DEF Grows, QueueIsLast, n
    <2>7. CASE overflow' # TRUE
      <3>1. ~overflow /\ overflow' = FALSE /\ queue' = Append(queue, e)
        BY <2>0, <2>1, <2>7
      <3>2. q <= n /\ \A i \in 1 .. q : queue[i] = posted[(n - q) + i]
        BY <3>1 DEF QueueIsLast, n, q
      <3>3. Len(queue') = q + 1 /\ Len(posted') = n + 1 /\ (n + 1) - (q + 1) = n - q
        BY <2>0, <2>3, <2>4, <3>1
      <3>4. ASSUME NEW i \in 1 .. q + 1 PROVE queue'[i] = posted'[(n - q) + i]
        <4>1. CASE i = q + 1
          <5>1. (n - q) + i = n + 1
            BY <2>0, <4>1
          <5>2. queue'[i] = e
            BY <2>0, <2>4, <3>1, <4>1
          <5>3. posted'[(n - q) + i] = e
            BY <2>0, <2>3, <5>1
          <5> QED  BY <5>2, <5>3
        <4>2. CASE i # q + 1
          <5>1. i \in 1 .. q /\ (n - q) + i \in 1 .. n
            BY <2>0, <3>2, <4>2
          <5> QED  BY <2>3, <2>4, <3>1, <3>2, <5>1
        <4> QED  BY <4>1, <4>2
      <3>5. QueueIsLast'
        <4>1. /\ Len(queue') <= Len(posted')
              /\ Len(posted') - Len(queue') = n - q
              /\ 1 .. Len(queue') = 1 .. q + 1
          BY <2>0, <3>2, <3>3
        <4> QED  BY <3>4, <4>1 DEF QueueIsLast
      <3>6. Len(posted') + Len(queue) = Len(posted) + Len(queue')
        BY <2>0, <3>3 DEF n, q
      <3>7. queue' \in Seq(Event) /\ overflow' \in BOOLEAN
        BY <2>4, <3>1
      <3>8. Len(posted) <= Len(posted') /\ \A i \in 1 .. Len(posted) : posted'[i] = posted[i]
        BY <2>0, <2>3 DEF n
      <3> QED  BY <2>3, <2>5, <3>1, <3>5, <3>6, <3>7, <3>8 DEF Grows
    <2> QED  BY <2>6, <2>7
  <1> QED  BY <1>1, <1>2

-----------------------------------------------------------------------------
(* What becomes of the buffer and of the lines                             *)

LEMMA BufferStays ==
    ASSUME FilemonShape, Grows, NEW n, BufferFollows(n), buf' = buf
    PROVE  BufferFollows(n)'
  <1>1. /\ n \in Nat /\ n <= Len(posted) /\ Len(posted) <= Len(posted')
        /\ Len(posted) \in Nat /\ Len(queue) \in Nat /\ Len(buf) \in Nat
        /\ Len(posted') \in Nat /\ Len(queue') \in Nat
    BY Lengths, LenProperties DEF BufferFollows, Grows
  <1>2. CASE buf # <<>> /\ event = Dropped
    BY <1>1, <1>2 DEF BufferFollows, event
  <1>3. CASE ~(buf # <<>> /\ event = Dropped)
    <2>1. /\ n + Len(buf) <= Len(posted)
          /\ \A i \in 1 .. Len(buf) : buf[i] = posted[n + i]
          /\ overflow \/ (n + Len(buf)) + Len(queue) = Len(posted)
      BY <1>3 DEF BufferFollows
    <2>2. \A i \in 1 .. Len(buf) : n + i \in 1 .. Len(posted)
      BY <1>1, <2>1
    <2>3. \A i \in 1 .. Len(buf) : buf[i] = posted'[n + i]
      BY <2>1, <2>2 DEF Grows
    <2>4. overflow' \/ (n + Len(buf)) + Len(queue') = Len(posted')
      BY <1>1, <2>1 DEF Grows
    <2> QED  BY <1>1, <2>1, <2>3, <2>4 DEF BufferFollows
  <1> QED  BY <1>2, <1>3

LEMMA BufferMoves ==
    ASSUME FilemonShape, Grows, NEW n, BufferFollows(n), buf # <<>>, event # Dropped,
           buf' = Tail(buf)
    PROVE  /\ event = posted[n + 1] /\ n + 1 \in 1 .. Len(posted)
           /\ BufferFollows(n + 1)'
  <1>1. /\ n \in Nat /\ n <= Len(posted) /\ Len(posted) <= Len(posted')
        /\ Len(posted) \in Nat /\ Len(queue) \in Nat /\ Len(buf) \in Nat
        /\ Len(posted') \in Nat /\ Len(queue') \in Nat
    BY Lengths, LenProperties DEF BufferFollows, Grows
  <1>2. /\ n + Len(buf) <= Len(posted)
        /\ \A i \in 1 .. Len(buf) : buf[i] = posted[n + i]
        /\ overflow \/ (n + Len(buf)) + Len(queue) = Len(posted)
    BY DEF BufferFollows
  <1>3. /\ Len(buf) # 0 /\ Len(buf') = Len(buf) - 1 /\ event = buf[1]
        /\ \A i \in 1 .. Len(buf) - 1 : buf'[i] = buf[i + 1]
    BY HeadTailProperties, EmptySeq DEF FilemonShape, event
  <1>4. 1 \in 1 .. Len(buf) /\ n + 1 \in 1 .. Len(posted) /\ event = posted[n + 1]
    BY <1>1, <1>2, <1>3
  <1>5. ASSUME NEW i \in 1 .. Len(buf') PROVE buf'[i] = posted'[(n + 1) + i]
    <2>1. /\ i \in 1 .. Len(buf) - 1 /\ i + 1 \in 1 .. Len(buf)
          /\ n + (i + 1) = (n + 1) + i /\ n + (i + 1) \in 1 .. Len(posted)
      BY <1>1, <1>2, <1>3
    <2>2. buf'[i] = buf[i + 1] /\ buf[i + 1] = posted[n + (i + 1)]
      BY <1>2, <1>3, <2>1
    <2>3. posted'[n + (i + 1)] = posted[n + (i + 1)]
      BY <2>1 DEF Grows
    <2> QED  BY <2>1, <2>2, <2>3
  <1>6. overflow' \/ ((n + 1) + Len(buf')) + Len(queue') = Len(posted')
    BY <1>1, <1>2, <1>3 DEF Grows
  <1>7. n + 1 \in Nat /\ n + 1 <= Len(posted') /\ (n + 1) + Len(buf') <= Len(posted')
    BY <1>1, <1>2, <1>3, <1>4
  <1> QED  BY <1>4, <1>5, <1>6, <1>7 DEF BufferFollows

LEMMA LinesStay ==
    ASSUME FilemonShape, Grows, NEW s \in Nat, s <= Len(posted), LinesFollow(s),
           LinesArePosted, GapsAreMarked, UNCHANGED <<output, opts>>
    PROVE  LinesFollow(s)' /\ LinesArePosted' /\ GapsAreMarked'
  <1>1. /\ Len(posted) \in Nat /\ Len(output) \in Nat /\ Len(posted') \in Nat
        /\ Len(posted) <= Len(posted')
        /\ \A i \in 1 .. Len(posted) : posted'[i] = posted[i]
    BY Lengths, LenProperties DEF Grows
  <1>2. \A e : Interesting(e)' <=> Interesting(e)
    BY DEF Interesting
  <1>3. LinesArePosted'
    BY <1>1 DEF LinesArePosted
  <1>4. GapsAreMarked'
    <2> SUFFICES ASSUME NEW i \in 1 .. Len(output) - 1, Dropped \notin {output[i], output[i + 1]}
                 PROVE  /\ output[i].id < output[i + 1].id
                        /\ \A j \in output[i].id + 1 .. output[i + 1].id - 1 :
                             ~Interesting(posted'[j])
      BY <1>2 DEF GapsAreMarked, Interesting
    <2>1. /\ output[i].id < output[i + 1].id
          /\ \A j \in output[i].id + 1 .. output[i + 1].id - 1 : ~Interesting(posted[j])
      BY DEF GapsAreMarked
    <2>2. i \in 1 .. Len(output) /\ i + 1 \in 1 .. Len(output)
      BY <1>1
    <2>3. output[i].id \in 1 .. Len(posted) /\ output[i + 1].id \in 1 .. Len(posted)
      BY <2>2 DEF LinesArePosted
    <2>4. \A j \in output[i].id + 1 .. output[i + 1].id - 1 : j \in 1 .. Len(posted)
      BY <1>1, <2>3
    <2> QED  BY <1>1, <2>1, <2>4
  <1>5. LinesFollow(s)'
    <2> SUFFICES ASSUME output # <<>>, LastLine # Dropped
                 PROVE  /\ LastLine.id <= s
                        /\ \A j \in LastLine.id + 1 .. s : ~Interesting(posted'[j])
      BY <1>2 DEF LinesFollow, LastLine, Interesting
    <2>1. LastLine.id <= s /\ \A j \in LastLine.id + 1 .. s : ~Interesting(posted[j])
      BY DEF LinesFollow
    <2>2. LastLine.id \in 1 .. Len(posted)
      <3>1. Len(output) \in 1 .. Len(output)
        BY <1>1, EmptySeq DEF FilemonShape
      <3> QED  BY <3>1 DEF LinesArePosted, LastLine
    <2>3. \A j \in LastLine.id + 1 .. s : j \in 1 .. Len(posted)
      BY <1>1, <2>2
    <2> QED  BY <1>1, <2>1, <2>3
  <1> QED  BY <1>3, <1>4, <1>5

LEMMA LinesSkip ==
    ASSUME FilemonShape, NEW s \in Nat, LinesFollow(s), ~Interesting(posted[s + 1]),
           LinesArePosted, GapsAreMarked, UNCHANGED <<posted, output, opts>>
    PROVE  LinesFollow(s + 1)' /\ LinesArePosted' /\ GapsAreMarked'
  <1>1. \A e : Interesting(e)' <=> Interesting(e)
    BY DEF Interesting
  <1>2. LinesArePosted' /\ GapsAreMarked'
    BY <1>1 DEF LinesArePosted, GapsAreMarked, Interesting
  <1>3. ASSUME output # <<>>, LastLine # Dropped
        PROVE  /\ LastLine.id <= s + 1
               /\ \A j \in LastLine.id + 1 .. s + 1 : ~Interesting(posted[j])
    <2>1. LastLine.id <= s /\ \A j \in LastLine.id + 1 .. s : ~Interesting(posted[j])
      BY <1>3 DEF LinesFollow
    <2>2. LastLine.id \in Nat
      <3>1. Len(output) \in 1 .. Len(output)
        BY <1>3, Lengths, EmptySeq DEF FilemonShape
      <3> QED  BY <1>3, <3>1, Lengths DEF LinesArePosted, LastLine
    <2>3. \A j \in LastLine.id + 1 .. s + 1 : j = s + 1 \/ j \in LastLine.id + 1 .. s
      BY <2>2
    <2> QED  BY <2>1, <2>2, <2>3
  <1>4. LinesFollow(s + 1)
    BY <1>3 DEF LinesFollow
  <1>5. LinesFollow(s + 1)'
    BY <1>1, <1>4 DEF LinesFollow, LastLine, Interesting
  <1> QED  BY <1>2, <1>5

LEMMA LinesShow ==
    ASSUME FilemonShape, NEW s \in Nat, s + 1 \in 1 .. Len(posted), LinesFollow(s),
           LinesArePosted, GapsAreMarked, NEW l \in OutputLine, l.id = s + 1,
           output' = Append(output, l), UNCHANGED <<posted, opts>>
    PROVE  LinesFollow(s + 1)' /\ LinesArePosted' /\ GapsAreMarked'
  <1> DEFINE m == Len(output)
  <1>0. m \in Nat /\ output \in Seq(OutputLine \cup {Dropped}) /\ Len(posted) \in Nat
    BY Lengths DEF FilemonShape
  <1>1. /\ output' # <<>> /\ Len(output') = m + 1 /\ output'[m + 1] = l
        /\ \A i \in 1 .. m : output'[i] = output[i]
    BY <1>0, AppendProperties, EmptySeq
  <1>2. \A e : Interesting(e)' <=> Interesting(e)
    BY DEF Interesting
  <1>3. \A i \in 1 .. m + 1 : i = m + 1 \/ i \in 1 .. m
    BY <1>0
  <1>4. LinesFollow(s + 1)'
    <2>1. LastLine' = l
      BY <1>1 DEF LastLine
    <2> QED  BY <2>1, <1>0 DEF LinesFollow
  <1>5. LinesArePosted'
    BY <1>0, <1>1, <1>3 DEF LinesArePosted
  <1>6. GapsAreMarked'
    <2> HIDE DEF m
    <2> SUFFICES ASSUME NEW i \in 1 .. m, Dropped \notin {output'[i], output'[i + 1]}
                 PROVE  /\ output'[i].id < output'[i + 1].id
                        /\ \A j \in output'[i].id + 1 .. output'[i + 1].id - 1 :
                             ~Interesting(posted[j])
      <3>1. Len(output') - 1 = m
        BY <1>0, <1>1
      <3> QED  BY <1>2, <3>1 DEF GapsAreMarked, Interesting
    <2>1. CASE i = m
      <3>1. output # <<>> /\ LastLine # Dropped /\ output'[i] = LastLine /\ output'[i + 1] = l
        BY <1>0, <1>1, <2>1, EmptySeq DEF LastLine, m
      <3>2. LastLine.id <= s /\ \A j \in LastLine.id + 1 .. s : ~Interesting(posted[j])
        BY <3>1 DEF LinesFollow
      <3>3. LastLine.id \in Nat /\ (s + 1) - 1 = s
        BY <1>0, <2>1, <3>1 DEF LinesArePosted, LastLine, m
      <3> QED  BY <3>1, <3>2, <3>3
    <2>2. CASE i # m
      <3>1. i \in 1 .. m - 1 /\ i + 1 \in 1 .. m
        BY <1>0, <2>2
      <3>2. output'[i] = output[i] /\ output'[i + 1] = output[i + 1]
        BY <1>1, <3>1
      <3> QED  BY <3>1, <3>2 DEF GapsAreMarked, m
    <2> QED  BY <2>1, <2>2
  <1> QED  BY <1>4, <1>5, <1>6

-----------------------------------------------------------------------------
(* Steps that keep the order                                               *)

LEMMA Placed ==
    ASSUME FilemonShape, NEW n, BufferFollows(n)
    PROVE  n + Shown \in Nat /\ n + Shown <= Len(posted)
  <1>1. n \in Nat /\ n <= Len(posted) /\ Len(posted) \in Nat /\ Len(buf) \in Nat
    BY Lengths DEF BufferFollows
  <1>2. CASE doing \in {"link", "stop"}
    <2>1. buf # <<>> /\ event # Dropped
      BY <1>2 DEF FilemonShape
    <2>2. n + Len(buf) <= Len(posted) /\ Len(buf) # 0
      BY <2>1, EmptySeq DEF BufferFollows, FilemonShape
    <2> QED  BY <1>1, <1>2, <2>2 DEF Shown
  <1>3. CASE doing \notin {"link", "stop"}
    BY <1>1, <1>3 DEF Shown
  <1> QED  BY <1>2, <1>3

LEMMA StandsStill ==
    ASSUME FilemonShape, Order, Grows, UNCHANGED <<buf, output, opts>>, Shown' = Shown
    PROVE  Order'
  <1>1. PICK n \in Nat : BufferFollows(n) /\ LinesFollow(n + Shown)
    BY DEF Order
  <1>2. n + Shown \in Nat /\ n + Shown <= Len(posted)
    BY <1>1, Placed
  <1>3. BufferFollows(n)'
    BY <1>1, BufferStays
  <1>4. LinesArePosted' /\ GapsAreMarked' /\ \A s : s = n + Shown => LinesFollow(s)'
    BY <1>1, <1>2, LinesStay DEF Order
  <1>5. LinesFollow(n + Shown)'
    BY <1>4 DEF LinesFollow
  <1> QED  BY <1>3, <1>4, <1>5 DEF Order, Grows

\* The event at the head has been dealt with.
LEMMA MovesOn ==
    ASSUME FilemonShape, Order, Grows, buf # <<>>, event # Dropped, Shown = 1,
           buf' = Tail(buf), Shown' = 0, UNCHANGED <<output, opts>>
    PROVE  Order'
  <1>1. PICK n \in Nat : BufferFollows(n) /\ LinesFollow(n + Shown)
    BY DEF Order
  <1>2. n + 1 \in Nat /\ n + 1 <= Len(posted) /\ LinesFollow(n + 1)
    BY <1>1, Placed
  <1>3. BufferFollows(n + 1)'
    BY <1>1, BufferMoves
  <1>4. LinesArePosted' /\ GapsAreMarked' /\ LinesFollow(n + 1)'
    BY <1>2, LinesStay DEF Order
  <1>5. (n + 1) + Shown' = n + 1 /\ n + 1 \in Nat
    BY <1>1
  <1>6. \E k \in Nat : BufferFollows(k)' /\ LinesFollow(k + Shown)'
    BY <1>3, <1>4, <1>5 DEF LinesFollow
  <1> QED  BY <1>4, <1>6 DEF Order, Grows

\* The next event is filtered out.
LEMMA SkipOrder ==
    ASSUME FilemonShape, Order, UNCHANGED <<posted, queue, overflow, output, opts>>,
           buf # <<>>, event # Dropped, ~Interesting(event), Shown = 0,
           buf' = Tail(buf), Shown' = 0
    PROVE  Order'
  <1>1. PICK n \in Nat : BufferFollows(n) /\ LinesFollow(n + Shown)
    BY DEF Order
  <1>2. Grows
    BY StaysGrows DEF Order
  <1>3. event = posted[n + 1] /\ BufferFollows(n + 1)'
    BY <1>1, <1>2, BufferMoves
  <1>4. LinesFollow(n)
    BY <1>1
  <1>5. LinesArePosted' /\ GapsAreMarked' /\ LinesFollow(n + 1)'
    BY <1>3, <1>4, LinesSkip DEF Order
  <1>6. (n + 1) + Shown' = n + 1 /\ n + 1 \in Nat
    BY <1>1
  <1>7. \E k \in Nat : BufferFollows(k)' /\ LinesFollow(k + Shown)'
    BY <1>3, <1>5, <1>6 DEF LinesFollow
  <1> QED  BY <1>2, <1>5, <1>7 DEF Order, Grows

\* The next event is printed, and perhaps looked at again.
LEMMA ShowOrder ==
    ASSUME FilemonShape, Order, UNCHANGED <<posted, queue, overflow, opts>>,
           buf # <<>>, event # Dropped, Shown = 0,
           NEW l \in OutputLine, l.id = event.id, output' = Append(output, l),
           \/ buf' = Tail(buf) /\ Shown' = 0
           \/ buf' = buf /\ Shown' = 1
    PROVE  Order'
  <1>1. PICK n \in Nat : BufferFollows(n) /\ LinesFollow(n + Shown)
    BY DEF Order
  <1>2. Grows
    BY StaysGrows DEF Order
  <1>3. event = posted[n + 1] /\ n + 1 \in 1 .. Len(posted)
    <2>1. /\ n + Len(buf) <= Len(posted)
          /\ \A i \in 1 .. Len(buf) : buf[i] = posted[n + i]
      BY <1>1 DEF BufferFollows
    <2>2. Len(buf) \in Nat /\ Len(buf) # 0 /\ event = buf[1] /\ Len(posted) \in Nat
      BY Lengths, EmptySeq, HeadTailProperties DEF FilemonShape, event
    <2>3. 1 \in 1 .. Len(buf) /\ n + 1 \in 1 .. Len(posted)
      BY <1>1, <2>1, <2>2
    <2> QED  BY <2>1, <2>2, <2>3
  <1>4. LinesFollow(n) /\ l.id = n + 1
    BY <1>1, <1>3 DEF Order, Numbered
  <1>5. LinesArePosted' /\ GapsAreMarked' /\ LinesFollow(n + 1)'
    BY <1>3, <1>4, LinesShow DEF Order
  <1>6. \E k \in Nat : BufferFollows(k)' /\ LinesFollow(k + Shown)'
    <2>1. CASE buf' = Tail(buf) /\ Shown' = 0
      <3>1. BufferFollows(n + 1)'
        BY <1>1, <1>2, <2>1, BufferMoves
      <3>2. (n + 1) + Shown' = n + 1 /\ n + 1 \in Nat
        BY <1>1, <2>1
      <3> QED  BY <1>5, <3>1, <3>2 DEF LinesFollow
    <2>2. CASE buf' = buf /\ Shown' = 1
      <3>1. BufferFollows(n)'
        BY <1>1, <1>2, <2>2, BufferStays
      <3> QED  BY <1>1, <1>5, <2>2, <3>1 DEF LinesFollow
    <2> QED  BY <2>1, <2>2
  <1> QED  BY <1>2, <1>5, <1>6 DEF Order, Grows

\* All that waits is read, behind the notice if there were losses.
LEMMA ReadOrder ==
    ASSUME FilemonShape, Order, buf = <<>>, Shown = 0, Shown' = 0,
           buf' = (IF overflow THEN <<Dropped>> ELSE <<>>) \o queue,
           queue' = <<>>, overflow' = FALSE, UNCHANGED <<posted, output, opts>>
    PROVE  Order'
  <1>1. PICK n \in Nat : BufferFollows(n) /\ LinesFollow(n + Shown)
    BY DEF Order
  <1>2. /\ n <= Len(posted) /\ Len(posted) \in Nat /\ Len(queue) \in Nat
        /\ queue \in Seq(Event) /\ overflow \in BOOLEAN
    BY <1>1, Lengths DEF BufferFollows, FilemonShape
  <1>3. Len(<<>>) = 0 /\ <<>> # <<Dropped>>
    BY EmptySeq
  <1>4. Numbered' /\ QueueIsLast'
    BY <1>2, <1>3 DEF Order, Numbered, QueueIsLast
  <1>5. \A e : Interesting(e)' <=> Interesting(e)
    BY DEF Interesting
  <1>6. LinesArePosted' /\ GapsAreMarked'
    BY <1>5 DEF Order, LinesArePosted, GapsAreMarked, Interesting
  <1>7. BufferFollows(n)'
    <2>1. CASE overflow
      <3> DEFINE notice == <<Dropped>>
      <3>1. buf' = notice \o queue /\ notice \in Seq(Event \cup {Dropped})
        BY <2>1
      <3>2. Len(notice) = 1 /\ notice[1] = Dropped
        OBVIOUS
      <3> HIDE DEF notice
      <3>3. /\ buf' \in Seq(Event \cup {Dropped}) /\ Len(buf') = 1 + Len(queue)
            /\ buf'[1] = Dropped
        <4> DEFINE S == Event \cup {Dropped}
        <4>1. notice \in Seq(S) /\ queue \in Seq(S)
          BY <1>2, <3>1
        <4> HIDE DEF S
        <4>2. /\ notice \o queue \in Seq(S)
              /\ Len(notice \o queue) = Len(notice) + Len(queue)
              /\ \A i \in 1 .. Len(notice) + Len(queue) : (notice \o queue)[i]
                    = IF i <= Len(notice) THEN notice[i] ELSE queue[i - Len(notice)]
          BY <4>1, ConcatProperties
        <4>3. /\ buf' \in Seq(S) /\ Len(buf') = Len(notice) + Len(queue)
              /\ \A i \in 1 .. Len(notice) + Len(queue) :
                    buf'[i] = IF i <= Len(notice) THEN notice[i] ELSE queue[i - Len(notice)]
          BY <3>1, <4>2
        <4> QED  BY <1>2, <3>2, <4>3 DEF S
      <3>4. buf' # <<>> /\ event' = Dropped
        BY <1>2, <3>3, EmptySeq, HeadTailProperties DEF event
      <3> QED  BY <1>1, <1>2, <3>4 DEF BufferFollows
    <2>2. CASE ~overflow
      <3>1. buf' = queue
        <4>1. buf' = <<>> \o queue
          BY <2>2
        <4> QED  BY <1>2, <4>1, ConcatEmptySeq
      <3>2. n + Len(queue) = Len(posted)
        BY <1>1, <1>2, <1>3, <2>2 DEF BufferFollows
      <3>3. \A i \in 1 .. Len(queue) : queue[i] = posted[n + i]
        <4>1. Len(posted) - Len(queue) = n
          BY <1>2, <3>2
        <4> QED  BY <2>2, <4>1 DEF Order, QueueIsLast
      <3>4. (n + Len(buf')) + Len(queue') = Len(posted')
        BY <1>2, <1>3, <3>1, <3>2
      <3> QED  BY <1>2, <3>1, <3>2, <3>3, <3>4 DEF BufferFollows
    <2> QED  BY <2>1, <2>2
  <1>8. LinesFollow(n + Shown)'
    <2>1. n + Shown = n /\ n + Shown' = n
      BY <1>1
    <2> QED  BY <1>1, <1>5, <2>1 DEF LinesFollow, LastLine, Interesting
  <1> QED  BY <1>4, <1>6, <1>7, <1>8 DEF Order

\* The notice is printed, and what was read with it goes unseen: the queue goes on
\* from the last event of all, unless there were more losses meanwhile.
LEMMA DropOrder ==
    ASSUME FilemonShape, Order, output' = Append(output, Dropped), buf' = <<>>, Shown' = 0,
           UNCHANGED <<posted, queue, overflow, opts>>
    PROVE  Order'
  <1> DEFINE m == Len(output)
  <1>0. /\ m \in Nat /\ output \in Seq(OutputLine \cup {Dropped})
        /\ Len(posted) \in Nat /\ Len(queue) \in Nat
    BY Lengths DEF FilemonShape
  <1>1. /\ output' # <<>> /\ Len(output') = m + 1 /\ output'[m + 1] = Dropped
        /\ \A i \in 1 .. m : output'[i] = output[i]
    BY <1>0, AppendProperties, EmptySeq
  <1>2. \A e : Interesting(e)' <=> Interesting(e)
    BY DEF Interesting
  <1>3. Numbered' /\ QueueIsLast'
    BY DEF Order, Numbered, QueueIsLast
  <1>4. LinesArePosted'
    <2>1. \A i \in 1 .. m + 1 : i = m + 1 \/ i \in 1 .. m
      BY <1>0
    <2> QED  BY <1>0, <1>1, <2>1 DEF Order, LinesArePosted
  <1>5. GapsAreMarked'
    <2> HIDE DEF m
    <2> SUFFICES ASSUME NEW i \in 1 .. m, Dropped \notin {output'[i], output'[i + 1]}
                 PROVE  /\ output'[i].id < output'[i + 1].id
                        /\ \A j \in output'[i].id + 1 .. output'[i + 1].id - 1 :
                             ~Interesting(posted[j])
      <3>1. Len(output') - 1 = m
        BY <1>0, <1>1
      <3> QED  BY <1>2, <3>1 DEF GapsAreMarked, Interesting
    <2>1. i # m
      BY <1>1
    <2>2. i \in 1 .. m - 1 /\ i + 1 \in 1 .. m
      BY <1>0, <2>1
    <2>3. output'[i] = output[i] /\ output'[i + 1] = output[i + 1]
      BY <1>1, <2>2
    <2> QED  BY <2>2, <2>3 DEF Order, GapsAreMarked, m
  <1>6. \A n : LinesFollow(n)'
    BY <1>1 DEF LinesFollow, LastLine
  <1>7. \E n \in Nat : BufferFollows(n)'
    <2>1. Len(<<>>) = 0
      BY EmptySeq
    <2>2. CASE overflow
      <3>1. BufferFollows(0)'
        BY <1>0, <2>1, <2>2 DEF BufferFollows
      <3> QED  BY <3>1
    <2>3. CASE ~overflow
      <3> DEFINE n == Len(posted) - Len(queue)
      <3>1. n \in Nat /\ n <= Len(posted) /\ (n + 0) + Len(queue) = Len(posted)
            /\ n + 0 <= Len(posted)
        BY <1>0, <2>3 DEF Order, QueueIsLast
      <3> HIDE DEF n
      <3>2. BufferFollows(n)'
        BY <2>1, <3>1 DEF BufferFollows, n
      <3> QED  BY <3>1, <3>2 DEF n
    <2> QED  BY <2>2, <2>3
  <1>8. \E n \in Nat : BufferFollows(n)' /\ LinesFollow(n + Shown)'
    BY <1>1, <1>7 DEF LinesFollow, LastLine
  <1> QED  BY <1>3, <1>4, <1>5, <1>8 DEF Order

\* filemon has not been started, or was ended.
Fresh ==
    /\ posted = <<>> /\ queue = <<>> /\ overflow = FALSE /\ buf = <<>> /\ output = <<>>
    /\ doing = "start"

LEMMA FreshOrder == Fresh => Order
  <1> SUFFICES ASSUME Fresh PROVE Order
    OBVIOUS
  <1> USE DEF Fresh
  <1>1. Len(<<>>) = 0 /\ ~(<<>> # <<>>)
    BY EmptySeq
  <1>2. Numbered /\ QueueIsLast /\ LinesArePosted /\ GapsAreMarked
    BY <1>1 DEF Numbered, QueueIsLast, LinesArePosted, GapsAreMarked
  <1>3. BufferFollows(0) /\ LinesFollow(0 + Shown)
    BY <1>1 DEF BufferFollows, LinesFollow
  <1> QED  BY <1>2, <1>3 DEF Order

-----------------------------------------------------------------------------
(* What the variables hold                                                 *)

LEMMA HeadIsEvent ==
    ASSUME FilemonShape, buf # <<>>, event # Dropped
    PROVE  /\ event \in Event /\ event.id \in Nat \ {0} /\ event.pid \in Pids
           /\ event.path \in Path /\ (event.pid # Self => Len(event.path) = 1)
           /\ Tail(buf) \in Seq(Event \cup {Dropped})
  <1>1. event \in Event \cup {Dropped} /\ Tail(buf) \in Seq(Event \cup {Dropped})
    BY HeadTailProperties DEF FilemonShape, event
  <1>2. event \in Event
    BY <1>1
  <1> QED  BY <1>1, <1>2 DEF Event

\* filemon is about to link: the name of the link has two parts.
LEMMA LinkHasTwo ==
    ASSUME FilemonShape, doing = "link"
    PROVE  linkName \in Path /\ Len(linkName) = 2
  <1>1. event.path \in Seq(Files \cup Nat) /\ Len(event.path) = 1
    BY HeadIsEvent DEF FilemonShape, Path
  <1>2. autolink \in Files \cup Nat
    BY DEF FilemonShape
  <1> DEFINE S == Files \cup Nat
  <1>3. \A q \in Seq(S), x \in S : Append(q, x) \in Seq(S) /\ Len(Append(q, x)) = Len(q) + 1
    BY AppendProperties
  <1>4. event.path \in Seq(S) /\ autolink \in S
    BY <1>1, <1>2
  <1> HIDE DEF S
  <1>5. Append(event.path, autolink) \in Seq(S)
        /\ Len(Append(event.path, autolink)) = Len(event.path) + 1
    BY <1>3, <1>4
  <1>6. linkName \in Seq(S) /\ Len(linkName) = 2
    BY <1>1, <1>5 DEF linkName
  <1> QED  BY <1>6 DEF Path, S

LEMMA OthersKeep ==
    ASSUME FilemonInv, Others
    PROVE  FilemonInv'
  <1>1. FilemonShape /\ Order /\ Numbered /\ QueueIsLast
    BY DEF FilemonInv, Order
  <1>2. UNCHANGED <<runs, opts, doing, buf, lastPID, procName, autolink, output>>
    BY DEF Others
  <1>3. Grows /\ procs' \in [Pids -> Names] /\ \A path \in fs' : Len(path) <= 2
    <2>1. ASSUME NEW p \in Pids, NEW f \in Files, CreateFile(p, f) \/ DeleteFile(p, f)
          PROVE  Grows /\ procs' \in [Pids -> Names] /\ \A path \in fs' : Len(path) <= 2
      <3>1. <<f>> \in Path /\ Len(<<f>>) = 1
        BY DEF Path
      <3>2. PICK type \in {"create", "delete"} : Post(type, p, <<f>>)
        BY <2>1 DEF CreateFile, DeleteFile
      <3>3. Grows
        BY <1>1, <3>1, <3>2, PostGrows
      <3>4. procs' = procs /\ fs' \subseteq fs \cup {<<f>>}
        BY <2>1 DEF CreateFile, DeleteFile
      <3>5. PICK made : made = <<f>> /\ Len(made) = 1
        BY <3>1
      <3>6. \A path \in fs : Len(path) <= 2
        BY <1>1 DEF FilemonShape
      <3>7. fs' \subseteq fs \cup {made}
        BY <3>4, <3>5
      <3>8. Len(made) <= 2
        BY <3>5
      <3>9. \A path \in fs' : Len(path) <= 2
        BY <3>6, <3>7, <3>8
      <3> QED  BY <1>1, <3>3, <3>4, <3>9 DEF FilemonShape
    <2>2. ASSUME NEW p \in Pids, ExitProcess(p)
          PROVE  Grows /\ procs' \in [Pids -> Names] /\ \A path \in fs' : Len(path) <= 2
      BY <1>1, <2>2, StaysGrows DEF ExitProcess, FilemonShape, Names
    <2>3. ASSUME NEW p \in Pids, NEW program \in Programs, Spawn(p, program)
          PROVE  Grows /\ procs' \in [Pids -> Names] /\ \A path \in fs' : Len(path) <= 2
      BY <1>1, <2>3, StaysGrows DEF Spawn, FilemonShape, Names
    <2> QED  BY <2>1, <2>2, <2>3 DEF Others
  <1>4. FilemonShape'
    BY <1>1, <1>2, <1>3 DEF FilemonShape, Grows, event
  <1>5. Order'
    BY <1>1, <1>2, <1>3, StandsStill DEF Shown
  <1> QED  BY <1>4, <1>5 DEF FilemonInv

LEMMA StartKeeps ==
    ASSUME FilemonInv, Start \/ ReadOn
    PROVE  FilemonInv'
  <1>1. FilemonShape /\ Order /\ Numbered /\ QueueIsLast
    BY DEF FilemonInv, Order
  <1>2. /\ UNCHANGED <<fseventVars, opts, buf, procName, output>>
        /\ doing \in {"start", "event"} /\ doing' \in {"exit", "read"} /\ buf = <<>>
        /\ autolink' \in Nat
    BY <1>1 DEF Start, ReadOn, At, FilemonShape
  <1>3. Grows
    BY <1>1, <1>2, StaysGrows DEF fseventVars
  <1>4. FilemonShape'
    BY <1>1, <1>2 DEF FilemonShape, fseventVars, event
  <1>5. Order'
    BY <1>1, <1>2, <1>3, StandsStill DEF Shown
  <1> QED  BY <1>4, <1>5 DEF FilemonInv

LEMMA EventsReadKeeps ==
    ASSUME FilemonInv, Read
    PROVE  FilemonInv'
  <1>1. FilemonShape /\ Order
    BY DEF FilemonInv
  <1>2. /\ doing = "read" /\ doing' = "event"
        /\ buf' = (IF overflow THEN <<Dropped>> ELSE <<>>) \o queue
        /\ queue' = <<>> /\ overflow' = FALSE
        /\ UNCHANGED <<procs, fs, posted, opts, procName, autolink, output>>
    BY DEF Read, At
  <1>3. buf' \in Seq(Event \cup {Dropped})
    <2>1. queue \in Seq(Event \cup {Dropped})
      BY <1>1 DEF FilemonShape
    <2>2. (IF overflow THEN <<Dropped>> ELSE <<>>) \in Seq(Event \cup {Dropped})
      <3>1. <<Dropped>> \in Seq(Event \cup {Dropped})
        OBVIOUS
      <3>2. <<>> \in Seq(Event \cup {Dropped})
        OBVIOUS
      <3> QED  BY <3>1, <3>2
    <2> QED  BY <1>2, <2>1, <2>2, ConcatProperties
  <1>4. FilemonShape'
    <2>1. <<>> \in Seq(Event) /\ FALSE \in BOOLEAN
      OBVIOUS
    <2>2. queue' \in Seq(Event) /\ overflow' \in BOOLEAN
      BY <1>2, <2>1
    <2>3. ~(doing' \in {"start", "exit", "read", "link", "stop"})
      BY <1>2
    <2>4. /\ procs' \in [Pids -> Names] /\ procName' \in Names /\ autolink' \in Nat
          /\ posted' \in Seq(Event) /\ output' \in Seq(OutputLine \cup {Dropped})
          /\ \A path \in fs' : Len(path) <= 2
      BY <1>1, <1>2 DEF FilemonShape
    <2> QED  BY <1>3, <2>2, <2>3, <2>4 DEF FilemonShape
  <1>5. Order'
    BY <1>1, <1>2, ReadOrder DEF Shown, FilemonShape
  <1> QED  BY <1>4, <1>5 DEF FilemonInv

LEMMA DropKeeps ==
    ASSUME FilemonInv, EventsDropped
    PROVE  FilemonInv'
  <1>1. FilemonShape /\ Order
    BY DEF FilemonInv
  <1>2. /\ doing = "event" /\ doing' = "event" /\ buf' = <<>>
        /\ output' = Append(output, Dropped)
        /\ UNCHANGED <<fseventVars, opts, procName, autolink>>
    BY DEF EventsDropped, At
  <1>3. output' \in Seq(OutputLine \cup {Dropped})
    BY <1>1, <1>2, AppendProperties DEF FilemonShape
  <1>4. FilemonShape'
    BY <1>1, <1>2, <1>3 DEF FilemonShape, fseventVars
  <1>5. Order'
    BY <1>1, <1>2, DropOrder DEF Shown, fseventVars
  <1> QED  BY <1>4, <1>5 DEF FilemonInv

LEMMA ShowKeeps ==
    ASSUME FilemonInv, ShowEvent
    PROVE  FilemonInv'
  <1>1. FilemonShape /\ Order
    BY DEF FilemonInv
  <1>2. /\ doing = "event" /\ buf # <<>> /\ event # Dropped
        /\ UNCHANGED <<fseventVars, opts, autolink>>
    BY DEF ShowEvent, At
  <1>3. event \in Event /\ Tail(buf) \in Seq(Event \cup {Dropped})
        /\ event.id \in Nat \ {0} /\ event.pid \in Pids
    BY <1>1, <1>2, HeadIsEvent
  <1>4. procName' \in Names
    BY <1>1, <1>3 DEF ShowEvent, GetProcName, FilemonShape
  <1> DEFINE l == [id |-> event.id, pid |-> event.pid, name |-> procName']
  <1>5. l \in OutputLine /\ l.id = event.id
    BY <1>3, <1>4 DEF OutputLine
  <1>6. CASE ~Interesting(event)
    <2>1. doing' = "event" /\ buf' = Tail(buf) /\ output' = output
      BY <1>6 DEF ShowEvent, Done
    <2>2. FilemonShape'
      BY <1>1, <1>2, <1>3, <1>4, <2>1 DEF FilemonShape, fseventVars
    <2>3. Order'
      BY <1>1, <1>2, <1>6, <2>1, SkipOrder DEF Shown, fseventVars
    <2> QED  BY <2>2, <2>3 DEF FilemonInv
  <1>7. CASE Interesting(event)
    <2>1. output' = Append(output, l)
      BY <1>7 DEF ShowEvent
    <2>2. \/ doing' = "event" /\ buf' = Tail(buf)
          \/ doing' = "stop" /\ buf' = buf
          \/ doing' = "link" /\ buf' = buf /\ event.pid # Self
      BY <1>7 DEF ShowEvent, Done, ToLink
    <2> HIDE DEF l
    <2>3. output' \in Seq(OutputLine \cup {Dropped})
      BY <1>1, <1>5, <2>1, AppendProperties DEF FilemonShape
    <2>4. FilemonShape'
      BY <1>1, <1>2, <1>3, <1>4, <2>2, <2>3 DEF FilemonShape, fseventVars, event
    <2>5. Order'
      BY <1>1, <1>2, <1>5, <2>1, <2>2, ShowOrder DEF Shown, fseventVars
    <2> QED  BY <2>4, <2>5 DEF FilemonInv
  <1> QED  BY <1>6, <1>7

\* The event at the head is done with, or the process is to be stopped as well.
LEMMA HeadKeeps ==
    ASSUME FilemonInv, doing \in {"link", "stop"}, Grows,
           procs' = procs, procName' = procName, autolink' \in Nat, UNCHANGED <<output, opts>>,
           \A path \in fs' : Len(path) <= 2,
           \/ doing' = "stop" /\ buf' = buf
           \/ Done
    PROVE  FilemonInv'
  <1>1. FilemonShape /\ Order /\ buf # <<>> /\ event # Dropped
    BY DEF FilemonInv, FilemonShape
  <1>2. Tail(buf) \in Seq(Event \cup {Dropped})
    BY <1>1, HeadIsEvent
  <1>3. FilemonShape'
    BY <1>1, <1>2 DEF FilemonShape, Done, Grows, event
  <1>4. CASE doing' = "stop" /\ buf' = buf
    BY <1>1, <1>3, <1>4, StandsStill DEF Shown, FilemonInv
  <1>5. CASE Done
    BY <1>1, <1>3, <1>5, MovesOn DEF Shown, Done, FilemonInv
  <1> QED  BY <1>4, <1>5

LEMMA LinkKeeps ==
    ASSUME FilemonInv, AutoLink \/ LinkWarning \/ AutoStop
    PROVE  FilemonInv'
  <1>1. FilemonShape /\ Numbered /\ QueueIsLast /\ autolink \in Nat
    BY DEF FilemonInv, Order, FilemonShape
  <1>2. CASE AutoLink
    <2>1. doing = "link" /\ Post("create", Self, linkName) /\ fs' = fs \cup {linkName}
      BY <1>2 DEF AutoLink, At
    <2>2. linkName \in Path /\ Len(linkName) = 2
      BY <1>1, <2>1, LinkHasTwo
    <2>3. Grows
      <3>1. Self \in Pids
        BY FilemonAssumption DEF FilemonAssumption
      <3> HIDE DEF linkName
      <3> QED  BY <1>1, <2>1, <2>2, <3>1, PostGrows
    <2>4. \A path \in fs' : Len(path) <= 2
      <3>1. \A path \in fs' : path \in fs \/ path = linkName
        BY <2>1
      <3>2. \A path \in fs : Len(path) <= 2
        BY <1>1 DEF FilemonShape
      <3>3. ASSUME NEW k, k = 2 PROVE k <= 2
        BY <3>3
      <3>4. Len(linkName) <= 2
        BY <2>2, <3>3, Zenon
      <3> QED  BY <3>1, <3>2, <3>4, Zenon
    <2>5. /\ UNCHANGED <<procs, procName, output, opts>> /\ autolink' \in Nat
          /\ (doing' = "stop" /\ buf' = buf) \/ Done
      BY <1>1, <1>2 DEF AutoLink, AfterLink
    <2> QED  BY <2>1, <2>3, <2>4, <2>5, HeadKeeps
  <1>3. CASE LinkWarning \/ AutoStop
    <2>1. /\ UNCHANGED <<procs, fs, queue, overflow, posted, opts, procName, autolink, output>>
          /\ doing \in {"link", "stop"}
          /\ (doing' = "stop" /\ buf' = buf) \/ Done
      BY <1>3 DEF LinkWarning, AutoStop, AfterLink, At, fseventVars
    <2>2. Grows
      BY <1>1, <2>1, StaysGrows
    <2>3. \A path \in fs' : Len(path) <= 2
      BY <1>1, <2>1 DEF FilemonShape
    <2> QED  BY <1>1, <2>1, <2>2, <2>3, HeadKeeps
  <1> QED  BY <1>2, <1>3

LEMMA QuitKeeps ==
    ASSUME FilemonInv, Quit
    PROVE  FilemonInv'
  <1>1. /\ posted' = <<>> /\ queue' = <<>> /\ overflow' = FALSE /\ buf' = <<>>
        /\ output' = <<>> /\ doing' = "start" /\ procName' = None /\ autolink' = 0
        /\ UNCHANGED <<procs, fs>>
    BY DEF Quit
  <1>2. <<>> \in Seq(Event) /\ <<>> \in Seq(Event \cup {Dropped})
        /\ <<>> \in Seq(OutputLine \cup {Dropped})
    OBVIOUS
  <1>3. FilemonShape'
    BY <1>1, <1>2 DEF FilemonInv, FilemonShape, Names
  <1>4. Order'
    <2>1. Fresh'
      BY <1>1 DEF Fresh
    <2> QED  BY <2>1, FreshOrder, PTL
  <1> QED  BY <1>3, <1>4 DEF FilemonInv

-----------------------------------------------------------------------------
(* The theorems                                                            *)

LEMMA InitInv == FilemonInit => FilemonInv
  <1> SUFFICES ASSUME FilemonInit PROVE FilemonInv
    OBVIOUS
  <1>1. /\ posted = <<>> /\ queue = <<>> /\ overflow = FALSE /\ buf = <<>> /\ output = <<>>
        /\ doing = "start" /\ fs = {} /\ procName = None /\ autolink = 0
    BY DEF FilemonInit
  <1>2. procs \in [Pids -> Names]
    BY DEF FilemonInit, Names
  <1>3. <<>> \in Seq(Event) /\ <<>> \in Seq(Event \cup {Dropped})
        /\ <<>> \in Seq(OutputLine \cup {Dropped})
    OBVIOUS
  <1>4. FilemonShape
    BY <1>1, <1>2, <1>3 DEF FilemonShape, Names
  <1>5. Order
    BY <1>1, FreshOrder DEF Fresh
  <1> QED  BY <1>4, <1>5 DEF FilemonInv

LEMMA StepInv == FilemonInv /\ [FilemonNext]_filemonVars => FilemonInv'
  <1> SUFFICES ASSUME FilemonInv, [FilemonNext]_filemonVars PROVE FilemonInv'
    OBVIOUS
  <1>1. CASE FilemonStep
    BY <1>1, StartKeeps, EventsReadKeeps, DropKeeps, ShowKeeps, LinkKeeps DEF FilemonStep
  <1>2. CASE Others \/ Quit
    BY <1>2, OthersKeep, QuitKeeps
  <1>3. CASE UNCHANGED filemonVars
    <2>1. FilemonShape /\ Order /\ UNCHANGED filemonVars /\ UNCHANGED fseventVars
      BY <1>3 DEF FilemonInv, filemonVars
    <2>2. FilemonShape'
      BY <2>1 DEF FilemonShape, filemonVars, fseventVars, event
    <2>3. Order'
      BY <2>1, StandsStill, StaysGrows DEF Order, Shown, filemonVars, fseventVars
    <2> QED  BY <2>2, <2>3 DEF FilemonInv
  <1> QED  BY <1>1, <1>2, <1>3 DEF FilemonNext

LEMMA FilemonInvariant == FilemonSpec => []FilemonInv
  BY InitInv, StepInv, PTL DEF FilemonSpec

\* Whatever processes do, however short the queue and whichever options are given:
\* where an interesting event is missing between two lines, one of them is the
\* notice that events were dropped.
THEOREM GapsAreAlwaysMarked == FilemonSpec => []GapsAreMarked
  <1>1. FilemonInv => GapsAreMarked
    BY DEF FilemonInv, Order
  <1> QED  BY <1>1, FilemonInvariant, PTL

\* However many links filemon makes, it never makes a link of a link.
THEOREM NeverFeedsBack == FilemonSpec => []NoFeedback
  <1>1. FilemonInv => NoFeedback
    BY DEF FilemonInv, FilemonShape, NoFeedback
  <1> QED  BY <1>1, FilemonInvariant, PTL

-----------------------------------------------------------------------------
(* jurple_console                                                          *)

JurpleSpec == JurpleInit /\ [][JurpleNext]_jurpleVars

Chunk == [byte : Nat \ {0}, length : 1 .. BUFSIZE]

\* What is left in the buffer is of messages longer than what is cleared.
BufferIsKnown ==
    \A k \in 1 .. BUFSIZE : relayBuf[k] # 0 =>
        k > Cleared /\ \E j \in DOMAIN lengths : k <= lengths[j]

AllHarmless == \A i \in DOMAIN lengths : Harmless(i)

JurpleInv ==
    /\ relayBuf \in [1 .. BUFSIZE -> Nat] /\ sent \in Nat
    /\ stream \in Seq(Chunk) /\ lengths \in Seq(1 .. BUFSIZE)
    /\ BufferIsKnown
    /\ AllHarmless => printed = received

\* A buffer of n equal bytes, a 0 behind them, prints as these bytes.
LEMMA OneString ==
    ASSUME NEW b \in [1 .. BUFSIZE -> Nat], NEW n \in 1 .. BUFSIZE - 1, NEW c \in Nat \ {0},
           \A k \in 1 .. n : b[k] = c, b[n + 1] = 0
    PROVE  Strings(b) = {Times(n, c)}
  <1>0. BUFSIZE \in Nat \ {0}
    BY JurpleAssumption DEF JurpleAssumption
  <1>1. n + 1 \in DOMAIN b /\ DOMAIN b = 1 .. BUFSIZE
    BY <1>0
  <1> DEFINE First(k) == b[k] = 0 /\ \A j \in 1 .. k - 1 : b[j] # 0
  <1>2. First(n + 1)
    BY <1>0
  <1>3. ASSUME NEW k \in DOMAIN b, First(k) PROVE k = n + 1
    <2>1. ~(k <= n)
      BY <1>0, <1>3
    <2>2. ~(n + 1 < k)
      <3>1. n + 1 < k => n + 1 \in 1 .. k - 1
        BY <1>0, <1>1, <1>3
      <3> QED  BY <1>3, <3>1
    <2> QED  BY <1>0, <1>1, <1>3, <2>1, <2>2
  <1>4. (CHOOSE k \in DOMAIN b : First(k)) = n + 1
    <2>1. (CHOOSE k \in DOMAIN b : First(k)) \in DOMAIN b
          /\ First(CHOOSE k \in DOMAIN b : First(k))
      BY <1>1, <1>2
    <2> HIDE DEF First
    <2> QED  BY <1>3, <2>1
  <1>5. Strings(b) = {SubSeq(b, 1, (n + 1) - 1)}
    BY <1>1, <1>4 DEF Strings
  <1>6. (n + 1) - 1 = n
    BY <1>0
  <1>7. SubSeq(b, 1, n) = Times(n, c)
    <2>1. \A i \in 1 .. n : b[i] \in Nat
      BY <1>0
    <2>2. /\ SubSeq(b, 1, n) \in Seq(Nat) /\ Len(SubSeq(b, 1, n)) = n
          /\ \A i \in 1 .. n : SubSeq(b, 1, n)[i] = c
      <3>1. 1 \in Int /\ n \in Int /\ 1 <= n /\ (n - 1) + 1 = n
        BY <1>0
      <3>2. /\ SubSeq(b, 1, n) \in Seq(Nat) /\ Len(SubSeq(b, 1, n)) = (n - 1) + 1
            /\ \A i \in 1 .. (n - 1) + 1 : SubSeq(b, 1, n)[i] = b[(1 + i) - 1]
        BY <2>1, <3>1, SubSeqProperties
      <3>3. \A i \in 1 .. n : (1 + i) - 1 = i
        BY <1>0
      <3> QED  BY <3>1, <3>2, <3>3
    <2>3. Times(n, c) \in Seq(Nat) /\ Len(Times(n, c)) = n /\ \A i \in 1 .. n : Times(n, c)[i] = c
      BY <1>0 DEF Times
    <2> QED  BY <2>2, <2>3, SeqEqual
  <1> QED  BY <1>5, <1>6, <1>7

\* A message is received: the buffer holds it, and is cleared in part.
LEMMA ReceiveKnown ==
    ASSUME JurpleInv, Receive
    PROVE  JurpleInv'
  <1> DEFINE m == Head(stream)
             b == [k \in DOMAIN relayBuf |-> IF k <= m.length THEN m.byte ELSE relayBuf[k]]
             n == Len(lengths)
  <1>0. /\ BUFSIZE \in Nat \ {0} /\ Cleared \in 1 .. BUFSIZE
        /\ relayBuf \in [1 .. BUFSIZE -> Nat] /\ sent \in Nat
        /\ stream \in Seq(Chunk) /\ lengths \in Seq(1 .. BUFSIZE) /\ stream # <<>>
    BY JurpleAssumption DEF JurpleAssumption, JurpleInv, Receive
  <1>1. /\ m \in Chunk /\ Tail(stream) \in Seq(Chunk)
        /\ m.length \in 1 .. BUFSIZE /\ m.byte \in Nat \ {0}
    <2>1. m \in Chunk /\ Tail(stream) \in Seq(Chunk)
      BY <1>0, HeadTailProperties
    <2> QED  BY <2>1 DEF Chunk
  <1>2. /\ relayBuf' = ClearedAfter(b) /\ lengths' = Append(lengths, m.length)
        /\ received' = received \o Times(m.length, m.byte)
        /\ stream' = Tail(stream) /\ sent' = sent
        /\ \E out \in Strings(b) : printed' = printed \o out
    BY DEF Receive
  <1>3. /\ b \in [1 .. BUFSIZE -> Nat]
        /\ \A k \in 1 .. BUFSIZE : b[k] = IF k <= m.length THEN m.byte ELSE relayBuf[k]
    BY <1>0, <1>1
  <1> HIDE DEF m, b
  <1>4. /\ relayBuf' \in [1 .. BUFSIZE -> Nat]
        /\ \A k \in 1 .. BUFSIZE : relayBuf'[k] = IF k <= Cleared THEN 0 ELSE b[k]
    BY <1>2, <1>3 DEF ClearedAfter
  <1>5. /\ lengths' \in Seq(1 .. BUFSIZE) /\ n \in Nat
        /\ DOMAIN lengths = 1 .. n /\ DOMAIN lengths' = 1 .. n + 1
        /\ \A i \in 1 .. n : lengths'[i] = lengths[i]
        /\ lengths'[n + 1] = m.length
        /\ \A i \in 1 .. n : lengths[i] \in 1 .. BUFSIZE
    <2>1. /\ lengths' \in Seq(1 .. BUFSIZE) /\ Len(lengths') = n + 1 /\ n \in Nat
          /\ \A i \in 1 .. n : lengths'[i] = lengths[i]
          /\ lengths'[n + 1] = m.length
      BY <1>0, <1>1, <1>2, AppendProperties, LenProperties
    <2> QED  BY <1>0, <2>1, LenProperties, ElementOfSeq
  <1> HIDE DEF n
  <1>6. BufferIsKnown'
    <2> SUFFICES ASSUME NEW k \in 1 .. BUFSIZE, relayBuf'[k] # 0
                 PROVE  k > Cleared /\ \E j \in 1 .. n + 1 : k <= lengths'[j]
      BY <1>5 DEF BufferIsKnown
    <2>1. k > Cleared /\ b[k] # 0
      BY <1>0, <1>4
    <2>2. CASE k <= m.length
      BY <1>5, <2>1, <2>2
    <2>3. CASE ~(k <= m.length)
      <3>1. relayBuf[k] # 0
        BY <1>3, <2>1, <2>3
      <3>2. PICK j \in 1 .. n : k <= lengths[j]
        BY <1>5, <3>1 DEF JurpleInv, BufferIsKnown
      <3>3. j \in 1 .. n + 1 /\ lengths'[j] = lengths[j]
        BY <1>5
      <3> QED  BY <2>1, <3>2, <3>3
    <2> QED  BY <2>2, <2>3
  <1>7. ASSUME AllHarmless' PROVE printed' = received'
    \* The messages before were harmless as well.
    <2>1. AllHarmless
      <3> SUFFICES ASSUME NEW i \in 1 .. n PROVE Harmless(i)
        BY <1>5 DEF AllHarmless
      <3>1. i \in DOMAIN lengths' /\ lengths'[i] = lengths[i]
        BY <1>5
      <3>2. \A j \in 1 .. i - 1 : lengths'[j] = lengths[j]
        BY <1>5
      <3>3. Harmless(i)'
        BY <1>7, <3>1 DEF AllHarmless
      <3> QED  BY <3>1, <3>2, <3>3 DEF Harmless
    <2>2. /\ m.length < BUFSIZE
          /\ m.length < Cleared \/ \A j \in 1 .. n : lengths[j] <= m.length
      <3>1. n + 1 \in DOMAIN lengths' /\ (n + 1) - 1 = n
        BY <1>5
      <3>2. lengths'[n + 1] < BUFSIZE
            /\ (lengths'[n + 1] < Cleared \/ \A j \in 1 .. n : lengths'[j] <= lengths'[n + 1])
        BY <1>7, <3>1 DEF AllHarmless, Harmless
      <3> QED  BY <1>5, <3>2
    \* So a 0 follows this one in the buffer.
    <2>3. m.length + 1 \in 1 .. BUFSIZE /\ relayBuf[m.length + 1] = 0
      <3>1. m.length + 1 \in 1 .. BUFSIZE
        BY <1>0, <1>1, <2>2
      <3>2. CASE m.length < Cleared
        <4>1. ~(m.length + 1 > Cleared)
          BY <1>0, <1>1, <3>2
        <4> QED  BY <3>1, <4>1 DEF JurpleInv, BufferIsKnown
      <3>3. CASE \A j \in 1 .. n : lengths[j] <= m.length
        <4>1. \A j \in 1 .. n : ~(m.length + 1 <= lengths[j])
          BY <1>1, <1>5, <3>3
        <4> QED  BY <1>5, <3>1, <4>1 DEF JurpleInv, BufferIsKnown
      <3> QED  BY <2>2, <3>1, <3>2, <3>3
    <2>4. /\ m.length \in 1 .. BUFSIZE - 1
          /\ \A k \in 1 .. m.length : b[k] = m.byte
          /\ b[m.length + 1] = 0
      <3>1. m.length \in 1 .. BUFSIZE - 1
        BY <1>0, <1>1, <2>2
      <3>2. \A k \in 1 .. m.length : b[k] = m.byte
        BY <1>0, <1>1, <1>3
      <3>3. b[m.length + 1] = 0
        <4>1. m.length \in Nat
          BY <1>0, <1>1
        <4>2. ~(m.length + 1 <= m.length)
          BY <4>1
        <4>3. b[m.length + 1] = IF m.length + 1 <= m.length THEN m.byte ELSE relayBuf[m.length + 1]
          BY <1>3, <2>3
        <4> QED  BY <2>3, <4>2, <4>3
      <3> QED  BY <3>1, <3>2, <3>3
    <2>5. Strings(b) = {Times(m.length, m.byte)}
      BY <1>1, <1>3, <2>4, OneString
    <2>6. printed = received
      BY <2>1 DEF JurpleInv
    <2>7. printed' = printed \o Times(m.length, m.byte)
      BY <1>2, <2>5
    <2> QED  BY <1>2, <2>6, <2>7
  <1> QED  BY <1>0, <1>1, <1>2, <1>4, <1>5, <1>6, <1>7 DEF JurpleInv

LEMMA JurpleStepKnown == JurpleInv /\ [JurpleNext]_jurpleVars => JurpleInv'
  <1> SUFFICES ASSUME JurpleInv, [JurpleNext]_jurpleVars PROVE JurpleInv'
    OBVIOUS
  <1>0. BUFSIZE \in Nat \ {0} /\ sent \in Nat /\ stream \in Seq(Chunk)
    BY JurpleAssumption DEF JurpleAssumption, JurpleInv
  <1>1. CASE Receive
    BY <1>1, ReceiveKnown
  \* Another device: all is forgotten, and the buffer is new.
  <1>2. CASE Connect
    <2>1. /\ relayBuf' = Zeros /\ stream' = <<>> /\ received' = <<>> /\ lengths' = <<>>
          /\ printed' = <<>> /\ sent' = sent
      BY <1>2 DEF Connect
    <2>2. /\ Zeros \in [1 .. BUFSIZE -> Nat] /\ \A k \in 1 .. BUFSIZE : Zeros[k] = 0
          /\ <<>> \in Seq(Chunk) /\ <<>> \in Seq(1 .. BUFSIZE)
      BY EmptySeq DEF Zeros
    <2> QED  BY <1>0, <2>1, <2>2 DEF JurpleInv, BufferIsKnown
  <1>3. CASE Send
    <2>1. PICK n \in 1 .. BUFSIZE : stream' = Append(stream, [byte |-> sent', length |-> n])
      BY <1>3 DEF Send
    <2>2. sent' = sent + 1 /\ UNCHANGED bufVars
      BY <1>3 DEF Send
    <2>3. sent' \in Nat \ {0}
      BY <1>0, <2>2
    <2>4. [byte |-> sent', length |-> n] \in Chunk
      BY <2>3 DEF Chunk
    <2>5. stream' \in Seq(Chunk)
      BY <1>0, <2>1, <2>4, AppendProperties
    <2> QED  BY <2>2, <2>3, <2>5 DEF bufVars, JurpleInv, BufferIsKnown, AllHarmless, Harmless
  <1>4. CASE \/ CallbackOther \/ ConnectFails \/ ReceiveEnd \/ UNCHANGED jurpleVars
             \/ \E d \in Devices : Attach(d) \/ Detach(d)
    <2>1. UNCHANGED <<stream, sent, bufVars>>
      BY <1>4 DEF CallbackOther, ConnectFails, ReceiveEnd, jurpleVars, Attach, Detach, Moves
    <2> QED  BY <2>1 DEF bufVars, JurpleInv, BufferIsKnown, AllHarmless, Harmless
  <1> QED  BY <1>1, <1>2, <1>3, <1>4 DEF JurpleNext, JurpleStep

\* What is printed is what was received, byte for byte, although only a part of
\* the buffer is cleared, if each message is shorter than that part or no shorter
\* than those before it.
THEOREM RelaysExactly == JurpleSpec => []RelayIsExact
  <1>1. JurpleInit => JurpleInv
    <2> SUFFICES ASSUME JurpleInit PROVE JurpleInv
      OBVIOUS
    <2>1. /\ Zeros \in [1 .. BUFSIZE -> Nat] /\ \A k \in 1 .. BUFSIZE : Zeros[k] = 0
          /\ <<>> \in Seq(Chunk) /\ <<>> \in Seq(1 .. BUFSIZE)
      BY EmptySeq DEF Zeros
    <2> QED  BY <2>1 DEF JurpleInit, JurpleInv, BufferIsKnown
  <1>2. JurpleInv => RelayIsExact
    BY DEF JurpleInv, AllHarmless, RelayIsExact
  <1> QED  BY <1>1, <1>2, JurpleStepKnown, PTL DEF JurpleSpec

-----------------------------------------------------------------------------
(* netbottom                                                               *)

NetSpec == NetInit /\ [][NetNext]_netVars

Block ==
    [block : {"callback"}, source : Sources]
        \cup [block : {"description"}, source : Sources, state : TcpStates]
Slot == [pid : Nat, provider : {"TCP", "UDP"}, family : {4, 6}, tcpState : TcpStates \cup {""}]
Printed(s) == \E i \in DOMAIN lines : lines[i].source = s

\* At most one block is waiting for a source, and none once its line is printed.
OneBlockEach ==
    /\ \A i, j \in DOMAIN mainQueue : mainQueue[i].source = mainQueue[j].source => i = j
    /\ \A i \in DOMAIN mainQueue :
         mainQueue[i].source \in reported /\ ~Printed(mainQueue[i].source)
    /\ \A s \in Sources : Printed(s) => s \in reported

OneLineEach == \A i, j \in DOMAIN lines : lines[i].source = lines[j].source => i = j

LinesTypeOK ==
    lines \in Seq([source : Sources, was : TcpStates,
                   line : [pid : Nat, provider : {"TCP", "UDP"}, family : {4, 6},
                           state : TcpStates \cup {""}, color : TcpStates \cup {""}]])

NetInv ==
    /\ state \in [Sources -> TcpStates \cup {"gone"}] /\ moves \in 0 .. MaxMoves
    /\ reported \subseteq Sources
    /\ mainQueue \in Seq(Block) /\ pidNetworkInfos \in Seq(Slot) /\ LinesTypeOK
    /\ OneBlockEach /\ OneLineEach /\ LinesAreExact

\* The queue after a block is called, and with one more.
LEMMA Queue ==
    ASSUME NEW S, NEW q \in Seq(S)
    PROVE  /\ DOMAIN q = 1 .. Len(q) /\ Len(q) \in Nat
           /\ \A i \in 1 .. Len(q) : q[i] \in S
           /\ \A e \in S : /\ Append(q, e) \in Seq(S)
                           /\ DOMAIN Append(q, e) = 1 .. Len(q) + 1
                           /\ \A i \in 1 .. Len(q) : Append(q, e)[i] = q[i]
                           /\ Append(q, e)[Len(q) + 1] = e
           /\ q # <<>> => /\ 1 \in DOMAIN q /\ Head(q) = q[1] /\ Tail(q) \in Seq(S)
                          /\ DOMAIN Tail(q) = 1 .. Len(q) - 1
                          /\ \A i \in 1 .. Len(q) - 1 : Tail(q)[i] = q[i + 1]
  <1>1. DOMAIN q = 1 .. Len(q) /\ Len(q) \in Nat
    BY LenProperties
  <1>2. \A i \in 1 .. Len(q) : q[i] \in S
    BY ElementOfSeq
  <1>3. ASSUME NEW e \in S
        PROVE  /\ Append(q, e) \in Seq(S)
               /\ DOMAIN Append(q, e) = 1 .. Len(q) + 1
               /\ \A i \in 1 .. Len(q) : Append(q, e)[i] = q[i]
               /\ Append(q, e)[Len(q) + 1] = e
    <2>1. /\ Append(q, e) \in Seq(S) /\ Len(Append(q, e)) = Len(q) + 1
          /\ \A i \in 1 .. Len(q) : Append(q, e)[i] = q[i]
          /\ Append(q, e)[Len(q) + 1] = e
      BY AppendProperties
    <2> QED  BY <2>1, LenProperties
  <1>4. ASSUME q # <<>>
        PROVE  /\ 1 \in DOMAIN q /\ Head(q) = q[1] /\ Tail(q) \in Seq(S)
               /\ DOMAIN Tail(q) = 1 .. Len(q) - 1
               /\ \A i \in 1 .. Len(q) - 1 : Tail(q)[i] = q[i + 1]
    <2>1. /\ Head(q) = q[1] /\ Tail(q) \in Seq(S) /\ Len(Tail(q)) = Len(q) - 1
          /\ \A i \in 1 .. Len(q) - 1 : Tail(q)[i] = q[i + 1]
      BY <1>4, HeadTailProperties
    <2>2. Len(q) # 0
      BY <1>4, EmptySeq
    <2> QED  BY <1>1, <2>1, <2>2, LenProperties
  <1> QED  BY <1>1, <1>2, <1>3, <1>4

LEMMA BlockFields ==
    ASSUME NEW b \in Block
    PROVE  /\ b.source \in Sources
           /\ b.block = "description" => b.state \in TcpStates
  BY DEF Block

\* A block is put behind the others: it is of a source that has no other.
LEMMA OneMoreBlock ==
    ASSUME NEW q \in Seq(Block), NEW b \in Block,
           \A i, j \in DOMAIN q : q[i].source = q[j].source => i = j,
           \A i \in DOMAIN q : q[i].source # b.source
    PROVE  LET r == Append(q, b) IN
           /\ \A i, j \in DOMAIN r : r[i].source = r[j].source => i = j
           /\ \A i \in DOMAIN r : r[i] = b \/ \E j \in DOMAIN q : r[i] = q[j]
  <1> DEFINE r == Append(q, b)
  <1>1. /\ DOMAIN q = 1 .. Len(q) /\ Len(q) \in Nat
        /\ DOMAIN r = 1 .. Len(q) + 1 /\ r[Len(q) + 1] = b
        /\ \A i \in 1 .. Len(q) : r[i] = q[i]
    BY Queue
  <1> HIDE DEF r
  <1>2. \A i \in DOMAIN r : (i = Len(q) + 1 /\ r[i] = b) \/ (i \in DOMAIN q /\ r[i] = q[i])
    BY <1>1
  <1>3. \A i, j \in DOMAIN r : r[i].source = r[j].source => i = j
    BY <1>2
  <1> QED  BY <1>2, <1>3 DEF r

LEMMA RestOfBlocks ==
    ASSUME NEW q \in Seq(Block), q # <<>>,
           \A i, j \in DOMAIN q : q[i].source = q[j].source => i = j
    PROVE  LET r == Tail(q) IN
           /\ r \in Seq(Block) /\ Head(q) \in Block
           /\ \A i, j \in DOMAIN r : r[i].source = r[j].source => i = j
           /\ \A i \in DOMAIN r : /\ r[i].source # Head(q).source
                                  /\ \E j \in DOMAIN q : r[i] = q[j]
  <1> DEFINE r == Tail(q)
  <1>1. /\ DOMAIN q = 1 .. Len(q) /\ Len(q) \in Nat /\ 1 \in DOMAIN q /\ Head(q) = q[1]
        /\ r \in Seq(Block) /\ DOMAIN r = 1 .. Len(q) - 1 /\ Head(q) \in Block
        /\ \A i \in 1 .. Len(q) - 1 : r[i] = q[i + 1]
    BY Queue
  <1> HIDE DEF r
  <1>2. \A i \in DOMAIN r : i + 1 \in DOMAIN q /\ i + 1 # 1 /\ r[i] = q[i + 1]
    BY <1>1
  <1>3. \A i, j \in DOMAIN r : i + 1 = j + 1 => i = j
    BY <1>1
  <1>4. \A i, j \in DOMAIN r : r[i].source = r[j].source => i = j
    BY <1>2, <1>3
  <1>5. \A i \in DOMAIN r : r[i].source # Head(q).source /\ \E j \in DOMAIN q : r[i] = q[j]
    BY <1>1, <1>2
  <1> QED  BY <1>1, <1>4, <1>5 DEF r

\* A block is called for a source: what it says is put on the line.
LEMMA CallbackKeeps ==
    ASSUME NetInv, callback_block
    PROVE  NetInv'
  <1> DEFINE s == Head(mainQueue).source
             rest == Tail(mainQueue)
  <1>1. mainQueue # <<>> /\ mainQueue \in Seq(Block)
    BY DEF callback_block, Called, NetInv
  <1>2. /\ rest \in Seq(Block) /\ Head(mainQueue) \in Block
        /\ \A i, j \in DOMAIN rest : rest[i].source = rest[j].source => i = j
        /\ \A i \in DOMAIN rest : /\ rest[i].source # s
                                  /\ \E j \in DOMAIN mainQueue : rest[i] = mainQueue[j]
    BY <1>1, RestOfBlocks DEF NetInv, OneBlockEach
  <1>3. s \in Sources /\ s \in reported /\ ~Printed(s)
    BY <1>1, <1>2, Queue, BlockFields DEF NetInv, OneBlockEach
  <1>4. /\ UNCHANGED <<state, moves, reported, pidNetworkInfos, lines>>
        /\ mainQueue' = rest \o (IF state[s] = "gone" THEN <<>>
                                 ELSE <<[block |-> "description", source |-> s, state |-> state[s]]>>)
    BY DEF callback_block
  <1> HIDE DEF s, rest
  <1>5. mainQueue' \in Seq(Block) /\ OneBlockEach'
    <2>1. CASE state[s] = "gone"
      <3>1. mainQueue' = rest
        BY <1>2, <1>4, <2>1, ConcatEmptySeq
      <3> QED  BY <1>2, <1>4, <3>1 DEF NetInv, OneBlockEach, Printed
    <2>2. CASE state[s] # "gone"
      <3> DEFINE b == [block |-> "description", source |-> s, state |-> state[s]]
      <3>1. b \in Block /\ b.source = s
        BY <1>3, <2>2 DEF NetInv, Block
      <3>2. mainQueue' = Append(rest, b)
        <4>1. mainQueue' = rest \o <<b>>
          BY <1>4, <2>2
        <4> HIDE DEF b
        <4> QED  BY <1>2, <3>1, <4>1, AppendIsConcat
      <3> HIDE DEF b
      <3>3. mainQueue' \in Seq(Block)
        BY <1>2, <3>1, <3>2, Queue
      <3>4. /\ \A i, j \in DOMAIN mainQueue' : mainQueue'[i].source = mainQueue'[j].source => i = j
            /\ \A i \in DOMAIN mainQueue' :
                 mainQueue'[i] = b \/ \E j \in DOMAIN rest : mainQueue'[i] = rest[j]
        BY <1>2, <3>1, <3>2, OneMoreBlock
      <3>5. \A i \in DOMAIN mainQueue' :
              mainQueue'[i].source \in reported /\ ~Printed(mainQueue'[i].source)
        BY <1>2, <1>3, <3>1, <3>4 DEF NetInv, OneBlockEach
      <3> QED  BY <1>4, <3>3, <3>4, <3>5 DEF NetInv, OneBlockEach, Printed
    <2> QED  BY <2>1, <2>2
  <1> QED  BY <1>4, <1>5 DEF NetInv, LinesTypeOK, OneLineEach, LinesAreExact

\* The first slot of a process is one of its slots, or the one after the last.
LEMMA SlotFound ==
    ASSUME NEW pid, pidNetworkInfos \in Seq(Slot)
    PROVE  \/ findSlotForPid(pid) \in 1 .. Len(pidNetworkInfos)
           \/ findSlotForPid(pid) = Len(pidNetworkInfos) + 1
  <1> DEFINE T == SlotsOf(pid)
  <1>1. DOMAIN pidNetworkInfos = 1 .. Len(pidNetworkInfos) /\ Len(pidNetworkInfos) \in Nat
    BY Queue
  <1>2. T \subseteq 1 .. Len(pidNetworkInfos)
    BY <1>1 DEF SlotsOf
  <1>3. CASE T = {}
    BY <1>3 DEF findSlotForPid
  <1>4. CASE T # {}
    <2>1. \E k \in T : \A j \in T : k <= j
      <3>1. T \subseteq Nat
        BY <1>1, <1>2
      <3> QED  BY <1>4, <3>1, LeastElement
    <2>2. findSlotForPid(pid) = CHOOSE k \in T : \A j \in T : k <= j
      BY <1>4 DEF findSlotForPid
    <2> HIDE DEF T
    <2>3. findSlotForPid(pid) \in T
      BY <2>1, <2>2
    <2> QED  BY <1>2, <2>3
  <1> QED  BY <1>3, <1>4

\* A description fills a slot with what its line says.
LEMMA DescriptionKeeps ==
    ASSUME NetInv, description_callback_block
    PROVE  NetInv'
  <1> DEFINE d == Head(mainQueue)
             its == Socket[d.source]
             k == findSlotForPid(its.pid)
             old == IF k \in DOMAIN pidNetworkInfos THEN pidNetworkInfos[k] ELSE Blank
             slot == Filled(old, its, d.state)
             l == [source |-> d.source, was |-> d.state, line |-> Line(slot)]
             N == Len(pidNetworkInfos)
             rest == Tail(mainQueue)
             Lines == [source : Sources, was : TcpStates,
                       line : [pid : Nat, provider : {"TCP", "UDP"}, family : {4, 6},
                               state : TcpStates \cup {""}, color : TcpStates \cup {""}]]
  <1>1. /\ mainQueue # <<>> /\ mainQueue \in Seq(Block) /\ d.block = "description"
        /\ pidNetworkInfos \in Seq(Slot) /\ lines \in Seq(Lines)
    BY DEF description_callback_block, Called, NetInv, LinesTypeOK
  <1>2. /\ pidNetworkInfos' = [j \in DOMAIN pidNetworkInfos \cup {k} |->
                                 IF j = k THEN slot ELSE pidNetworkInfos[j]]
        /\ lines' = Append(lines, l)
        /\ mainQueue' = rest
        /\ UNCHANGED <<state, moves, reported>>
    BY DEF description_callback_block
  <1>3. /\ rest \in Seq(Block) /\ d \in Block
        /\ \A i, j \in DOMAIN rest : rest[i].source = rest[j].source => i = j
        /\ \A i \in DOMAIN rest : /\ rest[i].source # d.source
                                  /\ \E j \in DOMAIN mainQueue : rest[i] = mainQueue[j]
    BY <1>1, RestOfBlocks DEF NetInv, OneBlockEach
  <1>4. d.source \in Sources /\ d.source \in reported /\ ~Printed(d.source) /\ d.state \in TcpStates
    <2>1. 1 \in DOMAIN mainQueue /\ d = mainQueue[1]
      BY <1>1, Queue
    <2>2. d.source \in Sources /\ d.state \in TcpStates
      BY <1>1, <1>3, BlockFields
    <2> HIDE DEF d
    <2> QED  BY <2>1, <2>2 DEF NetInv, OneBlockEach
  <1>5. its \in [pid : Nat, provider : {"TCP", "UDP"}, family : {4, 6}]
    BY <1>4, NetbottomAssumption DEF NetbottomAssumption
  <1>6. /\ DOMAIN pidNetworkInfos = 1 .. N /\ N \in Nat
        /\ \A i \in 1 .. N : pidNetworkInfos[i] \in Slot
    BY <1>1, Queue
  <1>7. k \in 1 .. N \/ k = N + 1
    BY <1>1, SlotFound
  <1>8. old.tcpState \in TcpStates \cup {""}
    BY <1>6 DEF Slot, Blank
  <1> HIDE DEF d, its, k, old, N, rest, Lines
  <1>9. /\ slot \in Slot
        /\ slot.pid = its.pid /\ slot.provider = its.provider /\ slot.family = its.family
        /\ slot.tcpState = IF its.provider = "TCP" THEN d.state ELSE old.tcpState
    BY <1>4, <1>5, <1>8 DEF Filled, Slot
  <1> HIDE DEF slot
  <1>10. /\ l \in Lines /\ l.source = d.source /\ l.was = d.state
         /\ <<l.line.pid, l.line.provider, l.line.family>> = <<its.pid, its.provider, its.family>>
         /\ l.line.state = IF its.provider = "TCP" THEN d.state ELSE ""
    BY <1>4, <1>9 DEF Line, StateColumn, Slot, Lines
  <1> HIDE DEF l
  <1>11. pidNetworkInfos' \in Seq(Slot)
    <2>1. DOMAIN pidNetworkInfos \cup {k} = 1 .. (IF k = N + 1 THEN N + 1 ELSE N)
      BY <1>6, <1>7
    <2>2. \E n \in Nat : pidNetworkInfos' \in [1 .. n -> Slot]
      BY <1>2, <1>6, <1>9, <2>1
    <2> QED  BY <2>2, SeqDef
  <1>12. /\ lines' \in Seq(Lines) /\ DOMAIN lines = 1 .. Len(lines) /\ Len(lines) \in Nat
         /\ DOMAIN lines' = 1 .. Len(lines) + 1 /\ lines'[Len(lines) + 1] = l
         /\ \A i \in 1 .. Len(lines) : lines'[i] = lines[i]
    <2>1. lines \in Seq(Lines) /\ l \in Lines /\ lines' = Append(lines, l)
      BY <1>1, <1>2, <1>10
    <2>2. /\ DOMAIN lines = 1 .. Len(lines) /\ Len(lines) \in Nat
          /\ Append(lines, l) \in Seq(Lines)
          /\ DOMAIN Append(lines, l) = 1 .. Len(lines) + 1
          /\ Append(lines, l)[Len(lines) + 1] = l
          /\ \A i \in 1 .. Len(lines) : Append(lines, l)[i] = lines[i]
      BY <2>1, Queue
    <2> QED  BY <2>1, <2>2
  <1>13. /\ Len(lines) + 1 \in DOMAIN lines' /\ DOMAIN lines \subseteq DOMAIN lines'
         /\ \A i \in DOMAIN lines' : (i = Len(lines) + 1 /\ lines'[i] = l)
                                       \/ (i \in DOMAIN lines /\ lines'[i] = lines[i])
         /\ \A i \in DOMAIN lines : lines'[i] = lines[i]
    BY <1>12
  <1>14. \A s : Printed(s)' => Printed(s) \/ s = d.source
    <2> SUFFICES ASSUME NEW s, NEW i \in DOMAIN lines', lines'[i].source = s
                 PROVE  Printed(s) \/ s = d.source
      BY DEF Printed
    <2>1. CASE lines'[i] = l
      BY <1>10, <2>1
    <2>2. CASE i \in DOMAIN lines /\ lines'[i] = lines[i]
      BY <2>2 DEF Printed
    <2> QED  BY <1>13, <2>1, <2>2
  <1>15. OneBlockEach'
    <2>1. ASSUME NEW i \in DOMAIN rest, NEW j \in DOMAIN lines'
          PROVE  rest[i].source \in reported /\ lines'[j].source # rest[i].source
      <3>1. rest[i].source # d.source /\ rest[i].source \in reported /\ ~Printed(rest[i].source)
        BY <1>3 DEF NetInv, OneBlockEach
      <3>2. CASE lines'[j] = l
        BY <1>10, <3>1, <3>2
      <3>3. CASE j \in DOMAIN lines /\ lines'[j] = lines[j]
        BY <3>1, <3>3 DEF Printed
      <3> QED  BY <1>13, <3>1, <3>2, <3>3
    <2>2. \A i \in DOMAIN mainQueue' :
            mainQueue'[i].source \in reported' /\ ~Printed(mainQueue[i].source)'
      BY <1>2, <1>13, <2>1 DEF Printed
    <2>3. \A s \in Sources : Printed(s)' => s \in reported'
      BY <1>2, <1>4, <1>14 DEF NetInv, OneBlockEach
    <2> QED  BY <1>2, <1>3, <2>2, <2>3 DEF OneBlockEach
  <1>16. OneLineEach'
    <2> SUFFICES ASSUME NEW i \in DOMAIN lines', NEW j \in DOMAIN lines',
                        lines'[i].source = lines'[j].source
                 PROVE  i = j
      BY DEF OneLineEach
    <2>1. \A m \in DOMAIN lines : lines[m].source # l.source
      BY <1>4, <1>10 DEF Printed
    <2>2. CASE i \in DOMAIN lines /\ lines'[i] = lines[i] /\ j \in DOMAIN lines /\ lines'[j] = lines[j]
      BY <2>2 DEF NetInv, OneLineEach
    <2> QED  BY <1>13, <2>1, <2>2
  <1>17. LinesAreExact'
    <2> SUFFICES ASSUME NEW i \in DOMAIN lines'
                 PROVE  LET n == lines'[i].line
                            so == Socket[lines'[i].source]
                        IN  /\ <<n.pid, n.provider, n.family>> = <<so.pid, so.provider, so.family>>
                            /\ n.state = IF so.provider = "TCP" THEN lines'[i].was ELSE ""
      BY DEF LinesAreExact
    <2>1. CASE i \in DOMAIN lines /\ lines'[i] = lines[i]
      BY <2>1 DEF NetInv, LinesAreExact
    <2>2. CASE lines'[i] = l
      BY <1>10, <2>2 DEF its
    <2> QED  BY <1>13, <2>1, <2>2
  <1> QED  BY <1>2, <1>3, <1>11, <1>12, <1>15, <1>16, <1>17 DEF NetInv, LinesTypeOK, Lines

\* A source is reported once: no block of it was there before.
LEMMA ReportKeeps ==
    ASSUME NetInv, NEW s \in Sources, Report(s)
    PROVE  NetInv'
  <1> DEFINE b == [block |-> "callback", source |-> s]
  <1>1. /\ reported' = reported \cup {s} /\ s \notin reported
        /\ UNCHANGED <<state, moves, pidNetworkInfos, lines>>
        /\ mainQueue' = Append(mainQueue, b) /\ mainQueue \in Seq(Block)
    BY DEF Report, NetInv
  <1>2. b \in Block /\ b.source = s
    BY DEF Block
  <1> HIDE DEF b
  <1>3. /\ \A i, j \in DOMAIN mainQueue' : mainQueue'[i].source = mainQueue'[j].source => i = j
        /\ \A i \in DOMAIN mainQueue' :
             mainQueue'[i] = b \/ \E j \in DOMAIN mainQueue : mainQueue'[i] = mainQueue[j]
    BY <1>1, <1>2, OneMoreBlock DEF NetInv, OneBlockEach
  <1>4. mainQueue' \in Seq(Block)
    BY <1>1, <1>2, Queue
  <1>5. OneBlockEach'
    BY <1>1, <1>2, <1>3 DEF NetInv, OneBlockEach, Printed
  <1> QED  BY <1>1, <1>4, <1>5 DEF NetInv, LinesTypeOK, OneLineEach, LinesAreExact

LEMMA NetStepKeeps == NetInv /\ [NetNext]_netVars => NetInv'
  <1> SUFFICES ASSUME NetInv, [NetNext]_netVars PROVE NetInv'
    OBVIOUS
  <1>1. CASE callback_block
    BY <1>1, CallbackKeeps
  <1>2. CASE description_callback_block
    BY <1>2, DescriptionKeeps
  <1>3. CASE Framework
    BY <1>3, ReportKeeps DEF Framework
  <1>4. ASSUME NEW s \in Sources, Move(s) PROVE NetInv'
    <2>1. moves' \in 0 .. MaxMoves /\ state' \in [Sources -> TcpStates \cup {"gone"}]
      BY <1>4, NetbottomAssumption DEF Move, NetInv, NetbottomAssumption
    <2>2. UNCHANGED <<reported, mainQueue, pidNetworkInfos, lines>>
      BY <1>4 DEF Move
    <2> QED  BY <2>1, <2>2 DEF NetInv, OneBlockEach, Printed, LinesTypeOK, OneLineEach, LinesAreExact
  <1>5. CASE UNCHANGED netVars
    BY <1>5 DEF netVars, NetInv, OneBlockEach, Printed, LinesTypeOK, OneLineEach, LinesAreExact
  <1> QED  BY <1>1, <1>2, <1>3, <1>4, <1>5 DEF NetNext, NetStep

LEMMA NetInvariant == NetSpec => []NetInv
  <1>1. NetInit => NetInv
    <2> SUFFICES ASSUME NetInit PROVE NetInv
      OBVIOUS
    <2>1. \A S : <<>> \in Seq(S)
      BY EmptySeq
    <2> QED  BY <2>1, NetbottomAssumption DEF NetInit, NetInv, OneBlockEach, Printed, LinesTypeOK,
                 OneLineEach, LinesAreExact, NetbottomAssumption
  <1> QED  BY <1>1, NetStepKeeps, PTL DEF NetSpec

\* Every line is that of its source in the state it was described in: the slot of
\* the process, which other sources of it share, was filled just before.
THEOREM NetLinesAreExact == NetSpec => []LinesAreExact
  <1>1. NetInv => LinesAreExact
    BY DEF NetInv
  <1> QED  BY <1>1, NetInvariant, PTL

\* No source is printed twice, the half of SourcesArePrinted that is a safety
\* property: it has one block at a time, and none after its line.
THEOREM PrintedOnce == NetSpec => []OneLineEach
  <1>1. NetInv => OneLineEach
    BY DEF NetInv
  <1> QED  BY <1>1, NetInvariant, PTL

-----------------------------------------------------------------------------
(* The bpf example: where the packets begin in a buffer                    *)

LEMMA Caps ==
    ASSUME NEW f \in Frame
    PROVE  CapLen(f) \in Nat
  BY BpfAssumption DEF BpfAssumption, Frame, CapLen, HdrLen

\* What is left out to the next header is less than a word.
LEMMA Aligned ==
    ASSUME NEW n \in Nat
    PROVE  BPF_WORDALIGN(n) \in Nat /\ n <= BPF_WORDALIGN(n)
  BY DEF BPF_WORDALIGN

Room(f) == BPF_WORDALIGN(HdrLen + CapLen(f))

LEMMA Rooms ==
    ASSUME NEW f \in Frame
    PROVE  /\ Room(f) \in Nat /\ CapLen(f) \in Nat
           /\ HdrLen + CapLen(f) <= Room(f) /\ 0 < HdrLen + CapLen(f)
  BY Caps, Aligned DEF Room, HdrLen

LEMMA OffsetsStep ==
    ASSUME NEW packets \in Seq(Frame)
    PROVE  /\ OffsetsIn(packets) \in [1 .. Len(packets) -> Nat]
           /\ \A i \in 1 .. Len(packets) :
                OffsetsIn(packets)[i] =
                  IF i = 1 THEN 0 ELSE OffsetsIn(packets)[i - 1] + Room(packets[i - 1])
  <1> DEFINE n == Len(packets)
             P(h) == h = [i \in 1 .. n |-> IF i = 1 THEN 0 ELSE h[i - 1] + Room(packets[i - 1])]
             G == [i \in 1 .. n |-> [b \in Nat |-> IF i = 1 THEN 0 ELSE b + Room(packets[i - 1])]]
  <1>1. n \in Nat /\ \A i \in 1 .. n : packets[i] \in Frame
    BY LenProperties, ElementOfSeq
  <1>2. \A i \in 1 .. n : i # 1 => i - 1 \in 1 .. n /\ Room(packets[i - 1]) \in Nat
    BY <1>1, Rooms
  <1>3. G \in [1 .. n -> [Nat -> Nat]]
    BY <1>2
  <1>4. PICK h \in [1 .. n -> Nat] :
          \A i \in 1 .. n : h[i] = IF i = 1 THEN 0 ELSE G[i][h[i - 1]]
    <2> HIDE DEF G, n
    <2>1. 0 \in Nat /\ n \in Nat /\ G \in StepsOf(Nat, n)
      BY <1>1, <1>3 DEF StepsOf
    <2>2. PICK h \in [1 .. n -> Nat] : StepsFrom(h, 0, G, n)
      BY <2>1, Stepwise
    <2> QED  BY <2>2 DEF StepsFrom
  <1>5. P(h)
    <2>1. \A i \in 1 .. n : h[i] = IF i = 1 THEN 0 ELSE h[i - 1] + Room(packets[i - 1])
      <3> SUFFICES ASSUME NEW i \in 1 .. n
                   PROVE  h[i] = IF i = 1 THEN 0 ELSE h[i - 1] + Room(packets[i - 1])
        OBVIOUS
      <3>1. CASE i = 1
        BY <1>4, <3>1
      <3>2. CASE i # 1
        <4>1. h[i] = G[i][h[i - 1]] /\ i - 1 \in 1 .. n
          BY <1>2, <1>4, <3>2
        <4>2. h[i - 1] \in Nat
          BY <4>1
        <4> QED  BY <3>2, <4>1, <4>2
      <3> QED  BY <3>1, <3>2
    <2>2. h = [i \in 1 .. n |-> h[i]]
      OBVIOUS
    <2> HIDE DEF n
    <2> QED  BY <2>1, <2>2
  <1>6. OffsetsIn(packets) = CHOOSE b : P(b)
    BY DEF OffsetsIn, Room
  <1>7. P(OffsetsIn(packets))
    <2> HIDE DEF P
    <2> QED  BY <1>5, <1>6
  <1> DEFINE b == OffsetsIn(packets)
  <1>8. DOMAIN b = 1 .. n
        /\ \A i \in 1 .. n : b[i] = IF i = 1 THEN 0 ELSE b[i - 1] + Room(packets[i - 1])
    <2> HIDE DEF b, n
    <2>1. b = [i \in 1 .. n |-> IF i = 1 THEN 0 ELSE b[i - 1] + Room(packets[i - 1])]
      BY <1>7 DEF b
    <2> QED  BY <2>1
  <1>9. \A i \in 1 .. n : b[i] \in Nat
    <2> DEFINE Bad == {i \in 1 .. n : b[i] \notin Nat}
    <2> HIDE DEF b, n
    <2> SUFFICES ASSUME Bad # {} PROVE FALSE
      OBVIOUS
    <2>1. PICK i \in Bad : \A j \in Bad : i <= j
      <3>1. Bad \subseteq Nat
        OBVIOUS
      <3> HIDE DEF Bad
      <3> QED  BY <3>1, LeastElement
    <2>2. i \in 1 .. n /\ i # 1
      BY <1>8
    <2>3. i - 1 \in 1 .. n /\ ~(i <= i - 1)
      BY <1>1, <2>2
    <2>4. b[i - 1] \in Nat
      BY <2>1, <2>3
    <2> QED  BY <1>2, <1>8, <2>2, <2>3, <2>4
  <1>10. b \in [1 .. n -> Nat]
    <2> HIDE DEF n
    <2>1. b = [i \in 1 .. n |-> b[i]]
      <3>1. P(b)
        BY <1>7
      <3> HIDE DEF b
      <3> QED  BY <3>1
    <2> QED  BY <1>9, <2>1
  <1> QED  BY <1>8, <1>10

\* A packet begins behind those before it.
LEMMA OffsetsGrow ==
    ASSUME NEW packets \in Seq(Frame), NEW i \in 1 .. Len(packets), NEW j \in 1 .. Len(packets), i < j
    PROVE  OffsetsIn(packets)[i] < OffsetsIn(packets)[j]
  <1> DEFINE b == OffsetsIn(packets)
             n == Len(packets)
             Bad == {k \in 1 .. n : i < k /\ ~(b[i] < b[k])}
  <1>1. n \in Nat /\ \A k \in 1 .. n : packets[k] \in Frame
    BY LenProperties, ElementOfSeq
  <1>2. /\ \A k \in 1 .. n : b[k] \in Nat
        /\ \A k \in 1 .. n : k # 1 => b[k] = b[k - 1] + Room(packets[k - 1])
    BY OffsetsStep
  <1>3. \A k \in 1 .. n : Room(packets[k]) \in Nat /\ 0 < Room(packets[k])
    <2> SUFFICES ASSUME NEW k \in 1 .. n PROVE Room(packets[k]) \in Nat /\ 0 < Room(packets[k])
      OBVIOUS
    <2>1. /\ Room(packets[k]) \in Nat /\ CapLen(packets[k]) \in Nat
          /\ HdrLen + CapLen(packets[k]) <= Room(packets[k])
      BY <1>1, Rooms
    <2> QED  BY <2>1 DEF HdrLen
  <1> HIDE DEF b, n
  <1>4. Bad = {}
    <2> SUFFICES ASSUME Bad # {} PROVE FALSE
      OBVIOUS
    <2>1. PICK k \in Bad : \A m \in Bad : k <= m
      <3>1. Bad \subseteq Nat
        OBVIOUS
      <3> HIDE DEF Bad
      <3> QED  BY <3>1, LeastElement
    <2>2. k \in 1 .. n /\ i < k /\ ~(b[i] < b[k]) /\ i \in 1 .. n /\ k # 1
      BY DEF n
    <2>3. k - 1 \in 1 .. n /\ ~(k <= k - 1) /\ (i = k - 1 \/ i < k - 1)
      BY <1>1, <2>2
    <2>4. b[k - 1] < b[k] /\ b[k - 1] \in Nat /\ b[k] \in Nat /\ b[i] \in Nat
      <3>1. b[k] = b[k - 1] + Room(packets[k - 1]) /\ b[k - 1] \in Nat /\ b[i] \in Nat
        BY <1>2, <2>2, <2>3
      <3>2. Room(packets[k - 1]) \in Nat /\ 0 < Room(packets[k - 1])
        BY <1>3, <2>3
      <3> QED  BY <3>1, <3>2
    <2>5. CASE i = k - 1
      BY <2>2, <2>4, <2>5
    <2>6. CASE i < k - 1
      <3>1. k - 1 \notin Bad
        BY <2>1, <2>3
      <3>2. b[i] < b[k - 1]
        BY <2>3, <2>6, <3>1
      <3> QED  BY <2>2, <2>4, <3>2
    <2> QED  BY <2>3, <2>5, <2>6
  <1>5. b[i] < b[j]
    <2>1. j \in 1 .. n
      BY DEF n
    <2> QED  BY <1>4, <2>1
  <1> QED  BY <1>5 DEF b

-----------------------------------------------------------------------------
(* The bpf example: what the program accepts                               *)

Machine == [pc : 0 .. 13, a : Nat, x : Nat, accept : BOOLEAN]

LEMMA Machines ==
    /\ \A pc \in 1 .. 13, a \in Nat, x \in Nat :
         /\ Executing(pc, a, x) \in Machine
         /\ Executing(pc, a, x).pc = pc /\ Executing(pc, a, x).a = a /\ Executing(pc, a, x).x = x
    /\ Accepted \in Machine /\ Accepted.pc = 0 /\ Accepted.accept
    /\ Rejected \in Machine /\ Rejected.pc = 0 /\ ~Rejected.accept
  BY DEF Machine, Executing, Accepted, Rejected

LEMMA InsnsAre ==
    /\ Len(insns) = 13
    /\ insns[1] = Insn("ld", 12, 0, 0) /\ insns[2] = Insn("jeq", 2048, 0, 10)
    /\ insns[3] = Insn("ld", 23, 0, 0) /\ insns[4] = Insn("jeq", Protocol, 0, 8)
    /\ insns[5] = Insn("ld", 20, 0, 0) /\ insns[6] = Insn("jset", 8191, 6, 0)
    /\ insns[7] = Insn("ldx_msh", 14, 0, 0) /\ insns[8] = Insn("ld_ind", 14, 0, 0)
    /\ insns[9] = Insn("jeq", Port, 2, 0) /\ insns[10] = Insn("ld_ind", 16, 0, 0)
    /\ insns[11] = Insn("jeq", Port, 0, 1) /\ insns[12] = Insn("ret", 1, 0, 0)
    /\ insns[13] = Insn("ret", 0, 0, 0)
  BY DEF insns, ETHERTYPE_IP

LEMMA FrameFields ==
    ASSUME NEW f \in Frame
    PROVE  /\ f.ethertype \in Nat /\ f.protocol \in Nat /\ f.fragment \in Nat /\ f.hlen \in Nat
           /\ f.src \in Nat /\ f.dst \in Nat /\ f.option \in Nat /\ f.size \in Nat
           /\ 20 <= f.hlen
  BY DEF Frame

\* The kinds of instructions.
LEMMA ExecRet ==
    ASSUME NEW f, NEW pc, NEW a, NEW x, NEW k, insns[pc] = Insn("ret", k, 0, 0)
    PROVE  Exec(f, Executing(pc, a, x)) = IF k # 0 THEN Accepted ELSE Rejected
  <1> DEFINE m == Executing(pc, a, x)
             i == insns[m.pc]
  <1>1. m.pc = pc /\ m.a = a /\ m.x = x
    BY DEF Executing
  <1>2. i.op = "ret" /\ i.k = k
    BY <1>1 DEF Insn
  <1> HIDE DEF m, i
  <1>3. Exec(f, m) = IF k # 0 THEN Accepted ELSE Rejected
    BY <1>1, <1>2 DEF Exec, i
  <1> QED  BY <1>3 DEF m

LEMMA ExecMsh ==
    ASSUME NEW f, NEW pc, NEW a, NEW x, NEW k, insns[pc] = Insn("ldx_msh", k, 0, 0)
    PROVE  Exec(f, Executing(pc, a, x)) = IF k < f.size THEN Executing(pc + 1, a, f.hlen) ELSE Rejected
  <1> DEFINE m == Executing(pc, a, x)
             i == insns[m.pc]
  <1>1. m.pc = pc /\ m.a = a /\ m.x = x
    BY DEF Executing
  <1>2. i.op = "ldx_msh" /\ i.k = k
    BY <1>1 DEF Insn
  <1> HIDE DEF m, i
  <1>3. Exec(f, m) = IF k < f.size THEN Executing(pc + 1, a, f.hlen) ELSE Rejected
    BY <1>1, <1>2 DEF Exec, i
  <1> QED  BY <1>3 DEF m

LEMMA ExecLd ==
    ASSUME NEW f, NEW pc, NEW a, NEW x, NEW k, insns[pc] = Insn("ld", k, 0, 0)
    PROVE  Exec(f, Executing(pc, a, x)) = IF Within(f, k) THEN Executing(pc + 1, Field(f, k), x) ELSE Rejected
  <1> DEFINE m == Executing(pc, a, x)
             i == insns[m.pc]
  <1>1. m.pc = pc /\ m.a = a /\ m.x = x
    BY DEF Executing
  <1>2. i.op = "ld" /\ i.k = k
    BY <1>1 DEF Insn
  <1> HIDE DEF m, i
  <1>3. Exec(f, m) = IF Within(f, k) THEN Executing(pc + 1, Field(f, k), x) ELSE Rejected
    BY <1>1, <1>2 DEF Exec, i
  <1> QED  BY <1>3 DEF m

LEMMA ExecLdInd ==
    ASSUME NEW f, NEW pc, NEW a, NEW x \in Nat, NEW k \in Nat, insns[pc] = Insn("ld_ind", k, 0, 0)
    PROVE  Exec(f, Executing(pc, a, x)) = IF Within(f, x + k) THEN Executing(pc + 1, Field(f, x + k), x) ELSE Rejected
  <1> DEFINE m == Executing(pc, a, x)
             i == insns[m.pc]
  <1>1. m.pc = pc /\ m.a = a /\ m.x = x
    BY DEF Executing
  <1>2. i.op = "ld_ind" /\ i.k = k
    BY <1>1 DEF Insn
  <1> HIDE DEF m, i
  <1>3. Exec(f, m) = IF Within(f, x + k) THEN Executing(pc + 1, Field(f, x + k), x) ELSE Rejected
    BY <1>1, <1>2 DEF Exec, i
  <1> QED  BY <1>3 DEF m

LEMMA ExecJeq ==
    ASSUME NEW f, NEW pc, NEW a, NEW x, NEW k, NEW jt, NEW jf, insns[pc] = Insn("jeq", k, jt, jf)
    PROVE  Exec(f, Executing(pc, a, x)) = Executing(pc + 1 + (IF a = k THEN jt ELSE jf), a, x)
  <1> DEFINE m == Executing(pc, a, x)
             i == insns[m.pc]
  <1>1. m.pc = pc /\ m.a = a /\ m.x = x
    BY DEF Executing
  <1>2. i.op = "jeq" /\ i.k = k /\ i.jt = jt /\ i.jf = jf
    BY <1>1 DEF Insn
  <1> HIDE DEF m, i
  <1>3. Exec(f, m) = Executing(pc + 1 + (IF a = k THEN jt ELSE jf), a, x)
    BY <1>1, <1>2 DEF Exec, i, Jumps
  <1> QED  BY <1>3 DEF m

LEMMA ExecJset ==
    ASSUME NEW f, NEW pc, NEW a, NEW x, NEW k, NEW jt, NEW jf, insns[pc] = Insn("jset", k, jt, jf)
    PROVE  Exec(f, Executing(pc, a, x)) = Executing(pc + 1 + (IF a % (k + 1) # 0 THEN jt ELSE jf), a, x)
  <1> DEFINE m == Executing(pc, a, x)
             i == insns[m.pc]
  <1>1. m.pc = pc /\ m.a = a /\ m.x = x
    BY DEF Executing
  <1>2. i.op = "jset" /\ i.k = k /\ i.jt = jt /\ i.jf = jf
    BY <1>1 DEF Insn
  <1> HIDE DEF m, i
  <1>3. Exec(f, m) = Executing(pc + 1 + (IF a % (k + 1) # 0 THEN jt ELSE jf), a, x)
    BY <1>1, <1>2 DEF Exec, i, Jumps
  <1> QED  BY <1>3 DEF m

\* What each instruction of the program does to a packet.
LEMMA ExecLoads ==
    ASSUME NEW f \in Frame, NEW a \in Nat, NEW x \in Nat
    PROVE  /\ Exec(f, Executing(1, a, x)) = IF 14 <= f.size THEN Executing(2, f.ethertype, x) ELSE Rejected
           /\ Exec(f, Executing(3, a, x)) = IF 24 <= f.size THEN Executing(4, f.protocol, x) ELSE Rejected
           /\ Exec(f, Executing(5, a, x)) = IF 22 <= f.size THEN Executing(6, f.fragment, x) ELSE Rejected
           /\ Exec(f, Executing(7, a, x)) = IF 14 < f.size THEN Executing(8, a, f.hlen) ELSE Rejected
           /\ Exec(f, Executing(8, a, f.hlen)) =
                IF 16 + f.hlen <= f.size THEN Executing(9, f.src, f.hlen) ELSE Rejected
           /\ Exec(f, Executing(10, a, f.hlen)) =
                IF 18 + f.hlen <= f.size THEN Executing(11, f.dst, f.hlen) ELSE Rejected
  <1>0. f.size \in Nat /\ f.hlen \in Nat /\ 20 <= f.hlen
    BY FrameFields
  <1>1. Exec(f, Executing(1, a, x)) = IF 14 <= f.size THEN Executing(2, f.ethertype, x) ELSE Rejected
    <2>1. Exec(f, Executing(1, a, x)) = IF Within(f, 12) THEN Executing(1 + 1, Field(f, 12), x) ELSE Rejected
      BY InsnsAre, ExecLd
    <2>2. (Within(f, 12) <=> 14 <= f.size) /\ Field(f, 12) = f.ethertype
      BY <1>0 DEF Within, Field
    <2> QED  BY <2>1, <2>2
  <1>2. Exec(f, Executing(3, a, x)) = IF 24 <= f.size THEN Executing(4, f.protocol, x) ELSE Rejected
    <2>1. Exec(f, Executing(3, a, x)) = IF Within(f, 23) THEN Executing(3 + 1, Field(f, 23), x) ELSE Rejected
      BY InsnsAre, ExecLd
    <2>2. (Within(f, 23) <=> 24 <= f.size) /\ Field(f, 23) = f.protocol
      BY <1>0 DEF Within, Field
    <2> QED  BY <2>1, <2>2
  <1>3. Exec(f, Executing(5, a, x)) = IF 22 <= f.size THEN Executing(6, f.fragment, x) ELSE Rejected
    <2>1. Exec(f, Executing(5, a, x)) = IF Within(f, 20) THEN Executing(5 + 1, Field(f, 20), x) ELSE Rejected
      BY InsnsAre, ExecLd
    <2>2. (Within(f, 20) <=> 22 <= f.size) /\ Field(f, 20) = f.fragment
      BY <1>0 DEF Within, Field
    <2> QED  BY <2>1, <2>2
  <1>4. Exec(f, Executing(7, a, x)) = IF 14 < f.size THEN Executing(8, a, f.hlen) ELSE Rejected
    <2>1. Exec(f, Executing(7, a, x)) = IF 14 < f.size THEN Executing(7 + 1, a, f.hlen) ELSE Rejected
      BY InsnsAre, ExecMsh
    <2> QED  BY <2>1
  <1>5. Exec(f, Executing(8, a, f.hlen)) =
          IF 16 + f.hlen <= f.size THEN Executing(9, f.src, f.hlen) ELSE Rejected
    <2>1. \A y \in Nat : Exec(f, Executing(8, a, y)) = IF Within(f, y + 14)
                                        THEN Executing(8 + 1, Field(f, y + 14), y) ELSE Rejected
      BY InsnsAre, ExecLdInd
    <2>2. (Within(f, f.hlen + 14) <=> 16 + f.hlen <= f.size) /\ Field(f, f.hlen + 14) = f.src
      BY <1>0 DEF Within, Field
    <2> QED  BY <1>0, <2>1, <2>2
  <1>6. Exec(f, Executing(10, a, f.hlen)) =
          IF 18 + f.hlen <= f.size THEN Executing(11, f.dst, f.hlen) ELSE Rejected
    <2>1. \A y \in Nat : Exec(f, Executing(10, a, y)) = IF Within(f, y + 16)
                                        THEN Executing(10 + 1, Field(f, y + 16), y) ELSE Rejected
      BY InsnsAre, ExecLdInd
    <2>2. (Within(f, f.hlen + 16) <=> 18 + f.hlen <= f.size) /\ Field(f, f.hlen + 16) = f.dst
      BY <1>0 DEF Within, Field
    <2> QED  BY <1>0, <2>1, <2>2
  <1> QED  BY <1>1, <1>2, <1>3, <1>4, <1>5, <1>6

LEMMA ExecJumps ==
    ASSUME NEW f \in Frame, NEW a \in Nat, NEW x \in Nat
    PROVE  /\ Exec(f, Executing(2, a, x)) = Executing(IF a = 2048 THEN 3 ELSE 13, a, x)
           /\ Exec(f, Executing(4, a, x)) = Executing(IF a = Protocol THEN 5 ELSE 13, a, x)
           /\ Exec(f, Executing(6, a, x)) = Executing(IF a % 8192 # 0 THEN 13 ELSE 7, a, x)
           /\ Exec(f, Executing(9, a, x)) = Executing(IF a = Port THEN 12 ELSE 10, a, x)
           /\ Exec(f, Executing(11, a, x)) = Executing(IF a = Port THEN 12 ELSE 13, a, x)
           /\ Exec(f, Executing(12, a, x)) = Accepted
           /\ Exec(f, Executing(13, a, x)) = Rejected
  <1>1. Exec(f, Executing(2, a, x)) = Executing(2 + 1 + (IF a = 2048 THEN 0 ELSE 10), a, x)
    BY InsnsAre, ExecJeq
  <1>2. Exec(f, Executing(4, a, x)) = Executing(4 + 1 + (IF a = Protocol THEN 0 ELSE 8), a, x)
    BY InsnsAre, ExecJeq
  <1>3. Exec(f, Executing(6, a, x)) = Executing(6 + 1 + (IF a % (8191 + 1) # 0 THEN 6 ELSE 0), a, x)
    BY InsnsAre, ExecJset
  <1>4. Exec(f, Executing(9, a, x)) = Executing(9 + 1 + (IF a = Port THEN 2 ELSE 0), a, x)
    BY InsnsAre, ExecJeq
  <1>5. Exec(f, Executing(11, a, x)) = Executing(11 + 1 + (IF a = Port THEN 0 ELSE 1), a, x)
    BY InsnsAre, ExecJeq
  <1>6. Exec(f, Executing(12, a, x)) = (IF 1 # 0 THEN Accepted ELSE Rejected) /\ Exec(f, Executing(13, a, x)) = (IF 0 # 0 THEN Accepted ELSE Rejected)
    BY InsnsAre, ExecRet
  <1>7. 8191 + 1 = 8192 
    OBVIOUS
  <1> QED  BY <1>1, <1>2, <1>3, <1>4, <1>5, <1>6, <1>7

LEMMA ExecMachine ==
    ASSUME NEW f \in Frame, NEW m \in Machine, m.pc # 0
    PROVE  Exec(f, m) \in Machine
  <1> DEFINE i == insns[m.pc]
  <1>0. /\ m.pc \in 1 .. 13 /\ m.a \in Nat /\ m.x \in Nat /\ f.hlen \in Nat
        /\ \A k : Field(f, k) \in Nat
        /\ Accepted \in Machine /\ Rejected \in Machine
    <2>1. m.pc \in 1 .. 13 /\ m.a \in Nat /\ m.x \in Nat /\ f.hlen \in Nat
      BY FrameFields DEF Machine
    <2>2. \A k : Field(f, k) \in Nat
      BY FrameFields DEF Field
    <2> QED  BY <2>1, <2>2, Machines
  <1>1. \A pc \in 1 .. 13, a \in Nat, x \in Nat : Executing(pc, a, x) \in Machine
    BY Machines
  <1>2. /\ i.op = "ret" \/ m.pc + 1 \in 1 .. 13
        /\ i.op \in {"jeq", "jset"} => /\ (m.pc + 1) + i.jt \in 1 .. 13
                                       /\ (m.pc + 1) + i.jf \in 1 .. 13
        /\ i.op \in {"ret", "ldx_msh", "ld", "ld_ind", "jeq", "jset"}
    <2>1. \A pc \in 1 .. 13 : pc = 1 \/ pc = 2 \/ pc = 3 \/ pc = 4 \/ pc = 5 \/ pc = 6 \/ pc = 7
                                \/ pc = 8 \/ pc = 9 \/ pc = 10 \/ pc = 11 \/ pc = 12 \/ pc = 13
      OBVIOUS
    <2> QED  BY <1>0, <2>1, InsnsAre DEF Insn
  <1> HIDE DEF i
  <1>3. CASE i.op = "ret"
    BY <1>0, <1>3 DEF Exec, i
  <1>4. CASE i.op = "ldx_msh"
    BY <1>0, <1>1, <1>2, <1>4 DEF Exec, i
  <1>5. CASE i.op = "ld"
    BY <1>0, <1>1, <1>2, <1>5 DEF Exec, i
  <1>6. CASE i.op = "ld_ind"
    BY <1>0, <1>1, <1>2, <1>6 DEF Exec, i
  <1>7. CASE i.op \in {"jeq", "jset"}
    BY <1>0, <1>1, <1>2, <1>7 DEF Exec, i
  <1> QED  BY <1>2, <1>3, <1>4, <1>5, <1>6, <1>7

\* The steps of the machine over a packet.
Ran(f, h) ==
    /\ h \in [1 .. 14 -> Machine] /\ h[1] = Executing(1, 0, 0)
    /\ \A n \in 1 .. 13 : h[n + 1] = IF h[n].pc = 0 THEN h[n] ELSE Exec(f, h[n])
    /\ Accepts(f) <=> h[14].accept

LEMMA Runs ==
    ASSUME NEW f \in Frame
    PROVE  \E h : Ran(f, h)
  <1> DEFINE Next(m) == IF m.pc = 0 THEN m ELSE Exec(f, m)
             P(h) == h = [n \in 1 .. Len(insns) + 1 |-> IF n = 1 THEN Executing(1, 0, 0) ELSE Next(h[n - 1])]
             Run == CHOOSE h : P(h)
             G == [n \in 1 .. 14 |-> [m \in Machine |-> Next(m)]]
  <1>0. Len(insns) + 1 = 14
    BY InsnsAre
  <1>1. Accepts(f) <=> Run[14].accept
    BY <1>0 DEF Accepts
  <1>2. \A m \in Machine : Next(m) \in Machine
    BY ExecMachine
  <1> HIDE DEF Next
  <1>3. /\ G \in StepsOf(Machine, 14) /\ Executing(1, 0, 0) \in Machine
        /\ \A n \in 1 .. 14 : \A m \in Machine : G[n][m] = Next(m)
    <2>1. Executing(1, 0, 0) \in Machine
      BY Machines
    <2>2. G \in [1 .. 14 -> [Machine -> Machine]]
      BY <1>2
    <2> QED  BY <2>1, <2>2 DEF StepsOf
  <1> HIDE DEF G
  <1>4. PICK h \in [1 .. 14 -> Machine] : StepsFrom(h, Executing(1, 0, 0), G, 14)
    BY <1>3, Stepwise
  <1>5. \A n \in 1 .. 14 : h[n] = IF n = 1 THEN Executing(1, 0, 0) ELSE Next(h[n - 1])
    <2> SUFFICES ASSUME NEW n \in 1 .. 14
                 PROVE  h[n] = IF n = 1 THEN Executing(1, 0, 0) ELSE Next(h[n - 1])
      OBVIOUS
    <2>1. h[n] = IF n = 1 THEN Executing(1, 0, 0) ELSE G[n][h[n - 1]]
      BY <1>4 DEF StepsFrom
    <2>2. n # 1 => h[n - 1] \in Machine
      OBVIOUS
    <2> QED  BY <1>3, <2>1, <2>2
  <1>6. P(h)
    <2>1. h = [n \in 1 .. 14 |-> h[n]]
      OBVIOUS
    <2>2. h = [n \in 1 .. 14 |-> IF n = 1 THEN Executing(1, 0, 0) ELSE Next(h[n - 1])]
      BY <1>5, <2>1
    <2> QED  BY <1>0, <2>2
  <1>7. P(Run)
    <2> HIDE DEF P
    <2> QED  BY <1>6
  <1> HIDE DEF Run
  <1>8. /\ DOMAIN Run = 1 .. 14 /\ Run = [n \in 1 .. 14 |-> Run[n]]
        /\ \A n \in 1 .. 14 : Run[n] = IF n = 1 THEN Executing(1, 0, 0) ELSE Next(Run[n - 1])
    <2>1. Run = [n \in 1 .. 14 |-> IF n = 1 THEN Executing(1, 0, 0) ELSE Next(Run[n - 1])]
      BY <1>0, <1>7
    <2> QED  BY <2>1
  <1>9. Run[1] = Executing(1, 0, 0) /\ \A n \in 1 .. 13 : Run[n + 1] = Next(Run[n])
    <2>1. \A n \in 1 .. 13 : n + 1 \in 1 .. 14 /\ n + 1 # 1 /\ (n + 1) - 1 = n
      OBVIOUS
    <2> QED  BY <1>8, <2>1
  <1>10. \A n \in 1 .. 14 : Run[n] \in Machine
    <2> DEFINE Bad == {n \in 1 .. 14 : Run[n] \notin Machine}
    <2> SUFFICES ASSUME Bad # {} PROVE FALSE
      OBVIOUS
    <2>1. PICK n \in Bad : \A k \in Bad : n <= k
      <3>1. Bad \subseteq Nat
        OBVIOUS
      <3> HIDE DEF Bad
      <3> QED  BY <3>1, LeastElement
    <2>2. n \in 1 .. 14 /\ n # 1
      BY <1>3, <1>9
    <2>3. n - 1 \in 1 .. 13 /\ ~(n <= n - 1) /\ (n - 1) + 1 = n
      BY <2>2
    <2>4. Run[n - 1] \in Machine
      BY <2>1, <2>3
    <2> QED  BY <1>2, <1>9, <2>3, <2>4
  <1>11. Ran(f, Run)
    BY <1>1, <1>8, <1>9, <1>10 DEF Ran, Next
  <1> QED  BY <1>11

\* Once the machine has ended, or is at one of the two last instructions, it
\* is known what it will say.
LEMMA RunEnds ==
    ASSUME NEW f \in Frame, NEW h, Ran(f, h), NEW n \in 1 .. 14, h[n].pc = 0
    PROVE  h[14] = h[n]
  <1> DEFINE Bad == {k \in 1 .. 14 : n <= k /\ h[k] # h[n]}
  <1>1. Bad = {}
    <2> SUFFICES ASSUME Bad # {} PROVE FALSE
      OBVIOUS
    <2>1. PICK k \in Bad : \A j \in Bad : k <= j
      <3>1. Bad \subseteq Nat
        OBVIOUS
      <3> HIDE DEF Bad
      <3> QED  BY <3>1, LeastElement
    <2>2. k \in 1 .. 14 /\ n < k /\ h[k] # h[n]
      OBVIOUS
    <2>3. k - 1 \in 1 .. 13 /\ n <= k - 1 /\ ~(k <= k - 1) /\ (k - 1) + 1 = k
      BY <2>2
    <2>4. h[k - 1] = h[n]
      BY <2>1, <2>3
    <2> QED  BY <2>2, <2>3, <2>4 DEF Ran
  <1> QED  BY <1>1

LEMMA RunDecides ==
    ASSUME NEW f \in Frame, NEW h, Ran(f, h), NEW n \in 1 .. 13, NEW a \in Nat, NEW x \in Nat
    PROVE  /\ h[n] = Rejected => ~Accepts(f)
           /\ h[n] = Executing(13, a, x) => ~Accepts(f)
           /\ h[n] = Executing(12, a, x) => Accepts(f)
  <1>0. n \in 1 .. 14 /\ n + 1 \in 1 .. 14
    OBVIOUS
  <1>1. ASSUME h[n] = Rejected PROVE ~Accepts(f)
    <2>1. h[n].pc = 0
      BY <1>1, Machines
    <2>2. h[14] = h[n]
      BY <1>0, <2>1, RunEnds
    <2> QED  BY <1>1, <2>2, Machines DEF Ran
  <1>2. ASSUME h[n] = Executing(13, a, x) PROVE ~Accepts(f)
    <2>1. Executing(13, a, x).pc = 13
      BY Machines
    <2>2. h[n + 1] = Rejected
      BY <1>2, <2>1, ExecJumps DEF Ran
    <2>3. h[n + 1].pc = 0
      BY <2>2, Machines
    <2>4. h[14] = h[n + 1]
      BY <1>0, <2>3, RunEnds
    <2> QED  BY <2>2, <2>4, Machines DEF Ran
  <1>3. ASSUME h[n] = Executing(12, a, x) PROVE Accepts(f)
    <2>1. Executing(12, a, x).pc = 12
      BY Machines
    <2>2. h[n + 1] = Accepted
      BY <1>3, <2>1, ExecJumps DEF Ran
    <2>3. h[n + 1].pc = 0
      BY <2>2, Machines
    <2>4. h[14] = h[n + 1]
      BY <1>0, <2>3, RunEnds
    <2> QED  BY <2>2, <2>4, Machines DEF Ran
  <1> QED  BY <1>1, <1>2, <1>3

\* The program accepts the packets that match, and no others.
LEMMA AcceptsMatching ==
    ASSUME NEW f \in Frame
    PROVE  Accepts(f) <=> Matching(f)
  <1> PICK h : Ran(f, h)
    BY Runs
  <1>0. /\ f.ethertype \in Nat /\ f.protocol \in Nat /\ f.fragment \in Nat /\ f.hlen \in Nat
        /\ f.src \in Nat /\ f.dst \in Nat /\ f.size \in Nat /\ 20 <= f.hlen
    BY FrameFields
  <1>m. Matching(f) <=> /\ f.ethertype = 2048 /\ f.protocol = Protocol /\ f.fragment % 8192 = 0
                        /\ 16 + f.hlen <= f.size
                        /\ f.src = Port \/ (f.dst = Port /\ 18 + f.hlen <= f.size)
    BY <1>0 DEF Matching, ETHERTYPE_IP
  <1>n. \A n \in 1 .. 13, pc \in 1 .. 13, a \in Nat, x \in Nat :
          h[n] = Executing(pc, a, x) => h[n + 1] = Exec(f, Executing(pc, a, x))
    <2> SUFFICES ASSUME NEW n \in 1 .. 13, NEW pc \in 1 .. 13, NEW a \in Nat, NEW x \in Nat,
                        h[n] = Executing(pc, a, x)
                 PROVE  h[n + 1] = Exec(f, Executing(pc, a, x))
      OBVIOUS
    <2>1. Executing(pc, a, x).pc # 0
      BY DEF Executing
    <2> QED  BY <2>1 DEF Ran
  <1>1. h[1] = Executing(1, 0, 0)
    BY DEF Ran
  <1>2. CASE ~(14 <= f.size)
    <2>1. h[1 + 1] = Rejected
      <3>1. h[1 + 1] = Exec(f, Executing(1, 0, 0))
        BY <1>0, <1>n, <1>1
      <3> QED  BY <1>0, <1>2, <3>1, ExecLoads
    <2>2. ~Accepts(f)
      BY <2>1, RunDecides
    <2>3. ~Matching(f)
      BY <1>0, <1>2, <1>m
    <2> QED  BY <2>2, <2>3
  <1>3. CASE 14 <= f.size
    <2>1. h[1 + 1] = Executing(2, f.ethertype, 0)
      <3>1. h[1 + 1] = Exec(f, Executing(1, 0, 0))
        BY <1>0, <1>n, <1>1
      <3> QED  BY <1>0, <1>3, <3>1, ExecLoads
    <2>2. h[2 + 1] = Executing(IF f.ethertype = 2048 THEN 3 ELSE 13, f.ethertype, 0)
      <3>1. h[2 + 1] = Exec(f, Executing(2, f.ethertype, 0))
        BY <1>0, <1>n, <2>1
      <3> QED  BY <1>0, <3>1, ExecJumps
    <2>3. CASE f.ethertype # 2048
      <3>1. h[3] = Executing(13, f.ethertype, 0)
        BY <2>2, <2>3
      <3>2. ~Accepts(f)
        BY <1>0, <3>1, RunDecides
      <3> QED  BY <1>m, <2>3, <3>2
    <2>4. CASE f.ethertype = 2048 /\ ~(24 <= f.size)
      <3>1. h[3] = Executing(3, f.ethertype, 0)
        BY <2>2, <2>4
      <3>2. h[3 + 1] = Rejected
        <4>1. h[3 + 1] = Exec(f, Executing(3, f.ethertype, 0))
          BY <1>0, <1>n, <3>1
        <4> QED  BY <1>0, <2>4, <4>1, ExecLoads
      <3>3. ~Accepts(f)
        BY <3>2, RunDecides
      <3>4. ~Matching(f)
        BY <1>0, <1>m, <2>4
      <3> QED  BY <3>3, <3>4
    <2>5. CASE f.ethertype = 2048 /\ 24 <= f.size
      <3>1. h[3] = Executing(3, f.ethertype, 0)
        BY <2>2, <2>5
      <3>2. h[3 + 1] = Executing(4, f.protocol, 0)
        <4>1. h[3 + 1] = Exec(f, Executing(3, f.ethertype, 0))
          BY <1>0, <1>n, <3>1
        <4> QED  BY <1>0, <2>5, <4>1, ExecLoads
      <3>3. h[4 + 1] = Executing(IF f.protocol = Protocol THEN 5 ELSE 13, f.protocol, 0)
        <4>1. h[4 + 1] = Exec(f, Executing(4, f.protocol, 0))
          BY <1>0, <1>n, <3>2
        <4> QED  BY <1>0, <4>1, ExecJumps
      <3>4. CASE f.protocol # Protocol
        <4>1. h[5] = Executing(13, f.protocol, 0)
          BY <3>3, <3>4
        <4>2. ~Accepts(f)
          BY <1>0, <4>1, RunDecides
        <4> QED  BY <1>m, <3>4, <4>2
      <3>5. CASE f.protocol = Protocol
        <4>1. h[5] = Executing(5, f.protocol, 0)
          BY <3>3, <3>5
        <4>2. h[5 + 1] = Executing(6, f.fragment, 0)
          <5>1. 22 <= f.size
            BY <1>0, <2>5
          <5>2. h[5 + 1] = Exec(f, Executing(5, f.protocol, 0))
            BY <1>0, <1>n, <4>1
          <5> QED  BY <1>0, <5>1, <5>2, ExecLoads
        <4>3. h[6 + 1] = Executing(IF f.fragment % 8192 # 0 THEN 13 ELSE 7, f.fragment, 0)
          <5>1. h[6 + 1] = Exec(f, Executing(6, f.fragment, 0))
            BY <1>0, <1>n, <4>2
          <5> QED  BY <1>0, <5>1, ExecJumps
        <4>4. CASE f.fragment % 8192 # 0
          <5>1. h[7] = Executing(13, f.fragment, 0)
            BY <4>3, <4>4
          <5>2. ~Accepts(f)
            BY <1>0, <5>1, RunDecides
          <5> QED  BY <1>m, <4>4, <5>2
        <4>5. CASE f.fragment % 8192 = 0
          <5>1. h[7] = Executing(7, f.fragment, 0)
            BY <4>3, <4>5
          <5>2. h[7 + 1] = Executing(8, f.fragment, f.hlen)
            <6>1. 14 < f.size
              BY <1>0, <2>5
            <6>2. h[7 + 1] = Exec(f, Executing(7, f.fragment, 0))
              BY <1>0, <1>n, <5>1
            <6> QED  BY <1>0, <6>1, <6>2, ExecLoads
          <5>3. h[8 + 1] = IF 16 + f.hlen <= f.size THEN Executing(9, f.src, f.hlen) ELSE Rejected
            <6>1. h[8 + 1] = Exec(f, Executing(8, f.fragment, f.hlen))
              BY <1>0, <1>n, <5>2
            <6> QED  BY <1>0, <6>1, ExecLoads
          <5>4. CASE ~(16 + f.hlen <= f.size)
            <6>1. ~Accepts(f)
              BY <5>3, <5>4, RunDecides
            <6> QED  BY <1>m, <5>4, <6>1
          <5>5. CASE 16 + f.hlen <= f.size
            <6>1. h[9] = Executing(9, f.src, f.hlen)
              BY <5>3, <5>5
            <6>2. h[9 + 1] = Executing(IF f.src = Port THEN 12 ELSE 10, f.src, f.hlen)
              <7>1. h[9 + 1] = Exec(f, Executing(9, f.src, f.hlen))
                BY <1>0, <1>n, <6>1
              <7> QED  BY <1>0, <7>1, ExecJumps
            <6>3. CASE f.src = Port
              <7>1. h[10] = Executing(12, f.src, f.hlen)
                BY <6>2, <6>3
              <7>2. Accepts(f)
                BY <1>0, <7>1, RunDecides
              <7> QED  BY <1>m, <2>5, <3>5, <4>5, <5>5, <6>3, <7>2
            <6>4. CASE f.src # Port
              <7>1. h[10] = Executing(10, f.src, f.hlen)
                BY <6>2, <6>4
              <7>2. h[10 + 1] = IF 18 + f.hlen <= f.size THEN Executing(11, f.dst, f.hlen) ELSE Rejected
                <8>1. h[10 + 1] = Exec(f, Executing(10, f.src, f.hlen))
                  BY <1>0, <1>n, <7>1
                <8> QED  BY <1>0, <8>1, ExecLoads
              <7>3. CASE ~(18 + f.hlen <= f.size)
                <8>1. ~Accepts(f)
                  BY <7>2, <7>3, RunDecides
                <8> QED  BY <1>m, <6>4, <7>3, <8>1
              <7>4. CASE 18 + f.hlen <= f.size
                <8>1. h[11] = Executing(11, f.dst, f.hlen)
                  BY <7>2, <7>4
                <8>2. h[11 + 1] = Executing(IF f.dst = Port THEN 12 ELSE 13, f.dst, f.hlen)
                  <9>1. h[11 + 1] = Exec(f, Executing(11, f.dst, f.hlen))
                    BY <1>0, <1>n, <8>1
                  <9> QED  BY <1>0, <9>1, ExecJumps
                <8>3. Accepts(f) <=> f.dst = Port
                  <9>1. CASE f.dst = Port
                    BY <1>0, <8>2, <9>1, RunDecides
                  <9>2. CASE f.dst # Port
                    BY <1>0, <8>2, <9>2, RunDecides
                  <9> QED  BY <9>1, <9>2
                <8> QED  BY <1>m, <2>5, <3>5, <4>5, <5>5, <6>4, <7>4, <8>3
              <7> QED  BY <7>3, <7>4
            <6> QED  BY <6>3, <6>4
          <5> QED  BY <5>4, <5>5
        <4> QED  BY <4>4, <4>5
      <3> QED  BY <3>4, <3>5
    <2> QED  BY <2>3, <2>4, <2>5
  <1> QED  BY <1>2, <1>3

-----------------------------------------------------------------------------
(* The bpf example: what is printed                                        *)

BpfSpec == BpfInit /\ [][BpfNext]_bpfVars

\* What is left of a buffer from a place in it on.
Rest(c, at) == SubSeq(c, Cardinality({i \in DOMAIN c : OffsetsIn(c)[i] < at}) + 1, Len(c))
AtHeader(c, at) == at >= Extent(c) \/ \E i \in DOMAIN c : OffsetsIn(c)[i] = at

BpfInv ==
    /\ store \in Seq(Frames) /\ hold \in Seq(Frames) /\ accepted \in Seq(Frames)
    /\ chunk \in Seq(Frames) /\ frameLines \in Seq(Frames) /\ walkAt \in Nat
    /\ bpf \in {"open", "options", "dlt", "filter", "read", "walk", "failed"}
    /\ filtered \in BOOLEAN
    /\ bpf \in {"open", "options", "dlt", "filter"} => ~filtered
    /\ bpf \in {"read", "walk"} => filtered
    /\ ~filtered => frameLines = <<>>
    /\ filtered => accepted = frameLines \o Ahead \o hold \o store
    /\ bpf = "walk" => chunk # <<>> /\ AtHeader(chunk, walkAt)

LEMMA FramesAre == \A c \in Seq(Frames) : c \in Seq(Frame)
  BY BpfAssumption, SeqMonotonic DEF BpfAssumption

\* At the header of a packet, that packet and the later ones are left ...
LEMMA RestFrom ==
    ASSUME NEW c \in Seq(Frames), NEW i \in 1 .. Len(c)
    PROVE  Rest(c, OffsetsIn(c)[i]) = SubSeq(c, i, Len(c))
  <1> DEFINE b == OffsetsIn(c)
             Before == {j \in DOMAIN c : b[j] < b[i]}
  <1>0. DOMAIN c = 1 .. Len(c) /\ Len(c) \in Nat /\ c \in Seq(Frame)
    BY LenProperties, FramesAre
  <1>1. \A j \in 1 .. Len(c) : b[j] \in Nat
    BY <1>0, OffsetsStep
  <1>2. \A j \in 1 .. Len(c) : (j < i => b[j] < b[i]) /\ (i < j => b[i] < b[j])
    BY <1>0, OffsetsGrow
  <1> HIDE DEF b
  <1>3. Before = 1 .. i - 1
    <2>1. ASSUME NEW j \in 1 .. Len(c), b[j] < b[i] PROVE j \in 1 .. i - 1
      <3>1. ~(i < j) /\ i # j
        BY <1>1, <1>2, <2>1
      <3> QED  BY <1>0, <3>1
    <2>2. ASSUME NEW j \in 1 .. i - 1 PROVE j \in 1 .. Len(c) /\ b[j] < b[i]
      BY <1>0, <1>2
    <2> QED  BY <1>0, <2>1, <2>2
  <1>4. Cardinality(Before) + 1 = i
    <2>1. 1 \in Int /\ i - 1 \in Int
      BY <1>0
    <2>2. Cardinality(1 .. i - 1) = IF 1 > i - 1 THEN 0 ELSE ((i - 1) - 1) + 1
      BY <2>1, FS_Interval
    <2>3. Cardinality(1 .. i - 1) = i - 1
      BY <1>0, <2>2
    <2> HIDE DEF Before
    <2> QED  BY <1>0, <1>3, <2>3
  <1> QED  BY <1>4 DEF Rest, b

\* ... and behind the last nothing is.
LEMMA RestBehind ==
    ASSUME NEW c \in Seq(Frames), c # <<>>, NEW at \in Nat, at >= Extent(c)
    PROVE  Rest(c, at) = <<>>
  <1> DEFINE b == OffsetsIn(c)
             n == Len(c)
             Before == {j \in DOMAIN c : b[j] < at}
  <1>0. DOMAIN c = 1 .. n /\ n \in Nat /\ c \in Seq(Frame) /\ n # 0 /\ n \in 1 .. n
    BY LenProperties, FramesAre, EmptySeq
  <1>1. \A j \in 1 .. n : b[j] \in Nat
    BY <1>0, OffsetsStep
  <1>2. \A j \in 1 .. n : j < n => b[j] < b[n]
    BY <1>0, OffsetsGrow
  <1>3. b[n] < at
    <2>1. c[n] \in Frame
      BY <1>0, ElementOfSeq
    <2>2. CapLen(c[n]) \in Nat
      BY <2>1, Caps
    <2>3. Extent(c) = (b[n] + HdrLen) + CapLen(c[n])
      BY DEF Extent
    <2> HIDE DEF b, n
    <2> QED  BY <1>0, <1>1, <2>2, <2>3 DEF HdrLen
  <1> HIDE DEF b, n
  <1>4. Before = 1 .. n
    <2>1. \A j \in 1 .. n : b[j] < at
      <3> SUFFICES ASSUME NEW j \in 1 .. n PROVE b[j] < at
        OBVIOUS
      <3>1. j < n \/ j = n
        BY <1>0
      <3> QED  BY <1>0, <1>1, <1>2, <1>3, <3>1
    <2> QED  BY <1>0, <2>1
  <1>5. Cardinality(Before) + 1 = n + 1
    <2>1. 1 \in Int /\ n \in Int
      BY <1>0
    <2>2. Cardinality(1 .. n) = IF 1 > n THEN 0 ELSE (n - 1) + 1
      BY <2>1, FS_Interval
    <2>3. Cardinality(1 .. n) = n
      BY <1>0, <2>2
    <2> HIDE DEF Before
    <2> QED  BY <1>4, <2>3
  <1>6. Rest(c, at) = SubSeq(c, n + 1, n)
    BY <1>5 DEF Rest, b, n
  <1>7. n + 1 \in Int /\ n \in Int /\ n < n + 1
    BY <1>0
  <1> QED  BY <1>6, <1>7, SubSeqEmpty

\* A buffer that has just been read is left as a whole.
LEMMA RestOfAll ==
    ASSUME NEW c \in Seq(Frames), c # <<>>
    PROVE  Rest(c, 0) = c /\ AtHeader(c, 0)
  <1>0. DOMAIN c = 1 .. Len(c) /\ 1 \in 1 .. Len(c) /\ c \in Seq(Frame)
    BY LenProperties, FramesAre, EmptySeq
  <1>1. OffsetsIn(c)[1] = 0
    BY <1>0, OffsetsStep
  <1>2. Rest(c, 0) = SubSeq(c, 1, Len(c))
    <2>1. Rest(c, OffsetsIn(c)[1]) = SubSeq(c, 1, Len(c))
      BY <1>0, RestFrom
    <2> QED  BY <1>1, <2>1
  <1>3. SubSeq(c, 1, Len(c)) = c
    BY SubSeqFull
  <1> QED  BY <1>0, <1>1, <1>2, <1>3 DEF AtHeader

\* A packet is printed: the walk comes to the header of the next, or to the end.
LEMMA RestAfter ==
    ASSUME NEW c \in Seq(Frames), NEW i \in 1 .. Len(c)
    PROVE  LET next == OffsetsIn(c)[i] + BPF_WORDALIGN(HdrLen + CapLen(c[i])) IN
           /\ next \in Nat /\ AtHeader(c, next) /\ c[i] \in Frames
           /\ Rest(c, next) \in Seq(Frames)
           /\ Rest(c, OffsetsIn(c)[i]) = <<c[i]>> \o Rest(c, next)
  <1> DEFINE b == OffsetsIn(c)
             n == Len(c)
             next == b[i] + Room(c[i])
  <1>0. /\ DOMAIN c = 1 .. n /\ n \in Nat /\ c \in Seq(Frame) /\ c # <<>> /\ i \in 1 .. n
        /\ c[i] \in Frames /\ c[i] \in Frame
    BY LenProperties, FramesAre, EmptySeq, ElementOfSeq
  <1>1. /\ \A j \in 1 .. n : b[j] \in Nat
        /\ \A j \in 1 .. n : j # 1 => b[j] = b[j - 1] + Room(c[j - 1])
    BY <1>0, OffsetsStep
  <1>2. /\ Room(c[i]) \in Nat /\ CapLen(c[i]) \in Nat
        /\ HdrLen + CapLen(c[i]) <= Room(c[i])
    BY <1>0, Rooms
  <1>3. next \in Nat
    BY <1>0, <1>1, <1>2
  <1>4. SubSeq(c, i, n) = <<c[i]>> \o SubSeq(c, i + 1, n)
    <2>1. i \in 1 .. Len(c) /\ n \in i .. Len(c)
      BY <1>0
    <2> QED  BY <2>1, SubSeqRecursiveFirst
  <1>5. Rest(c, b[i]) = SubSeq(c, i, n)
    BY RestFrom
  <1>6. AtHeader(c, next) /\ Rest(c, next) = SubSeq(c, i + 1, n)
    <2>1. CASE i = n
      <3>1. Extent(c) = (b[n] + HdrLen) + CapLen(c[n])
        BY <1>0 DEF Extent
      <3>2. next >= Extent(c)
        <4> HIDE DEF b, n
        <4>1. b[i] \in Nat /\ HdrLen \in Nat
          BY <1>0, <1>1 DEF HdrLen
        <4> QED  BY <1>2, <2>1, <3>1, <4>1
      <3>3. Rest(c, next) = <<>>
        <4> HIDE DEF next
        <4> QED  BY <1>0, <1>3, <3>2, RestBehind
      <3>4. SubSeq(c, i + 1, n) = <<>>
        <4>1. i + 1 \in Int /\ n \in Int /\ n < i + 1
          BY <1>0, <2>1
        <4> QED  BY <4>1, SubSeqEmpty
      <3> QED  BY <3>2, <3>3, <3>4 DEF AtHeader
    <2>2. CASE i # n
      <3>1. i + 1 \in 1 .. n /\ i + 1 # 1 /\ (i + 1) - 1 = i
        <4> HIDE DEF n
        <4> QED  BY <1>0, <2>2
      <3>2. b[i + 1] = next
        BY <1>1, <3>1
      <3>3. Rest(c, b[i + 1]) = SubSeq(c, i + 1, n)
        BY <3>1, RestFrom
      <3> QED  BY <1>0, <3>1, <3>2, <3>3 DEF AtHeader
    <2> QED  BY <2>1, <2>2
  <1>7. SubSeq(c, i + 1, n) \in Seq(Frames)
    <2>1. i + 1 \in Int /\ n \in Int /\ \A j \in i + 1 .. n : c[j] \in Frames
      BY <1>0, ElementOfSeq
    <2> QED  BY <2>1, SubSeqProperties
  <1> QED  BY <1>0, <1>3, <1>4, <1>5, <1>6, <1>7 DEF Room

LEMMA AheadTyped ==
    ASSUME BpfInv
    PROVE  Ahead \in Seq(Frames)
  <1>1. CASE bpf = "walk" /\ walkAt >= Extent(chunk)
    <2>1. Rest(chunk, walkAt) = <<>>
      BY <1>1, RestBehind DEF BpfInv
    <2>2. Ahead = Rest(chunk, walkAt)
      BY <1>1 DEF Ahead, Rest
    <2> QED  BY <2>1, <2>2, EmptySeq
  <1>2. CASE bpf = "walk" /\ \E i \in DOMAIN chunk : OffsetsIn(chunk)[i] = walkAt
    <2>1. PICK i \in DOMAIN chunk : OffsetsIn(chunk)[i] = walkAt
      BY <1>2
    <2>2. /\ i \in 1 .. Len(chunk) /\ Len(chunk) \in Nat
          /\ \A j \in i .. Len(chunk) : chunk[j] \in Frames
      BY LenProperties, ElementOfSeq DEF BpfInv
    <2>3. Rest(chunk, walkAt) = SubSeq(chunk, i, Len(chunk))
      BY <2>1, <2>2, RestFrom DEF BpfInv
    <2>4. SubSeq(chunk, i, Len(chunk)) \in Seq(Frames)
      BY <2>2, SubSeqProperties
    <2>5. Ahead = Rest(chunk, walkAt)
      BY <1>2 DEF Ahead, Rest
    <2> QED  BY <2>3, <2>4, <2>5
  <1>3. CASE bpf # "walk"
    BY <1>3, EmptySeq DEF Ahead
  <1> QED  BY <1>1, <1>2, <1>3 DEF BpfInv, AtHeader

\* A packet that gets into a buffer gets behind all that is to be printed.
LEMMA CaptureKeeps ==
    ASSUME BpfInv, Capture
    PROVE  BpfInv'
  <1>0. /\ UNCHANGED <<bpf, filtered, chunk, walkAt, frameLines>>
        /\ store \in Seq(Frames) /\ hold \in Seq(Frames) /\ accepted \in Seq(Frames)
        /\ frameLines \in Seq(Frames) /\ Ahead \in Seq(Frames)
    BY AheadTyped DEF Capture, BpfInv, walkVars
  <1>1. Ahead' = Ahead
    BY <1>0 DEF Ahead
  <1> DEFINE X == frameLines \o Ahead
  <1>2. X \in Seq(Frames) /\ X \o hold \in Seq(Frames)
    <2>1. X \in Seq(Frames)
      BY <1>0, ConcatProperties
    <2> HIDE DEF X
    <2> QED  BY <1>0, <2>1, ConcatProperties
  <1>3. X' = X
    BY <1>0, <1>1
  <1>4. CASE UNCHANGED <<store, hold, accepted>>
    BY <1>0, <1>1, <1>4 DEF BpfInv, AtHeader
  <1>5. ASSUME NEW f \in Frames, store' = Append(store, f), accepted' = Append(accepted, f),
               hold' = hold
        PROVE  BpfInv'
    <2>1. store' \in Seq(Frames) /\ accepted' \in Seq(Frames)
      BY <1>0, <1>5, AppendProperties
    <2>2. ASSUME filtered PROVE accepted' = (X \o hold) \o store'
      <3>1. accepted = (X \o hold) \o store
        BY <2>2 DEF BpfInv
      <3> HIDE DEF X
      <3>2. Append((X \o hold) \o store, f) = (X \o hold) \o Append(store, f)
        <4> DEFINE Y == X \o hold
        <4>1. /\ Y \in Seq(Frames) /\ store \in Seq(Frames) /\ f \in Frames
              /\ <<f>> \in Seq(Frames)
          BY <1>0, <1>2, <1>5
        <4> HIDE DEF Y
        <4>2. Append(Y \o store, f) = Y \o Append(store, f)
          <5>1. Y \o store \in Seq(Frames)
            BY <4>1, ConcatProperties
          <5>2. Append(Y \o store, f) = (Y \o store) \o <<f>>
            BY <4>1, <5>1, AppendIsConcat
          <5>3. Append(store, f) = store \o <<f>>
            BY <4>1, AppendIsConcat
          <5>4. (Y \o store) \o <<f>> = Y \o (store \o <<f>>)
            BY <4>1, ConcatAssociative
          <5> QED  BY <5>2, <5>3, <5>4
        <4> QED  BY <4>2 DEF Y
      <3> QED  BY <1>5, <3>1, <3>2
    <2>3. filtered' => accepted' = frameLines' \o Ahead' \o hold' \o store'
      BY <1>0, <1>1, <1>5, <2>2
    <2> QED  BY <1>0, <1>5, <2>1, <2>3 DEF BpfInv, AtHeader
  <1>6. ASSUME NEW f \in Frames, hold = <<>>, hold' = store, store' = <<f>>,
               accepted' = Append(accepted, f)
        PROVE  BpfInv'
    <2>1. store' \in Seq(Frames) /\ accepted' \in Seq(Frames) /\ hold' \in Seq(Frames)
      BY <1>0, <1>6, AppendProperties
    <2>2. ASSUME filtered PROVE accepted' = (X \o hold') \o store'
      <3>1. accepted = (X \o hold) \o store
        BY <2>2 DEF BpfInv
      <3> HIDE DEF X
      <3>2. accepted = X \o store
        BY <1>2, <1>6, <3>1, ConcatEmptySeq
      <3>3. accepted' = (X \o store) \o <<f>>
        BY <1>0, <1>2, <1>6, <3>2, AppendIsConcat
      <3> QED  BY <1>6, <3>3
    <2>3. filtered' => accepted' = frameLines' \o Ahead' \o hold' \o store'
      BY <1>0, <1>1, <1>6, <2>2
    <2> QED  BY <1>0, <1>6, <2>1, <2>3 DEF BpfInv, AtHeader
  <1> QED  BY <1>4, <1>5, <1>6 DEF Capture

\* A read takes the buffer that was filled first, and leaves what is in the other.
LEMMA ReadKeeps ==
    ASSUME BpfInv, ReadPackets
    PROVE  BpfInv'
  <1>0. /\ bpf = "read" /\ bpf' = "walk" /\ filtered /\ walkAt' = 0
        /\ UNCHANGED <<filtered, accepted, frameLines>>
        /\ store \in Seq(Frames) /\ hold \in Seq(Frames) /\ accepted \in Seq(Frames)
        /\ frameLines \in Seq(Frames) /\ <<>> \in Seq(Frames)
    BY EmptySeq DEF ReadPackets, BpfInv
  <1>1. Ahead = <<>> /\ Ahead' = Rest(chunk', 0)
    BY <1>0 DEF Ahead, Rest
  <1>2. accepted = frameLines \o hold \o store
    <2>1. accepted = frameLines \o <<>> \o hold \o store
      BY <1>0, <1>1 DEF BpfInv
    <2>2. frameLines \o <<>> = frameLines
      BY <1>0, ConcatEmptySeq
    <2> QED  BY <2>1, <2>2
  <1>3. /\ chunk' \in Seq(Frames) /\ chunk' # <<>> /\ hold' = <<>> /\ store' \in Seq(Frames)
        /\ accepted = frameLines \o chunk' \o <<>> \o store'
    <2>1. frameLines \o hold \in Seq(Frames) /\ frameLines \o store \in Seq(Frames)
      BY <1>0, ConcatProperties
    <2>2. CASE hold # <<>>
      <3>1. chunk' = hold /\ hold' = <<>> /\ store' = store
        BY <2>2 DEF ReadPackets
      <3>2. (frameLines \o hold) \o <<>> = frameLines \o hold
        BY <2>1, ConcatEmptySeq
      <3> QED  BY <1>0, <1>2, <2>2, <3>1, <3>2
    <2>3. CASE hold = <<>>
      <3>1. chunk' = store /\ store' = <<>> /\ hold' = <<>> /\ store # <<>>
        BY <2>3 DEF ReadPackets
      <3>2. /\ frameLines \o hold = frameLines
            /\ (frameLines \o store) \o <<>> = frameLines \o store
        BY <1>0, <2>1, <2>3, ConcatEmptySeq
      <3> QED  BY <1>0, <1>2, <3>1, <3>2
    <2> QED  BY <2>2, <2>3
  <1>4. Rest(chunk', 0) = chunk' /\ AtHeader(chunk', 0)
    BY <1>3, RestOfAll
  <1>5. AtHeader(chunk, walkAt)'
    BY <1>0, <1>4 DEF AtHeader, Extent
  <1>6. accepted' = frameLines' \o Ahead' \o hold' \o store'
    BY <1>0, <1>1, <1>3, <1>4
  <1>7. walkAt' \in Nat /\ hold' \in Seq(Frames) /\ accepted' \in Seq(Frames)
        /\ frameLines' \in Seq(Frames)
    BY <1>0, <1>3
  <1> QED  BY <1>0, <1>3, <1>5, <1>6, <1>7 DEF BpfInv

\* The packet that is printed is the first of those left in the buffer.
LEMMA WalkKeeps ==
    ASSUME BpfInv, WalkPacket
    PROVE  BpfInv'
  <1>0. /\ bpf = "walk" /\ bpf' = "walk" /\ filtered /\ chunk \in Seq(Frames)
        /\ UNCHANGED <<filtered, accepted, chunk, store, hold>>
        /\ store \in Seq(Frames) /\ hold \in Seq(Frames) /\ frameLines \in Seq(Frames)
    BY DEF WalkPacket, BpfInv, deviceVars
  <1>1. PICK i \in DOMAIN chunk :
          /\ OffsetsIn(chunk)[i] = walkAt
          /\ frameLines' = Append(frameLines, chunk[i])
          /\ walkAt' = walkAt + BPF_WORDALIGN(HdrLen + CapLen(chunk[i]))
    BY DEF WalkPacket
  <1>2. i \in 1 .. Len(chunk)
    BY <1>0, LenProperties
  <1>3. /\ walkAt' \in Nat /\ AtHeader(chunk, walkAt') /\ chunk[i] \in Frames
        /\ Rest(chunk, walkAt') \in Seq(Frames)
        /\ Rest(chunk, walkAt) = <<chunk[i]>> \o Rest(chunk, walkAt')
    BY <1>0, <1>1, <1>2, RestAfter
  <1>4. Ahead = Rest(chunk, walkAt) /\ Ahead' = Rest(chunk, walkAt')
    BY <1>0 DEF Ahead, Rest
  <1> DEFINE e == chunk[i]
             R == Rest(chunk, walkAt')
  <1>5. frameLines \o Ahead = frameLines' \o Ahead'
    <2>1. frameLines' = frameLines \o <<e>> /\ frameLines' \in Seq(Frames)
      <3> HIDE DEF e
      <3>1. e \in Frames /\ frameLines' = Append(frameLines, e)
        BY <1>1, <1>3 DEF e
      <3> QED  BY <1>0, <3>1, AppendIsConcat, AppendProperties
    <2>2. e \in Frames /\ R \in Seq(Frames) /\ Ahead = <<e>> \o R /\ Ahead' = R
      BY <1>3, <1>4
    <2> HIDE DEF e, R
    <2>3. (frameLines \o <<e>>) \o R = frameLines \o (<<e>> \o R)
      <3>1. <<e>> \in Seq(Frames)
        BY <2>2
      <3> QED  BY <1>0, <2>2, <3>1, ConcatAssociative
    <2> QED  BY <2>1, <2>2, <2>3
  <1>6. accepted' = frameLines' \o Ahead' \o hold' \o store'
    <2>1. accepted = frameLines \o Ahead \o hold \o store
      BY <1>0 DEF BpfInv
    <2> QED  BY <1>0, <1>5, <2>1
  <1>7. frameLines' \in Seq(Frames)
    BY <1>0, <1>1, <1>3, AppendProperties
  <1>8. AtHeader(chunk, walkAt)'
    BY <1>0, <1>3 DEF AtHeader, Extent
  <1> QED  BY <1>0, <1>3, <1>6, <1>7, <1>8 DEF BpfInv

LEMMA BpfStepKeeps == BpfInv /\ [BpfNext]_bpfVars => BpfInv'
  <1> SUFFICES ASSUME BpfInv, [BpfNext]_bpfVars PROVE BpfInv'
    OBVIOUS
  <1>1. CASE Capture
    BY <1>1, CaptureKeeps
  <1>2. CASE ReadPackets
    BY <1>2, ReadKeeps
  <1>3. CASE WalkPacket
    BY <1>3, WalkKeeps
  <1>4. CASE WalkEnd
    <2>1. /\ bpf = "walk" /\ bpf' = "read" /\ walkAt >= Extent(chunk)
          /\ UNCHANGED <<deviceVars, walkVars>>
      BY <1>4 DEF WalkEnd
    <2>2. Ahead = Rest(chunk, walkAt) /\ Ahead' = <<>>
      BY <2>1 DEF Ahead, Rest
    <2>3. Rest(chunk, walkAt) = <<>>
      BY <2>1, RestBehind DEF BpfInv
    <2>4. Ahead' = Ahead
      BY <2>2, <2>3
    <2> QED  BY <2>1, <2>4 DEF BpfInv, deviceVars, walkVars
  <1>5. CASE InstallFilter
    <2>1. /\ bpf = "filter" /\ bpf' = "read" /\ filtered' = TRUE
          /\ store' = <<>> /\ hold' = <<>> /\ accepted' = <<>> /\ UNCHANGED walkVars
      BY <1>5 DEF InstallFilter
    <2>2. frameLines' = <<>> /\ Ahead' = <<>>
      BY <2>1 DEF BpfInv, walkVars, Ahead
    <2>3. <<>> \in Seq(Frames) /\ <<>> \o <<>> \o <<>> \o <<>> = <<>>
      BY EmptySeq, ConcatEmptySeq
    <2> QED  BY <2>1, <2>2, <2>3 DEF BpfInv, walkVars
  \* The others change neither the device nor what was read, and bpf is not "walk".
  <1>6. CASE TryDevice \/ NoDevice \/ SetOptions \/ CheckDlt \/ InstallFilterFails \/ ReadPacketsFails
    <2>1. /\ UNCHANGED <<deviceVars, walkVars>> /\ bpf # "walk"
          /\ \/ bpf' \in {"open", "options", "dlt", "filter"}
                  /\ bpf \in {"open", "options", "dlt", "filter"}
             \/ bpf' = "failed"
      BY <1>6 DEF TryDevice, NoDevice, SetOptions, CheckDlt, InstallFilterFails, ReadPacketsFails
    <2>2. Ahead' = Ahead
      BY <2>1 DEF Ahead
    <2> QED  BY <2>1, <2>2 DEF BpfInv, deviceVars, walkVars
  <1>7. CASE UNCHANGED bpfVars
    <2>1. Ahead' = Ahead
      BY <1>7 DEF bpfVars, Ahead
    <2> QED  BY <1>7, <2>1 DEF bpfVars, BpfInv, AtHeader
  <1> QED  BY <1>1, <1>2, <1>3, <1>4, <1>5, <1>6, <1>7 DEF BpfNext

\* The program accepts the packets that match, and what it accepted and had room
\* is printed, each once and in the order of coming, or waits: the walk meets the
\* headers whatever the lengths, and nothing from before the program is left.
THEOREM BpfPacketsAreExact == BpfSpec => []PacketsAreExact
  <1>1. BpfInit => BpfInv
    <2> SUFFICES ASSUME BpfInit PROVE BpfInv
      OBVIOUS
    <2>1. <<>> \in Seq(Frames)
      BY EmptySeq
    <2> QED  BY <2>1 DEF BpfInit, BpfInv
  <1>2. BpfInv => PacketsAreExact
    <2> SUFFICES ASSUME BpfInv, filtered PROVE PacketsAreExact
      BY DEF PacketsAreExact
    <2>1. \A f \in Frames : Accepts(f) <=> Matching(f)
      BY AcceptsMatching, BpfAssumption DEF BpfAssumption
    <2> QED  BY <2>1 DEF PacketsAreExact, BpfInv, AtHeader
  <1> QED  BY <1>1, <1>2, BpfStepKeeps, PTL DEF BpfSpec

-----------------------------------------------------------------------------
(* Type correctness.  filemon: a path is a name, or one with the number of *)
(* a link, and an event carries such a path; the queue stays within Depth. *)

PathEvent == {e \in Event : IsPath(e.path)}

FilemonTyped ==
    /\ \A path \in fs : IsPath(path)
    /\ suspended \subseteq Pids
    /\ queue \in Seq(PathEvent) /\ posted \in Seq(PathEvent) /\ buf \in Seq(PathEvent \cup {Dropped})
    /\ Len(queue) <= Depth
    /\ deeds \in Nat /\ runs \in Nat /\ opts \in Option
    /\ doing \in {"start", "exit", "read", "event", "link", "stop"}
    /\ lastPID \in Pids \cup {0}

\* The name of a file is a path.
LEMMA PathsOfOne ==
    ASSUME NEW f \in Files
    PROVE  IsPath(<<f>>) /\ <<f>> \in Path /\ Len(<<f>>) = 1
  <1>1. <<f>> \in Path /\ Len(<<f>>) = 1 /\ <<f>>[1] = f
    BY DEF Path
  <1> QED  BY <1>1 DEF IsPath

\* A link is made for an event of another process, so for a path of one part.
LEMMA LinkIsPath ==
    ASSUME FilemonShape, FilemonTyped, doing = "link"
    PROVE  IsPath(linkName)
  <1>1. /\ event \in Event /\ event # Dropped /\ buf # <<>> /\ event.path \in Path /\ Len(event.path) = 1
    BY HeadIsEvent DEF FilemonShape
  <1>2. event \in PathEvent
    <2>1. event \in PathEvent \cup {Dropped}
      BY <1>1, HeadTailProperties DEF FilemonTyped, event
    <2> QED  BY <1>1, <2>1
  <1>3. event.path[1] \in Files
    BY <1>2 DEF PathEvent, IsPath
  <1>4. PICK a, q : a = autolink /\ q = event.path
    OBVIOUS
  <1>5. a \in Nat /\ a \in Files \cup Nat /\ q \in Seq(Files \cup Nat) /\ Len(q) = 1 /\ q[1] \in Files
    BY <1>1, <1>3, <1>4 DEF FilemonShape, Path
  <1>6. Len(Append(q, a)) = Len(q) + 1 /\ Append(q, a)[1] = q[1] /\ Append(q, a)[Len(q) + 1] = a
    <2>1. PICK S : S = Files \cup Nat
      OBVIOUS
    <2>2. a \in S /\ q \in Seq(S) /\ 1 \in 1 .. Len(q)
      BY <1>5, <2>1
    <2> QED  BY <2>2, AppendProperties
  <1>7. Len(Append(q, a)) = 2 /\ Append(q, a)[1] \in Files /\ Append(q, a)[2] \in Nat
    BY <1>5, <1>6
  <1>8. IsPath(Append(q, a))
    BY <1>7 DEF IsPath
  <1> QED  BY <1>4, <1>8 DEF linkName

\* An event is queued only while there is room.
LEMMA PostTyped ==
    ASSUME FilemonShape, FilemonTyped, NEW type \in {"create", "delete"}, NEW pid \in Pids, NEW path \in Path,
           IsPath(path), pid # Self => Len(path) = 1, Post(type, pid, path)
    PROVE  queue' \in Seq(PathEvent) /\ posted' \in Seq(PathEvent) /\ Len(queue') <= Depth
  <1> DEFINE e == [id |-> Len(posted) + 1, type |-> type, pid |-> pid, path |-> path]
  <1>1. Len(posted) + 1 \in Nat \ {0} /\ Len(queue) \in Nat /\ Depth \in Nat
    BY Lengths, FilemonAssumption DEF FilemonAssumption
  <1>2. e \in PathEvent
    BY <1>1 DEF Event, PathEvent
  <1>3. queue \in Seq(PathEvent) /\ posted \in Seq(PathEvent) /\ Len(queue) <= Depth
    BY DEF FilemonTyped
  <1>4. \/ UNCHANGED <<queue, posted>>
        \/ posted' = Append(posted, e) /\ Len(queue) < Depth /\ queue' = Append(queue, e)
        \/ posted' = Append(posted, e) /\ queue' = queue
    BY DEF Post
  <1> HIDE DEF e
  <1>5. Append(queue, e) \in Seq(PathEvent) /\ Append(posted, e) \in Seq(PathEvent)
        /\ Len(Append(queue, e)) = Len(queue) + 1
    BY <1>2, <1>3, AppendProperties
  <1>6. Len(queue) < Depth => Len(Append(queue, e)) <= Depth
    BY <1>1, <1>5
  <1> QED  BY <1>3, <1>4, <1>5, <1>6

\* Every step of filemon, of the other processes and of the kernel keeps it.
LEMMA FilemonTypedStep ==
    ASSUME FilemonInv, FilemonTyped, FilemonNext
    PROVE  FilemonTyped'
  <1>0. /\ FilemonShape /\ Self \in Pids /\ Depth \in Nat
        /\ \A path \in fs : IsPath(path)
        /\ suspended \subseteq Pids
        /\ queue \in Seq(PathEvent) /\ posted \in Seq(PathEvent) /\ buf \in Seq(PathEvent \cup {Dropped})
        /\ Len(queue) <= Depth /\ 0 <= Depth
        /\ deeds \in Nat /\ runs \in Nat /\ opts \in Option /\ lastPID \in Pids \cup {0}
        /\ doing \in {"start", "exit", "read", "event", "link", "stop"}
    BY FilemonAssumption DEF FilemonAssumption, FilemonInv, FilemonTyped
  <1>1. ASSUME buf # <<>> PROVE Tail(buf) \in Seq(PathEvent \cup {Dropped})
    BY <1>0, <1>1, HeadTailProperties
  <1>2. ASSUME buf # <<>>, event # Dropped PROVE event.pid \in Pids
    BY <1>0, <1>2, HeadIsEvent
  <1>3. <<>> \in Seq(PathEvent) /\ <<>> \in Seq(PathEvent \cup {Dropped}) /\ Len(<<>>) = 0
    OBVIOUS
  <1>4. CASE Others
    <2>1. UNCHANGED <<runs, opts, doing, buf, lastPID, procName, autolink, output>>
      BY <1>4 DEF Others
    <2>2. /\ deeds' \in Nat /\ suspended' \subseteq Pids /\ \A path \in fs' : IsPath(path)
          /\ queue' \in Seq(PathEvent) /\ posted' \in Seq(PathEvent) /\ Len(queue') <= Depth
      <3>1. ASSUME NEW p \in Pids, NEW f \in Files, CreateFile(p, f) \/ DeleteFile(p, f)
            PROVE  /\ deeds' \in Nat /\ suspended' \subseteq Pids /\ \A path \in fs' : IsPath(path)
                   /\ queue' \in Seq(PathEvent) /\ posted' \in Seq(PathEvent) /\ Len(queue') <= Depth
        <4>1. /\ IsPath(<<f>>) /\ <<f>> \in Path /\ Len(<<f>>) = 1
          BY PathsOfOne
        <4>2. PICK type \in {"create", "delete"} : Post(type, p, <<f>>)
          BY <3>1 DEF CreateFile, DeleteFile
        <4>3. deeds' = deeds + 1 /\ suspended' = suspended /\ fs' \subseteq fs \cup {<<f>>}
          BY <3>1 DEF CreateFile, DeleteFile, Other
        <4>4. queue' \in Seq(PathEvent) /\ posted' \in Seq(PathEvent) /\ Len(queue') <= Depth
          BY <1>0, <4>1, <4>2, PostTyped
        <4>5. \A path \in fs' : IsPath(path)
          BY <1>0, <4>1, <4>3
        <4> QED  BY <1>0, <4>3, <4>4, <4>5
      <3>2. ASSUME NEW p \in Pids, ExitProcess(p) \/ \E program \in Programs : Spawn(p, program)
            PROVE  /\ deeds' \in Nat /\ suspended' \subseteq Pids /\ \A path \in fs' : IsPath(path)
                   /\ queue' \in Seq(PathEvent) /\ posted' \in Seq(PathEvent) /\ Len(queue') <= Depth
        BY <1>0, <3>2 DEF ExitProcess, Spawn, Other
      <3> QED  BY <1>4, <3>1, <3>2 DEF Others
    <2> QED  BY <1>0, <2>1, <2>2 DEF FilemonTyped
  <1>5. CASE Start \/ ReadOn
    BY <1>0, <1>5 DEF Start, ReadOn, FilemonTyped, fseventVars
  <1>6. CASE Read
    <2>1. /\ buf' = (IF overflow THEN <<Dropped>> ELSE <<>>) \o queue /\ queue' = <<>> /\ doing' = "event"
          /\ UNCHANGED <<fs, suspended, posted, deeds, runs, opts, lastPID>>
      BY <1>6 DEF Read
    <2>2. buf' \in Seq(PathEvent \cup {Dropped})
      <3>1. queue \in Seq(PathEvent \cup {Dropped})
        BY <1>0
      <3>2. <<Dropped>> \in Seq(PathEvent \cup {Dropped})
        OBVIOUS
      <3>3. (IF overflow THEN <<Dropped>> ELSE <<>>) \in Seq(PathEvent \cup {Dropped})
        BY <1>3, <3>2
      <3> QED  BY <2>1, <3>1, <3>3, ConcatProperties
    <2> QED  BY <1>0, <1>3, <2>1, <2>2 DEF FilemonTyped
  <1>7. CASE EventsDropped
    BY <1>0, <1>3, <1>7 DEF EventsDropped, FilemonTyped, fseventVars
  <1>8. CASE ShowEvent
    <2>1. /\ UNCHANGED <<fs, suspended, queue, posted, deeds, runs, opts>>
          /\ buf # <<>> /\ event # Dropped /\ lastPID' = event.pid
          /\ buf' = Tail(buf) \/ buf' = buf
          /\ doing' \in {"event", "link", "stop"}
      BY <1>8 DEF ShowEvent, GetProcName, Done, fseventVars
    <2> QED  BY <1>0, <1>1, <1>2, <2>1 DEF FilemonTyped
  <1>9. CASE AutoLink
    <2>1. /\ doing = "link" /\ Post("create", Self, linkName) /\ fs' = fs \cup {linkName}
          /\ UNCHANGED <<suspended, deeds, runs, opts, lastPID>>
          /\ buf' = Tail(buf) \/ buf' = buf
          /\ doing' \in {"event", "stop"}
      BY <1>9 DEF AutoLink, AfterLink, Done, At
    <2>2. IsPath(linkName) /\ linkName \in Path
      BY <1>0, <2>1, LinkIsPath, LinkHasTwo
    <2>3. buf # <<>>
      BY <1>0, <2>1 DEF FilemonShape
    <2>4. queue' \in Seq(PathEvent) /\ posted' \in Seq(PathEvent) /\ Len(queue') <= Depth
      <3> HIDE DEF linkName
      <3> QED  BY <1>0, <2>1, <2>2, PostTyped
    <2>5. \A path \in fs' : IsPath(path)
      <3> HIDE DEF linkName
      <3> QED  BY <1>0, <2>1, <2>2
    <2> QED  BY <1>0, <1>1, <2>1, <2>3, <2>4, <2>5 DEF FilemonTyped
  <1>10. CASE LinkWarning \/ AutoStop
    <2>1. /\ UNCHANGED <<fs, queue, posted, deeds, runs, opts, lastPID>>
          /\ doing \in {"link", "stop"} /\ doing' \in {"event", "stop"}
          /\ buf' = Tail(buf) \/ buf' = buf
          /\ suspended' = suspended \/ suspended' = suspended \cup {event.pid}
      BY <1>10 DEF LinkWarning, AutoStop, AfterLink, Done, At, fseventVars
    <2>2. buf # <<>> /\ event # Dropped
      BY <1>0, <2>1 DEF FilemonShape
    <2> QED  BY <1>0, <1>1, <1>2, <2>1, <2>2 DEF FilemonTyped
  <1>11. CASE Quit
    BY <1>0, <1>3, <1>11 DEF Quit, FilemonTyped
  <1> QED  BY <1>4, <1>5, <1>6, <1>7, <1>8, <1>9, <1>10, <1>11 DEF FilemonNext, FilemonStep

\* filemon is well typed, whatever happens to the files it watches.
LEMMA FilemonIsTyped == FilemonSpec => []FilemonTypeOK
  <1>1. FilemonInit => FilemonTyped
    <2>1. Len(<<>>) = 0 /\ <<>> \in Seq(PathEvent) /\ <<>> \in Seq(PathEvent \cup {Dropped})
      OBVIOUS
    <2>2. Depth \in Nat /\ Commands \subseteq Option
      BY FilemonAssumption DEF FilemonAssumption
    <2> QED  BY <2>1, <2>2 DEF FilemonInit, FilemonTyped
  <1>2. FilemonInv /\ FilemonTyped /\ [FilemonNext]_filemonVars => FilemonTyped'
    <2>1. FilemonTyped /\ UNCHANGED filemonVars => FilemonTyped'
      BY DEF FilemonTyped, filemonVars, fseventVars
    <2> QED  BY <2>1, FilemonTypedStep
  <1>3. FilemonInv /\ FilemonTyped => FilemonTypeOK
    <2> SUFFICES ASSUME FilemonInv, FilemonTyped PROVE FilemonTypeOK
      OBVIOUS
    <2>1. \A e \in PathEvent : IsEvent(e)
      BY DEF PathEvent, Event, IsEvent
    <2>2. \A s \in Seq(PathEvent) : \A i \in DOMAIN s : IsEvent(s[i])
      BY <2>1
    <2>3. \A i \in DOMAIN buf : buf[i] = Dropped \/ IsEvent(buf[i])
      <3>1. \A i \in DOMAIN buf : buf[i] \in PathEvent \cup {Dropped}
        BY DEF FilemonTyped
      <3> QED  BY <2>1, <3>1
    <2>4. queue \in Seq(PathEvent) /\ posted \in Seq(PathEvent)
      BY DEF FilemonTyped
    <2>5. \A s \in {queue, posted} : \A i \in DOMAIN s : IsEvent(s[i])
      BY <2>2, <2>4
    <2> QED  BY <2>3, <2>5 DEF FilemonInv, FilemonShape, FilemonTyped, FilemonTypeOK, Names
  <1> QED  BY <1>1, <1>2, <1>3, FilemonInvariant, PTL DEF FilemonSpec

\* netbottom: a block that waits is of a source that was reported.
LEMMA NetIsTyped == NetSpec => []NetTypeOK
  <1>1. NetInv => NetTypeOK
    <2> SUFFICES ASSUME NetInv PROVE NetTypeOK
      OBVIOUS
    <2>1. ASSUME NEW i \in DOMAIN mainQueue
          PROVE  \/ mainQueue[i] \in [block : {"callback"}, source : reported]
                 \/ mainQueue[i] \in [block : {"description"}, source : reported, state : TcpStates]
      <3>1. mainQueue[i] \in Block /\ mainQueue[i].source \in reported
        BY DEF NetInv, OneBlockEach
      <3> QED  BY <3>1 DEF Block
    <2>2. /\ DOMAIN pidNetworkInfos = 1 .. Len(pidNetworkInfos)
          /\ \A k \in DOMAIN pidNetworkInfos : pidNetworkInfos[k] \in Slot
      BY DEF NetInv
    <2> QED  BY <2>1, <2>2 DEF NetInv, NetTypeOK, Slot
  <1> QED  BY <1>1, NetInvariant, PTL

\* jurple_console: the buffer of a message is never written beyond its end.
JurpleTyped ==
    /\ device \in [Devices -> {"new", "in", "out"}]
    /\ notices \in Seq([msgType : {1, 2}, device : Devices])
    /\ relay \in {"loop", "exit"} \cup Devices
    /\ stream \in Seq([byte : 1 .. MaxMessages, length : 1 .. BUFSIZE])
    /\ sent \in 0 .. MaxMessages
    /\ relayBuf \in [1 .. BUFSIZE -> 0 .. MaxMessages]
    /\ printed \in Seq(1 .. Garbage) /\ received \in Seq(1 .. MaxMessages)

\* What is printed of a buffer has no 0 in it.
LEMMA StringsAre ==
    ASSUME NEW b \in [1 .. BUFSIZE -> 0 .. MaxMessages]
    PROVE  Strings(b) \subseteq Seq(1 .. Garbage)
  <1>0. BUFSIZE \in Nat \ {0} /\ MaxMessages \in Nat /\ Garbage \in 1 .. Garbage
        /\ \A c \in 0 .. MaxMessages : c # 0 => c \in 1 .. Garbage
    BY JurpleAssumption DEF JurpleAssumption, Garbage
  <1>1. DOMAIN b = 1 .. BUFSIZE /\ \A k \in 1 .. BUFSIZE : b[k] # 0 => b[k] \in 1 .. Garbage
    BY <1>0
  <1>2. CASE \E k \in DOMAIN b : b[k] = 0
    <2> DEFINE First(k) == b[k] = 0 /\ \A j \in 1 .. k - 1 : b[j] # 0
               z == CHOOSE k \in DOMAIN b : First(k)
               Zs == {k \in 1 .. BUFSIZE : b[k] = 0}
    <2>1. \E k \in DOMAIN b : First(k)
      <3>1. Zs \subseteq Nat /\ Zs # {}
        BY <1>0, <1>1, <1>2
      <3>2. PICK k \in Zs : \A j \in Zs : k <= j
        <4> HIDE DEF Zs
        <4> QED  BY <3>1, LeastElement
      <3>3. \A j \in 1 .. k - 1 : j \in 1 .. BUFSIZE /\ ~(k <= j)
        BY <1>0, <3>2
      <3>4. First(k)
        BY <3>2, <3>3
      <3> QED  BY <1>1, <3>2, <3>4
    <2>2. z \in DOMAIN b /\ First(z)
      <3> HIDE DEF First
      <3> QED  BY <2>1
    <2>3. Strings(b) = {SubSeq(b, 1, z - 1)}
      BY <1>2 DEF Strings
    <2> HIDE DEF z
    <2>4. z \in Nat /\ \A i \in 1 .. z - 1 : i \in 1 .. BUFSIZE
      BY <1>0, <1>1, <2>2
    <2>5. z - 1 \in Int /\ 1 \in Int /\ \A i \in 1 .. z - 1 : b[i] \in 1 .. Garbage
      BY <1>1, <2>2, <2>4
    <2>6. SubSeq(b, 1, z - 1) \in Seq(1 .. Garbage)
      BY <2>5, SubSeqProperties
    <2> QED  BY <2>3, <2>6
  <1>3. CASE ~\E k \in DOMAIN b : b[k] = 0
    <2>1. b \in [1 .. BUFSIZE -> 1 .. Garbage]
      BY <1>1, <1>3
    <2>2. b \in Seq(1 .. Garbage)
      BY <1>0, <2>1
    <2>3. Append(b, Garbage) \in Seq(1 .. Garbage)
      BY <1>0, <2>2, AppendProperties
    <2> QED  BY <1>3, <2>2, <2>3 DEF Strings
  <1> QED  BY <1>2, <1>3

\* A message lies within the buffer, and what is printed of it has bytes of messages.
LEMMA ReceiveTyped ==
    ASSUME JurpleTyped, Receive
    PROVE  JurpleTyped'
  <1> DEFINE m == Head(stream)
             b == [k \in DOMAIN relayBuf |-> IF k <= m.length THEN m.byte ELSE relayBuf[k]]
  <1>0. BUFSIZE \in Nat \ {0} /\ MaxMessages \in Nat
    BY JurpleAssumption DEF JurpleAssumption
  <1>1. /\ UNCHANGED <<device, notices, relay, sent>> /\ stream # <<>> /\ stream' = Tail(stream)
        /\ relayBuf' = ClearedAfter(b) /\ received' = received \o Times(m.length, m.byte)
        /\ \E out \in Strings(b) : printed' = printed \o out
    BY DEF Receive
  <1>2. m.byte \in 1 .. MaxMessages /\ m.length \in 1 .. BUFSIZE
        /\ Tail(stream) \in Seq([byte : 1 .. MaxMessages, length : 1 .. BUFSIZE])
    <2>1. m \in [byte : 1 .. MaxMessages, length : 1 .. BUFSIZE]
          /\ Tail(stream) \in Seq([byte : 1 .. MaxMessages, length : 1 .. BUFSIZE])
      BY <1>1, HeadTailProperties DEF JurpleTyped
    <2> QED  BY <2>1
  <1>3. b \in [1 .. BUFSIZE -> 0 .. MaxMessages]
    <2>1. m.byte \in 0 .. MaxMessages
      BY <1>0, <1>2
    <2> QED  BY <2>1 DEF JurpleTyped
  <1> HIDE DEF b, m
  <1>4. relayBuf' \in [1 .. BUFSIZE -> 0 .. MaxMessages]
    BY <1>0, <1>1, <1>3 DEF ClearedAfter
  <1>5. received' \in Seq(1 .. MaxMessages)
    <2>1. Times(m.length, m.byte) \in [1 .. m.length -> 1 .. MaxMessages] /\ m.length \in Nat
      BY <1>0, <1>2 DEF Times
    <2>2. PICK S : S = 1 .. MaxMessages
      OBVIOUS
    <2>3. Times(m.length, m.byte) \in Seq(S) /\ received \in Seq(S)
      <3>1. received \in Seq(S)
        BY <2>2 DEF JurpleTyped
      <3>2. PICK n, t : n = m.length /\ t = Times(m.length, m.byte)
        OBVIOUS
      <3>3. n \in Nat /\ t \in [1 .. n -> S]
        BY <2>1, <2>2, <3>2
      <3>4. t \in Seq(S)
        BY <3>3
      <3> QED  BY <3>1, <3>2, <3>4
    <2>4. received' \in Seq(S)
      BY <1>1, <2>3, ConcatProperties
    <2> QED  BY <2>2, <2>4
  <1>6. printed' \in Seq(1 .. Garbage)
    <2>1. PICK S : S = 1 .. Garbage
      OBVIOUS
    <2>2. PICK out \in Seq(S) : printed' = printed \o out
      BY <1>1, <1>3, <2>1, StringsAre
    <2>3. printed \in Seq(S)
      BY <2>1 DEF JurpleTyped
    <2>4. printed' \in Seq(S)
      BY <2>2, <2>3, ConcatProperties
    <2> QED  BY <2>1, <2>4
  <1> QED  BY <1>1, <1>2, <1>4, <1>5, <1>6 DEF JurpleTyped, Garbage

\* Devices coming and going, and the relay, keep it.
LEMMA JurpleTypedStep == JurpleTyped /\ [JurpleNext]_jurpleVars => JurpleTyped'
  <1> SUFFICES ASSUME JurpleTyped, [JurpleNext]_jurpleVars PROVE JurpleTyped'
    OBVIOUS
  <1> DEFINE Notice == [msgType : {1, 2}, device : Devices]
             Logged == [byte : 1 .. MaxMessages, length : 1 .. BUFSIZE]
  <1>0. /\ BUFSIZE \in Nat \ {0} /\ MaxMessages \in Nat
        /\ device \in [Devices -> {"new", "in", "out"}] /\ notices \in Seq(Notice)
        /\ relay \in {"loop", "exit"} \cup Devices /\ stream \in Seq(Logged) /\ sent \in 0 .. MaxMessages
        /\ relayBuf \in [1 .. BUFSIZE -> 0 .. MaxMessages]
        /\ printed \in Seq(1 .. Garbage) /\ received \in Seq(1 .. MaxMessages)
    BY JurpleAssumption DEF JurpleAssumption, JurpleTyped
  <1>1. CASE Receive
    BY <1>1, ReceiveTyped
  <1>2. ASSUME notices # <<>>
        PROVE  Tail(notices) \in Seq(Notice) /\ Head(notices).device \in Devices
    <2>1. Tail(notices) \in Seq(Notice) /\ Head(notices) \in Notice
      <3> HIDE DEF Notice
      <3> QED  BY <1>0, <1>2, HeadTailProperties
    <2> QED  BY <2>1
  <1>3. CASE Connect
    <2>1. /\ notices # <<>> /\ notices' = Tail(notices) /\ relay' = Head(notices).device
          /\ relayBuf' = Zeros /\ stream' = <<>> /\ received' = <<>> /\ printed' = <<>>
          /\ UNCHANGED <<device, sent>>
      BY <1>3 DEF Connect
    <2>2. Zeros \in [1 .. BUFSIZE -> 0 .. MaxMessages]
      BY <1>0 DEF Zeros
    <2>3. /\ <<>> \in Seq(Logged) /\ <<>> \in Seq(1 .. Garbage) /\ <<>> \in Seq(1 .. MaxMessages)
      OBVIOUS
    <2> QED  BY <1>0, <1>2, <2>1, <2>2, <2>3 DEF JurpleTyped, Garbage
  <1>4. CASE CallbackOther \/ ConnectFails \/ ReceiveEnd
    <2>1. /\ UNCHANGED <<device, stream, sent, bufVars>>
          /\ notices' = notices \/ (notices # <<>> /\ notices' = Tail(notices))
          /\ relay' \in {relay, "loop", "exit"}
      BY <1>4 DEF CallbackOther, ConnectFails, ReceiveEnd
    <2> QED  BY <1>0, <1>2, <2>1 DEF JurpleTyped, bufVars, Garbage
  <1>5. CASE Send
    <2>1. /\ sent < MaxMessages /\ sent' = sent + 1 /\ UNCHANGED <<device, notices, relay, bufVars>>
          /\ \E n \in 1 .. BUFSIZE : stream' = Append(stream, [byte |-> sent', length |-> n])
      BY <1>5 DEF Send
    <2>2. sent' \in 1 .. MaxMessages /\ sent' \in 0 .. MaxMessages
      BY <1>0, <2>1
    <2>3. PICK e \in Logged : stream' = Append(stream, e)
      BY <2>1, <2>2
    <2>4. stream' \in Seq(Logged)
      <3> HIDE DEF Logged
      <3> QED  BY <1>0, <2>3, AppendProperties
    <2> QED  BY <1>0, <2>1, <2>2, <2>4 DEF JurpleTyped, bufVars, Garbage
  <1>6. CASE \E d \in Devices : Attach(d) \/ Detach(d)
    <2>1. PICK d \in Devices, to \in {"in", "out"}, n \in Notice :
            /\ device' = [device EXCEPT ![d] = to] /\ notices' = Append(notices, n)
            /\ UNCHANGED <<relay, stream, sent, bufVars>>
      <3>1. PICK d \in Devices : Attach(d) \/ Detach(d)
        BY <1>6
      <3>2. /\ [msgType |-> 1, device |-> d] \in Notice
            /\ [msgType |-> 2, device |-> d] \in Notice
        OBVIOUS
      <3>3. \/ /\ device' = [device EXCEPT ![d] = "in"]
               /\ notices' = Append(notices, [msgType |-> 1, device |-> d])
            \/ /\ device' = [device EXCEPT ![d] = "out"]
               /\ notices' = Append(notices, [msgType |-> 2, device |-> d])
        BY <3>1 DEF Attach, Detach, Moves
      <3>4. UNCHANGED <<relay, stream, sent, bufVars>>
        BY <3>1 DEF Attach, Detach, Moves
      <3> HIDE DEF Notice
      <3> QED  BY <3>2, <3>3, <3>4
    <2>2. notices' \in Seq(Notice)
      <3> HIDE DEF Notice
      <3> QED  BY <1>0, <2>1, AppendProperties
    <2> QED  BY <1>0, <2>1, <2>2 DEF JurpleTyped, bufVars, Garbage
  <1>7. CASE UNCHANGED jurpleVars
    BY <1>7 DEF jurpleVars, bufVars, JurpleTyped, Garbage
  <1> QED  BY <1>1, <1>3, <1>4, <1>5, <1>6, <1>7 DEF JurpleNext, JurpleStep

\* jurple_console is well typed.
LEMMA JurpleIsTyped == JurpleSpec => []JurpleTypeOK
  <1>1. JurpleInit => JurpleTyped
    <2> SUFFICES ASSUME JurpleInit PROVE JurpleTyped
      OBVIOUS
    <2>1. BUFSIZE \in Nat \ {0} /\ MaxMessages \in Nat
      BY JurpleAssumption DEF JurpleAssumption
    <2>2. Zeros \in [1 .. BUFSIZE -> 0 .. MaxMessages]
      BY <2>1 DEF Zeros
    <2> QED  BY <2>1, <2>2 DEF JurpleInit, JurpleTyped
  <1>2. JurpleTyped => JurpleTypeOK
    <2> SUFFICES ASSUME JurpleTyped PROVE JurpleTypeOK
      OBVIOUS
    <2>1. \A i \in DOMAIN notices : notices[i] \in [msgType : {1, 2}, device : Devices]
      <3>1. PICK S : S = [msgType : {1, 2}, device : Devices]
        OBVIOUS
      <3>2. notices \in Seq(S)
        BY <3>1 DEF JurpleTyped
      <3>3. \A i \in DOMAIN notices : notices[i] \in S
        BY <3>2, Queue
      <3> QED  BY <3>1, <3>3
    <2>2. \A i \in DOMAIN stream : stream[i] \in [byte : 1 .. MaxMessages, length : 1 .. BUFSIZE]
      <3>1. PICK S : S = [byte : 1 .. MaxMessages, length : 1 .. BUFSIZE]
        OBVIOUS
      <3>2. stream \in Seq(S)
        BY <3>1 DEF JurpleTyped
      <3>3. \A i \in DOMAIN stream : stream[i] \in S
        BY <3>2, Queue
      <3> QED  BY <3>1, <3>3
    <2>3. \A i \in DOMAIN printed : printed[i] \in 1 .. Garbage
      BY Queue DEF JurpleTyped
    <2>4. \A i \in DOMAIN received : received[i] \in 1 .. MaxMessages
      BY Queue DEF JurpleTyped
    <2> QED  BY <2>1, <2>2, <2>3, <2>4 DEF JurpleTyped, JurpleTypeOK
  <1> QED  BY <1>1, <1>2, JurpleTypedStep, PTL DEF JurpleSpec

\* The kernel's buffers hold no more than they can.
BpfRoom ==
    /\ devNumber \in 0 .. BpfDevices /\ frames \in 0 .. MaxFrames
    /\ Extent(store) <= BufLen /\ Extent(hold) <= BufLen

\* A packet is stored only where there is room for it.
LEMMA BpfRoomStep ==
    ASSUME BpfInv, BpfRoom, BpfNext
    PROVE  BpfRoom'
  <1>0. /\ BpfDevices \in Nat /\ MaxFrames \in Nat /\ BufLen \in Nat /\ BufLen > HdrLen
        /\ devNumber \in 0 .. BpfDevices /\ frames \in 0 .. MaxFrames
        /\ Extent(store) <= BufLen /\ Extent(hold) <= BufLen
    BY BpfAssumption DEF BpfAssumption, BpfRoom
  <1>1. Extent(<<>>) <= BufLen
    BY <1>0 DEF Extent
  <1>2. CASE Capture
    <2>1. frames < MaxFrames /\ frames' = frames + 1 /\ devNumber' = devNumber
      BY <1>2 DEF Capture
    <2>2. PICK f \in Frames :
             \/ UNCHANGED <<store, hold>>
             \/ Extent(Append(store, f)) <= BufLen /\ store' = Append(store, f) /\ hold' = hold
             \/ hold' = store /\ store' = <<f>>
      BY <1>2 DEF Capture
    <2>3. Extent(<<f>>) <= BufLen
      <3>1. f \in Frame /\ <<f>> \in Seq(Frame) /\ Len(<<f>>) = 1 /\ <<f>>[1] = f /\ <<f>> # <<>>
        BY BpfAssumption DEF BpfAssumption
      <3>2. OffsetsIn(<<f>>)[1] = 0
        <4>1. 1 \in 1 .. Len(<<f>>)
          BY <3>1
        <4>2. \A i \in 1 .. Len(<<f>>) : i = 1 => OffsetsIn(<<f>>)[i] = 0
          BY <3>1, OffsetsStep
        <4> QED  BY <4>1, <4>2
      <3>3. Extent(<<f>>) = 0 + HdrLen + CapLen(f)
        BY <3>1, <3>2 DEF Extent
      <3>4. f.size \in Nat
        BY <3>1 DEF Frame
      <3> QED  BY <1>0, <3>3, <3>4 DEF CapLen, HdrLen
    <2>4. Extent(store') <= BufLen /\ Extent(hold') <= BufLen
      BY <1>0, <2>2, <2>3
    <2>5. frames' \in 0 .. MaxFrames
      BY <1>0, <2>1
    <2>6. Extent(store)' = Extent(store') /\ Extent(hold)' = Extent(hold')
      BY DEF Extent, OffsetsIn
    <2> QED  BY <1>0, <2>1, <2>4, <2>5, <2>6 DEF BpfRoom
  <1>3. CASE TryDevice
    <2>1. devNumber < BpfDevices /\ devNumber' \in {devNumber, devNumber + 1} /\ UNCHANGED deviceVars
      BY <1>3 DEF TryDevice
    <2>2. devNumber' \in 0 .. BpfDevices
      BY <1>0, <2>1
    <2> QED  BY <1>0, <2>1, <2>2 DEF BpfRoom, deviceVars
  <1>4. CASE NoDevice \/ SetOptions \/ CheckDlt \/ InstallFilterFails \/ ReadPacketsFails \/ WalkPacket \/ WalkEnd
    <2>1. UNCHANGED <<devNumber, deviceVars>>
      BY <1>4 DEF NoDevice, SetOptions, CheckDlt, InstallFilterFails, ReadPacketsFails, WalkPacket, WalkEnd
    <2> QED  BY <1>0, <2>1 DEF BpfRoom, deviceVars
  <1>5. CASE InstallFilter \/ ReadPackets
    <2>1. UNCHANGED <<devNumber, frames>> /\ store' \in {<<>>, store} /\ hold' \in {<<>>, hold}
      BY <1>5 DEF InstallFilter, ReadPackets
    <2>2. Extent(store') <= BufLen /\ Extent(hold') <= BufLen
      BY <1>0, <1>1, <2>1
    <2> QED  BY <1>0, <2>1, <2>2 DEF BpfRoom
  <1> QED  BY <1>2, <1>3, <1>4, <1>5 DEF BpfNext

\* The bpf example is well typed.
LEMMA BpfIsTyped == BpfSpec => []BpfTypeOK
  <1>1. BpfInit => BpfInv /\ BpfRoom
    <2> SUFFICES ASSUME BpfInit PROVE BpfInv /\ BpfRoom
      OBVIOUS
    <2>1. <<>> \in Seq(Frames)
      BY EmptySeq
    <2>2. BpfDevices \in Nat /\ MaxFrames \in Nat /\ BufLen \in Nat /\ Extent(<<>>) = 0
      BY BpfAssumption DEF BpfAssumption, Extent
    <2>3. BpfInv
      BY <2>1 DEF BpfInit, BpfInv
    <2>4. Extent(store) = 0 /\ Extent(hold) = 0 /\ devNumber = 0 /\ frames = 0
      BY <2>2 DEF BpfInit
    <2> QED  BY <2>2, <2>3, <2>4 DEF BpfRoom
  <1>2. BpfInv /\ BpfRoom /\ [BpfNext]_bpfVars => BpfRoom'
    <2>1. BpfRoom /\ UNCHANGED bpfVars => BpfRoom'
      BY DEF BpfRoom, bpfVars
    <2> QED  BY <2>1, BpfRoomStep
  <1>3. BpfInv /\ BpfRoom => BpfTypeOK
    <2> SUFFICES ASSUME BpfInv, BpfRoom PROVE BpfTypeOK
      OBVIOUS
    <2>1. \A packets \in {store, hold, accepted, chunk, frameLines} : packets \in Seq(Frames)
      BY DEF BpfInv
    <2>2. \A packets \in {store, hold, accepted, chunk, frameLines} :
            \A i \in DOMAIN packets : packets[i] \in Frames
      BY <2>1
    <2> QED  BY <2>2 DEF BpfInv, BpfRoom, BpfTypeOK
  <1> QED  BY <1>1, <1>2, <1>3, BpfStepKeeps, PTL DEF BpfSpec

-----------------------------------------------------------------------------
(* The monitors together.                                                  *)

\* Whatever is watched, what each monitor queues, buffers and remembers is of its
\* kind and within its bounds: the queues of fsevents and of the main queue, the
\* line buffer of the console, the rows of the first lsock, both bpf buffers.
THEOREM MonitorsAreTyped ==
    FilemonSpec /\ NetSpec /\ JurpleSpec /\ OldLsockSpec /\ BpfSpec => []MonitorsTypeOK
  BY FilemonIsTyped, NetIsTyped, JurpleIsTyped, BpfIsTyped, OldInvHolds, PTL DEF MonitorsTypeOK
=============================================================================
