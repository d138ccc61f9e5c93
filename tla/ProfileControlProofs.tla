------------------------ MODULE ProfileControlProofs ------------------------
(***************************************************************************)
(* Proofs about the launcher's choice of a profile.                        *)
(***************************************************************************)
EXTENDS ProfileControl, SequenceTheorems, TLAPS

\* Nobody is forgotten when a profile is used, who used it is in the table.
LEMMA ToFrontKeeps ==
  ASSUME NEW table \in Seq(Profiles), NEW p \in Profiles
  PROVE  /\ ToFront(table, p) \in Seq(Profiles)
         /\ Elements(table) \subseteq Elements(ToFront(table, p))
         /\ p \in Elements(ToFront(table, p))
<1> DEFINE at == IF p \in Elements(table) THEN CHOOSE i \in DOMAIN table : table[i] = p
                 ELSE Len(table) + 1
           new == ToFront(table, p)
           size == IF at \in DOMAIN table THEN Len(table) ELSE at
<1>1. DOMAIN table = 1 .. Len(table) /\ Len(table) \in Nat
  OBVIOUS
<1>2. at \in 1 .. Len(table) + 1 /\ (at \in DOMAIN table => table[at] = p)
  BY <1>1 DEF Elements
<1> HIDE DEF at
<1>3. size \in Nat /\ at <= size /\ DOMAIN table \cup {at} = 1 .. size
  <2>1. CASE at \in DOMAIN table
    <3>1. DOMAIN table \cup {at} = DOMAIN table
      BY <2>1
    <3> QED
      BY <1>1, <1>2, <2>1, <3>1
  <2>2. CASE at \notin DOMAIN table
    <3>1. at = Len(table) + 1
      BY <1>1, <1>2, <2>2
    <3>2. (1 .. Len(table)) \cup {Len(table) + 1} = 1 .. (Len(table) + 1)
      BY <1>1
    <3> QED
      BY <1>1, <2>2, <3>1, <3>2
  <2> QED
    BY <2>1, <2>2
<1>4. new = [i \in 1 .. size |->
               IF i = 1 THEN p ELSE IF i <= at THEN table[i - 1] ELSE table[i]]
  BY <1>3 DEF ToFront, at
<1> HIDE DEF new, size
<1>5. new \in Seq(Profiles)
  <2>1. ASSUME NEW i \in 1 .. size  PROVE new[i] \in Profiles
    <3>1. i <= at /\ i # 1 => i - 1 \in 1 .. Len(table)
      BY <1>1, <1>2, <1>3
    <3>2. ~(i <= at) => i \in 1 .. Len(table)
      BY <1>1, <1>2, <1>3
    <3> QED
      BY <1>1, <1>4, <3>1, <3>2
  <2>2. new \in [1 .. size -> Profiles]
    BY <1>4, <2>1
  <2> QED
    BY <1>3, <2>2
<1>6. DOMAIN new = 1 .. size /\ p \in Elements(new)
  <2>1. 1 \in 1 .. size
    BY <1>1, <1>2, <1>3
  <2> QED
    BY <1>4, <2>1 DEF Elements
<1>7. ASSUME NEW i \in DOMAIN table  PROVE table[i] \in Elements(new)
  <2>1. i \in 1 .. Len(table) /\ i \in 1 .. size
    BY <1>1, <1>3
  <2>2. CASE i < at
    <3>1. i + 1 \in 1 .. size /\ new[i + 1] = table[i]
      BY <1>2, <1>3, <1>4, <2>1, <2>2
    <3> QED
      BY <1>6, <3>1 DEF Elements
  <2>3. CASE i = at
    BY <1>2, <1>6, <2>3
  <2>4. CASE i > at
    <3>1. new[i] = table[i]
      BY <1>2, <1>4, <2>1, <2>4
    <3> QED
      BY <1>6, <2>1, <3>1 DEF Elements
  <2> QED
    BY <1>2, <2>1, <2>2, <2>3, <2>4
<1> QED
  BY <1>5, <1>6, <1>7 DEF new, Elements

Distinct(s) == \A i, j \in DOMAIN s : s[i] = s[j] => i = j

\* Queues without repetitions.
LEMMA AppendDistinct ==
  ASSUME NEW S, NEW s \in Seq(S), NEW x \in S, Distinct(s), x \notin Elements(s)
  PROVE  /\ Distinct(Append(s, x))
         /\ Elements(Append(s, x)) = Elements(s) \cup {x}
<1>1. /\ DOMAIN s = 1 .. Len(s) /\ Len(s) \in Nat
      /\ DOMAIN Append(s, x) = 1 .. Len(s) + 1
      /\ \A i \in 1 .. Len(s) + 1 :
           Append(s, x)[i] = IF i = Len(s) + 1 THEN x ELSE s[i]
  OBVIOUS
<1>2. \A i \in 1 .. Len(s) : s[i] # x
  BY <1>1 DEF Elements
<1>3. ASSUME NEW i \in 1 .. Len(s) + 1, NEW j \in 1 .. Len(s) + 1,
             Append(s, x)[i] = Append(s, x)[j]
      PROVE  i = j
  <2>1. CASE i = Len(s) + 1
    BY <1>1, <1>2, <1>3, <2>1
  <2>2. CASE i \in 1 .. Len(s)
    <3>1. j \in 1 .. Len(s)
      BY <1>1, <1>2, <1>3, <2>2
    <3>2. Append(s, x)[i] = s[i] /\ Append(s, x)[j] = s[j]
      BY <1>1, <2>2, <3>1
    <3> QED
      BY <1>1, <1>3, <2>2, <3>1, <3>2 DEF Distinct
  <2> QED
    BY <1>1, <2>1, <2>2
<1>4. \A y \in Elements(s) : y \in Elements(Append(s, x))
  BY <1>1 DEF Elements
<1>5. x \in Elements(Append(s, x))
  BY <1>1 DEF Elements
<1>6. \A y \in Elements(Append(s, x)) : y \in Elements(s) \/ y = x
  BY <1>1 DEF Elements
<1> QED
  BY <1>1, <1>3, <1>4, <1>5, <1>6 DEF Distinct

LEMMA TailDistinct ==
  ASSUME NEW S, NEW s \in Seq(S), s # <<>>, Distinct(s)
  PROVE  /\ Tail(s) \in Seq(S) /\ Head(s) \in Elements(s)
         /\ Distinct(Tail(s)) /\ Elements(Tail(s)) \subseteq Elements(s)
         /\ Head(s) \notin Elements(Tail(s))
<1>1. /\ DOMAIN s = 1 .. Len(s) /\ Len(s) \in Nat \ {0} /\ Tail(s) \in Seq(S)
      /\ DOMAIN Tail(s) = 1 .. Len(s) - 1 /\ Head(s) = s[1]
      /\ \A i \in 1 .. Len(s) - 1 : Tail(s)[i] = s[i + 1]
  OBVIOUS
<1>2. \A i \in 1 .. Len(s) - 1 : i + 1 \in 1 .. Len(s) /\ i + 1 # 1
  BY <1>1
<1>3. Distinct(Tail(s))
  BY <1>1, <1>2 DEF Distinct
<1>4. Elements(Tail(s)) \subseteq Elements(s) /\ Head(s) \in Elements(s)
  BY <1>1, <1>2 DEF Elements
<1>5. Head(s) \notin Elements(Tail(s))
  BY <1>1, <1>2 DEF Elements, Distinct
<1> QED
  BY <1>1, <1>3, <1>4, <1>5

\* The last element of a queue leaves it last.
LEMMA LastIsKept ==
  ASSUME NEW S, NEW s \in Seq(S), s # <<>>
  PROVE  /\ Len(s) = 1 => Tail(s) = <<>>
         /\ Len(s) # 1 => Tail(s) # <<>> /\ Tail(s)[Len(Tail(s))] = s[Len(s)]
<1> DEFINE t == Tail(s)
<1>1. /\ Len(s) \in Nat \ {0} /\ t \in Seq(S) /\ Len(t) = Len(s) - 1
      /\ \A i \in 1 .. Len(s) - 1 : t[i] = s[i + 1]
  OBVIOUS
<1> HIDE DEF t
<1>2. Len(s) = 1 => t = <<>>
  BY <1>1, EmptySeq
<1>3. ASSUME Len(s) # 1  PROVE t # <<>> /\ t[Len(t)] = s[Len(s)]
  <2>1. Len(t) \in 1 .. Len(s) - 1 /\ Len(t) + 1 = Len(s)
    BY <1>1, <1>3
  <2>2. t # <<>>
    BY <2>1, EmptySeq
  <2> QED
    BY <1>1, <2>1, <2>2
<1> QED
  BY <1>2, <1>3 DEF t

\* What a request adds to the backend.
LEMMA SendAdds ==
  ASSUME NEW b \in Backends, NEW request \in Profiles \cup {Nil, "load"}
  PROVE  LET d == Send(b, request)
         IN /\ d \in Backends
            /\ d.table = b.table /\ d.known = b.known /\ d.kept = b.kept
            /\ request = Nil => d = b
            /\ request = "load" => d.reads = Append(b.reads, "load") /\ d.writes = b.writes
            /\ request \in Profiles => d.reads = b.reads /\ d.writes = Append(b.writes, request)
<1> DEFINE d == Send(b, request)
<1>1. /\ b.reads \in Seq(Profiles \cup {"load", "list"}) /\ b.writes \in Seq(Profiles)
      /\ Nil \notin Profiles /\ Nil # "load" /\ "load" \notin Profiles
  BY LauncherAssumption DEF Backends
<1>2. CASE request = Nil
  BY <1>1, <1>2 DEF Send
<1>3. CASE request = "load"
  <2>1. d = [b EXCEPT !.reads = Append(@, "load")]
    BY <1>1, <1>3 DEF Send
  <2>2. Append(b.reads, "load") \in Seq(Profiles \cup {"load", "list"})
    BY <1>1
  <2> HIDE DEF d
  <2>3. d \in Backends
    BY <2>1, <2>2 DEF Backends
  <2> QED
    BY <1>1, <1>3, <2>1, <2>3 DEF d, Backends
<1>4. CASE request \in Profiles
  <2>1. d = [b EXCEPT !.writes = Append(@, request)]
    BY <1>1, <1>4 DEF Send
  <2>2. Append(b.writes, request) \in Seq(Profiles)
    BY <1>1, <1>4
  <2> HIDE DEF d
  <2>3. d \in Backends
    BY <2>1, <2>2 DEF Backends
  <2> QED
    BY <1>1, <1>4, <2>1, <2>3 DEF d, Backends
<1> QED
  BY <1>2, <1>3, <1>4

\* A save that is asked for is waited for.
LEMMA EnsureIsSound ==
  ASSUME NEW u, NEW b, NEW a, NilIsNoRecord, Agree(u, b, a)
  PROVE  LET v == EnsureProfile(u)
         IN /\ Sound(v, Send(b, u.profile), a)
            /\ v.out = u.profile /\ HasOperation(v, "save")
            /\ v.generation = u.generation /\ v.profile = u.profile
            /\ v.startup = u.startup /\ v.ready = u.ready /\ v.load = u.load
            /\ v.chosen = u.chosen
<1> DEFINE v == EnsureProfile(u)
           d == Send(b, u.profile)
           op == Bind(u, u.profile)
<1>1. u \in UI /\ b \in Backends /\ u.profile \in Profiles
  BY DEF Agree, UI
<1>2. /\ d \in Backends /\ d.table = b.table /\ d.known = b.known
      /\ d.reads = b.reads /\ d.writes = Append(b.writes, u.profile)
  BY <1>1, SendAdds
<1>3. /\ op \in Saves /\ op # Nil /\ op.generation = u.generation /\ op.since = u.chosen
      /\ op.expected = u.profile /\ op.result = "waiting"
  <2>1. <<>> \in Seq(Profiles) /\ u.generation \in Nat /\ u.chosen \in Nat
    BY <1>1 DEF UI
  <2>2. op \in Saves
    BY <1>1, <2>1 DEF Bind, Saves, Operations
  <2> QED
    BY <2>2 DEF Bind, NilIsNoRecord
<1>4. v = [u EXCEPT !.save = op, !.out = u.profile]
  BY DEF EnsureProfile
<1> HIDE DEF v, d, op
<1>5. v \in UI /\ v.save = op /\ v.out = u.profile
  BY <1>1, <1>3, <1>4 DEF UI
<1>6. /\ v.generation = u.generation /\ v.profile = u.profile /\ v.startup = u.startup
      /\ v.locked = u.locked /\ v.ready = u.ready /\ v.editing = u.editing
      /\ v.queue = u.queue /\ v.load = u.load /\ v.list = u.list /\ v.chosen = u.chosen
  BY <1>1, <1>4 DEF UI
<1>7. Counted(v)
  BY <1>1, <1>3, <1>5, <1>6 DEF Agree, Counted, UI
<1>8. Expected(v, d)
  <2>1. d.writes[Len(d.writes)] = u.profile
    BY <1>1, <1>2 DEF Backends
  <2> QED
    BY <1>1, <1>2, <1>3, <1>5, <1>6, <2>1 DEF Agree, Expected
<1>9. LoadIsWanted(v)
  BY <1>1, <1>6 DEF Agree, LoadIsWanted, HasOperation, IsCurrent, UI
<1>10. ReadyIsStored(v, d.table)
  BY <1>2, <1>3, <1>5, <1>6 DEF Agree, ReadyIsStored
<1>11. QueueIsAsked(v, a)
  BY <1>6 DEF Agree, QueueIsAsked
<1>12. HasOperation(v, "save")
  BY <1>3, <1>5, <1>6 DEF HasOperation, IsCurrent, UI
<1> QED
  BY <1>2, <1>5, <1>6, <1>7, <1>8, <1>9, <1>10, <1>11, <1>12
  DEF v, d, Sound, Agree, QueueIsWaitedFor

\* A load that is asked for again is waited for, and the only one.
LEMMA LoadAgainIsSound ==
  ASSUME NEW u, NEW b, NEW a, NilIsNoRecord, Agree(u, b, a), u.startup = "load_failed"
  PROVE  /\ Sound(LoadAgain(u), Send(b, "load"), a)
         /\ LoadAgain(u).out = "load"
<1> DEFINE v == LoadAgain(u)
           d == Send(b, "load")
           op == Bind(u, Nil)
<1>1. u \in UI /\ b \in Backends /\ u.profile \in Profiles
  BY DEF Agree, UI
<1>2. /\ d \in Backends /\ d.table = b.table /\ d.known = b.known
      /\ d.reads = Append(b.reads, "load") /\ d.writes = b.writes
  BY <1>1, SendAdds
<1>3. /\ op \in Loads /\ op # Nil /\ op.generation = u.generation /\ op.since = u.chosen
      /\ op.expected = Nil /\ op.result = "waiting"
  <2>1. <<>> \in Seq(Profiles) /\ u.generation \in Nat /\ u.chosen \in Nat
    BY <1>1 DEF UI
  <2>2. op \in Loads
    BY <2>1 DEF Bind, Loads, Operations
  <2> QED
    BY <2>2 DEF Bind, NilIsNoRecord
<1>4. v = [u EXCEPT !.error = "none", !.resolved = FALSE, !.startup = "loading",
                    !.load = op, !.out = "load"]
  BY DEF LoadAgain, Bind
<1> HIDE DEF v, d, op
<1>5. v \in UI /\ v.load = op /\ v.out = "load" /\ v.startup = "loading"
  BY <1>1, <1>3, <1>4, ZenonT(60) DEF UI
<1>6. /\ v.generation = u.generation /\ v.profile = u.profile
      /\ v.locked = u.locked /\ v.ready = u.ready /\ v.editing = u.editing
      /\ v.queue = u.queue /\ v.save = u.save /\ v.list = u.list /\ v.chosen = u.chosen
  BY <1>1, <1>4 DEF UI
<1>7. Counted(v)
  BY <1>1, <1>3, <1>5, <1>6 DEF Agree, Counted, UI
<1>8. Expected(v, d)
  <2>1. u.load = Nil /\ "load" \notin Elements(b.reads)
    BY DEF Agree, LoadIsWanted, Expected
  <2>2. b.reads \in Seq(Profiles \cup {"load", "list"}) /\ Distinct(b.reads)
    BY <1>1 DEF Agree, Expected, Backends, Distinct
  <2>3. Distinct(d.reads) /\ Elements(d.reads) = Elements(b.reads) \cup {"load"}
    BY <1>2, <2>1, <2>2, AppendDistinct
  <2> QED
    BY <1>1, <1>2, <1>3, <1>5, <1>6, <2>3 DEF Agree, Expected, Distinct
<1>9. LoadIsWanted(v)
  BY <1>1, <1>5, <1>6 DEF Agree, LoadIsWanted
<1>10. ReadyIsStored(v, d.table)
  BY <1>2, <1>3, <1>5, <1>6, LauncherAssumption DEF Agree, ReadyIsStored
<1>11. QueueIsAsked(v, a)
  BY <1>6 DEF Agree, QueueIsAsked
<1>12. HasOperation(v, "load")
  BY <1>3, <1>5, <1>6 DEF HasOperation, IsCurrent, UI
<1> QED
  BY <1>2, <1>5, <1>7, <1>8, <1>9, <1>10, <1>11, <1>12
  DEF v, d, Sound, Agree, QueueIsWaitedFor

\* The launcher v has handled answers of u, and shows something else.
Handled(u, v) ==
  /\ v \in UI /\ v.generation = u.generation /\ v.chosen = u.chosen
  /\ v.load = u.load \/ (v.load = Nil /\ u.load.result # "waiting")
  /\ v.save = u.save \/ (v.save = Nil /\ u.save.result # "waiting")
  /\ v.list = u.list \/ (v.list = Nil /\ u.list.result # "waiting")

LEMMA HandledAgrees ==
  ASSUME NEW u, NEW v, NEW b, NEW a, Agree(u, b, a), Handled(u, v),
         LoadIsWanted(v), QueueIsAsked(v, a),
         v.ready /\ (v.queue # Nil \/ ~v.editing) => v.profile \in Elements(b.table)
  PROVE  Agree(v, b, a)
<1>1. Counted(v)
  BY DEF Agree, Counted, Handled
<1>2. Expected(v, b)
  BY DEF Agree, Expected, Handled
<1>3. ReadyIsStored(v, b.table)
  BY DEF Agree, ReadyIsStored, Handled
<1> QED
  BY <1>1, <1>2, <1>3 DEF Agree, Handled

\* retry_profile_save leaves something to wait for.
LEMMA RetryIsSound ==
  ASSUME NEW u, NEW b, NEW a, NilIsNoRecord, Agree(u, b, a), u.out = Nil
  PROVE  LET v == Retry(u) IN Sound(v, Send(b, v.out), a)
<1>1. u \in UI /\ b \in Backends
  BY DEF Agree
<1>2. CASE HasOperation(u, "load")
  BY <1>1, <1>2, SendAdds DEF Retry, Sound, QueueIsWaitedFor
<1>3. CASE ~HasOperation(u, "load") /\ u.startup = "load_failed"
  BY <1>3, LoadAgainIsSound DEF Retry
<1>4. CASE ~HasOperation(u, "load") /\ u.startup # "load_failed" /\ HasOperation(u, "save")
  BY <1>1, <1>4, SendAdds DEF Retry, Sound, QueueIsWaitedFor
<1>5. CASE ~HasOperation(u, "load") /\ u.startup # "load_failed" /\ ~HasOperation(u, "save")
  <2> DEFINE w == [u EXCEPT !.error = "none"]
  <2>1. /\ Handled(u, w) /\ w.profile = u.profile /\ w.startup = u.startup
        /\ w.locked = u.locked /\ w.ready = u.ready /\ w.editing = u.editing
        /\ w.queue = u.queue /\ w.load = u.load /\ w.generation = u.generation
        /\ w.chosen = u.chosen
    BY <1>1 DEF UI, Handled
  <2>2. Retry(u) = EnsureProfile(w)
    BY <1>5 DEF Retry
  <2> HIDE DEF w
  <2>3. LoadIsWanted(w) /\ QueueIsAsked(w, a)
    BY <2>1 DEF Agree, LoadIsWanted, QueueIsAsked, HasOperation, IsCurrent
  <2>4. Agree(w, b, a)
    BY <2>1, <2>3, HandledAgrees DEF Agree, ReadyIsStored
  <2> QED
    BY <2>2, <2>4, EnsureIsSound
<1> QED
  BY <1>2, <1>3, <1>4, <1>5

\* Resolve leaves everything but the profile and the queued launch.
LEMMA ResolveLeaves ==
  ASSUME NEW u \in UI, NEW p \in Profiles, NEW a, QueueIsAsked(u, a)
  PROVE  LET v == Resolve(u, p)
         IN /\ v \in UI /\ v.profile = p /\ v.startup = "resolved" /\ QueueIsAsked(v, a)
            /\ v.generation = u.generation /\ v.chosen = u.chosen /\ v.out = u.out
            /\ v.load = u.load /\ v.save = u.save /\ v.list = u.list
            /\ v.locked = u.locked /\ v.ready = u.ready /\ v.editing = u.editing
            /\ v.error = u.error /\ (v.queue # Nil => u.queue # Nil)
<1> DEFINE queue == IF u.queue # Nil /\ u.queue.generation = u.generation
                       /\ u.queue.expected = Nil
                    THEN [u.queue EXCEPT !.expected = p] ELSE u.queue
           v == Resolve(u, p)
<1>1. queue \in Launches \cup {Nil}
  BY DEF UI, Launches
<1>2. v = [u EXCEPT !.profile = p, !.resolved = TRUE, !.startup = "resolved",
                    !.queue = queue]
  BY DEF Resolve
<1>3. /\ queue # Nil => u.queue # Nil
      /\ u.queue # Nil => \/ queue = u.queue
                          \/ queue.expected = p /\ u.queue.expected = Nil
  BY DEF UI, Launches
<1> HIDE DEF queue, v
<1>4. v \in UI /\ v.queue = queue
  BY <1>1, <1>2 DEF UI
<1>5. QueueIsAsked(v, a)
  BY <1>2, <1>3, <1>4 DEF QueueIsAsked, UI
<1> QED
  BY <1>2, <1>3, <1>4, <1>5 DEF v, UI

\* An answer to a load.
LEMMA AnswerLoadIsSound ==
  ASSUME NEW u, NEW b, NEW a, NilIsNoRecord, Sound(u, b, a), u.out = Nil
  PROVE  LET v == AnswerLoad(u)
         IN Sound(v, Send(b, v.out), a) /\ v.out \in Profiles \cup {Nil}
<1> DEFINE op == u.load
           w == [u EXCEPT !.load = Nil]
<1>1. u \in UI /\ b \in Backends /\ Agree(u, b, a) /\ QueueIsWaitedFor(u)
  BY DEF Sound, Agree
<1>2. CASE ~Completed(u, "load")
  BY <1>1, <1>2, SendAdds DEF AnswerLoad, Sound
<1>3. CASE Completed(u, "load")
  <2>1. op \in Loads /\ op # Nil /\ op.result # "waiting" /\ op.expected = Nil
    BY <1>1, <1>3 DEF Completed, UI, Agree, Expected
  <2>2. /\ w \in UI /\ w.load = Nil /\ w.out = Nil /\ w.profile \in Profiles
        /\ w.generation = u.generation /\ w.profile = u.profile /\ w.startup = u.startup
        /\ w.locked = u.locked /\ w.ready = u.ready /\ w.editing = u.editing
        /\ w.error = u.error
        /\ w.queue = u.queue /\ w.save = u.save /\ w.list = u.list /\ w.chosen = u.chosen
    BY <1>1 DEF UI
  <2>3. IsCurrent(w, op) <=> HasOperation(u, "load")
    BY <2>1, <2>2 DEF HasOperation, IsCurrent
  <2>4. HasOperation(w, "save") <=> HasOperation(u, "save")
    BY <2>2 DEF HasOperation, IsCurrent
  <2>5. HasOperation(u, "load") \/ u.startup = "load_failed" => ~u.locked \/ u.editing
    BY <1>1 DEF Agree, LoadIsWanted
  <2>6. op.result \in Profiles => op.result \in Elements(b.table)
    BY <1>1, <2>1 DEF Agree, ReadyIsStored
  <2>7. QueueIsAsked(w, a)
    BY <1>1, <2>2 DEF Agree, QueueIsAsked
  <2>8. u.ready /\ (u.queue # Nil \/ ~u.editing) => u.profile \in Elements(b.table)
    BY <1>1 DEF Agree, ReadyIsStored
  <2> HIDE DEF w, op
  <2>9. ASSUME NEW v \in UI, v.generation = u.generation, v.chosen = u.chosen, v.load = Nil,
               v.save = u.save, v.list = u.list, v.startup = "load_failed" => ~v.locked \/ v.editing,
               QueueIsAsked(v, a),
               v.ready /\ (v.queue # Nil \/ ~v.editing) => v.profile \in Elements(b.table)
        PROVE  Agree(v, b, a)
    <3>1. Handled(u, v)
      BY <2>1, <2>9 DEF Handled, op
    <3>2. LoadIsWanted(v)
      BY <2>9 DEF LoadIsWanted, HasOperation
    <3> QED
      BY <1>1, <2>9, <3>1, <3>2, HandledAgrees
  <2>10. Agree(w, b, a)
    BY <2>2, <2>5, <2>7, <2>8, <2>9
  <2>11. CASE ~IsCurrent(w, op)
    <3>1. AnswerLoad(u) = w
      BY <1>3, <2>11 DEF AnswerLoad, w, op
    <3>2. QueueIsWaitedFor(w)
      BY <1>1, <2>2, <2>3, <2>4, <2>11 DEF QueueIsWaitedFor
    <3> QED
      BY <1>1, <2>2, <2>10, <3>1, <3>2, SendAdds DEF Sound
  <2>12. CASE IsCurrent(w, op) /\ op.result = "failed"
    <3> DEFINE v == [FailLoad(w) EXCEPT !.error = "load"]
    <3>1. AnswerLoad(u) = v
      BY <1>3, <2>12 DEF AnswerLoad, w, op
    <3>2. /\ v \in UI /\ v.error = "load" /\ v.load = Nil /\ v.out = Nil
          /\ v.generation = w.generation /\ v.profile = w.profile
          /\ v.locked = w.locked /\ v.ready = w.ready /\ v.editing = w.editing
          /\ v.queue = w.queue /\ v.save = w.save /\ v.list = w.list /\ v.chosen = w.chosen
      BY <2>2 DEF FailLoad, UI
    <3> HIDE DEF v
    <3>3. QueueIsAsked(v, a)
      BY <2>2, <2>7, <3>2 DEF QueueIsAsked
    <3>4. Agree(v, b, a)
      BY <2>2, <2>3, <2>5, <2>8, <2>9, <2>12, <3>2, <3>3
    <3>5. Sound(v, b, a)
      BY <3>2, <3>4 DEF Sound, QueueIsWaitedFor
    <3> QED
      BY <1>1, <3>1, <3>2, <3>5, SendAdds
  <2>13. CASE IsCurrent(w, op) /\ op.result # "failed" /\ w.locked
    <3>1. AnswerLoad(u) = w
      BY <1>3, <2>13 DEF AnswerLoad, w, op
    <3>2. w.editing
      BY <2>2, <2>3, <2>5, <2>13
    <3> QED
      BY <1>1, <2>2, <2>10, <3>1, <3>2, SendAdds DEF Sound, QueueIsWaitedFor
  <2>14. CASE IsCurrent(w, op) /\ op.result \notin {"failed", "empty"} /\ ~w.locked
    <3> DEFINE r == Resolve(w, op.result)
               v == [r EXCEPT !.ready = TRUE, !.error = "none"]
    <3>1. AnswerLoad(u) = v
      BY <1>3, <2>14 DEF AnswerLoad, w, op
    <3>2. op.result \in Profiles
      BY <2>1, <2>14 DEF Loads, Operations
    <3>3. /\ r \in UI /\ r.profile = op.result /\ r.startup = "resolved"
          /\ QueueIsAsked(r, a) /\ r.generation = w.generation /\ r.chosen = w.chosen
          /\ r.out = Nil /\ r.load = Nil /\ r.save = w.save /\ r.list = w.list
      BY <2>2, <2>7, <3>2, ResolveLeaves
    <3> HIDE DEF r
    <3>4. /\ v \in UI /\ v.ready /\ v.profile = r.profile /\ v.startup = r.startup
          /\ v.generation = r.generation /\ v.chosen = r.chosen /\ v.queue = r.queue
          /\ v.out = Nil /\ v.load = Nil /\ v.save = r.save /\ v.list = r.list
      BY <3>3 DEF UI
    <3> HIDE DEF v
    <3>5. QueueIsAsked(v, a)
      BY <3>3, <3>4 DEF QueueIsAsked
    <3>6. Agree(v, b, a)
      BY <2>2, <2>6, <2>9, <3>2, <3>3, <3>4, <3>5
    <3> QED
      BY <1>1, <3>1, <3>4, <3>6, SendAdds DEF Sound, QueueIsWaitedFor
  <2>15. CASE IsCurrent(w, op) /\ op.result = "empty" /\ ~w.locked /\ w.error = "none"
    <3> DEFINE r == Resolve(w, w.profile)
    <3>1. AnswerLoad(u) = EnsureProfile(r)
      BY <1>3, <2>15 DEF AnswerLoad, w, op
    <3>2. /\ r \in UI /\ r.profile = w.profile /\ r.startup = "resolved"
          /\ QueueIsAsked(r, a) /\ r.generation = w.generation /\ r.chosen = w.chosen
          /\ r.load = Nil /\ r.save = w.save /\ r.list = w.list
          /\ r.ready = w.ready /\ r.editing = w.editing /\ (r.queue # Nil => w.queue # Nil)
      BY <2>2, <2>7, ResolveLeaves
    <3> HIDE DEF r
    <3>3. Agree(r, b, a)
      BY <2>2, <2>8, <2>9, <3>2
    <3> QED
      BY <2>2, <3>1, <3>2, <3>3, EnsureIsSound
  <2>16. CASE IsCurrent(w, op) /\ op.result = "empty" /\ ~w.locked /\ w.error # "none"
    <3>1. AnswerLoad(u) = w
      BY <1>3, <2>16 DEF AnswerLoad, w, op
    <3> QED
      BY <1>1, <2>2, <2>10, <2>16, <3>1, SendAdds DEF Sound, QueueIsWaitedFor
  <2> QED
    BY <2>11, <2>12, <2>13, <2>14, <2>15, <2>16
<1> QED
  BY <1>2, <1>3

\* An answer to a save.
LEMMA AnswerSaveIsSound ==
  ASSUME NEW u, NEW b, NEW a, NilIsNoRecord, Sound(u, b, a)
  PROVE  LET v == AnswerSave(u) IN Sound(v, b, a) /\ v.out = u.out
<1> DEFINE op == u.save
           w == [u EXCEPT !.save = Nil]
<1>1. u \in UI /\ b \in Backends /\ Agree(u, b, a) /\ QueueIsWaitedFor(u)
  BY DEF Sound, Agree
<1>2. CASE ~Completed(u, "save")
  BY <1>2 DEF AnswerSave
<1>3. CASE Completed(u, "save")
  <2>1. op \in Saves /\ op # Nil /\ op.result # "waiting" /\ op.expected \in Profiles
    BY <1>1, <1>3 DEF Completed, UI, Agree, Expected
  <2>2. /\ w \in UI /\ w.save = Nil /\ w.out = u.out /\ w.profile \in Profiles
        /\ w.generation = u.generation /\ w.profile = u.profile /\ w.startup = u.startup
        /\ w.locked = u.locked /\ w.ready = u.ready /\ w.editing = u.editing
        /\ w.error = u.error
        /\ w.queue = u.queue /\ w.load = u.load /\ w.list = u.list /\ w.chosen = u.chosen
    BY <1>1 DEF UI
  <2>3. IsCurrent(w, op) <=> HasOperation(u, "save")
    BY <2>1, <2>2 DEF HasOperation, IsCurrent
  <2>4. HasOperation(w, "load") <=> HasOperation(u, "load")
    BY <2>2 DEF HasOperation, IsCurrent
  <2>5. LoadIsWanted(w) /\ QueueIsAsked(w, a)
    BY <1>1, <2>2, <2>4 DEF Agree, LoadIsWanted, QueueIsAsked
  <2>6. op.result = "ok" => op.expected \in Elements(b.table)
    BY <1>1, <2>1 DEF Agree, ReadyIsStored
  <2>7. u.ready /\ (u.queue # Nil \/ ~u.editing) => u.profile \in Elements(b.table)
    BY <1>1 DEF Agree, ReadyIsStored
  <2> HIDE DEF w, op
  <2>8. ASSUME NEW v \in UI, v.generation = u.generation, v.chosen = u.chosen, v.save = Nil,
               v.load = u.load, v.list = u.list, LoadIsWanted(v), QueueIsAsked(v, a),
               v.ready /\ (v.queue # Nil \/ ~v.editing) => v.profile \in Elements(b.table)
        PROVE  Agree(v, b, a)
    <3>1. Handled(u, v)
      BY <2>1, <2>8 DEF Handled, op
    <3> QED
      BY <1>1, <2>8, <3>1, HandledAgrees
  <2>9. CASE ~IsCurrent(w, op)
    <3>1. AnswerSave(u) = w
      BY <1>3, <2>9 DEF AnswerSave, w, op
    <3>2. QueueIsWaitedFor(w)
      BY <1>1, <2>2, <2>3, <2>4, <2>9 DEF QueueIsWaitedFor
    <3> QED
      BY <2>2, <2>5, <2>7, <2>8, <3>1, <3>2 DEF Sound
  <2>10. CASE IsCurrent(w, op) /\ op.result = "failed"
    <3> DEFINE v == [w EXCEPT !.error = "save", !.ready = FALSE]
    <3>1. AnswerSave(u) = v
      BY <1>3, <2>10 DEF AnswerSave, w, op
    <3>2. /\ v \in UI /\ v.error = "save" /\ ~v.ready /\ v.out = w.out /\ v.save = Nil
          /\ v.generation = w.generation /\ v.profile = w.profile /\ v.startup = w.startup
          /\ v.locked = w.locked /\ v.editing = w.editing
          /\ v.queue = w.queue /\ v.load = w.load /\ v.list = w.list /\ v.chosen = w.chosen
      BY <2>2, ZenonT(60) DEF UI
    <3> HIDE DEF v
    <3>3. LoadIsWanted(v) /\ QueueIsAsked(v, a)
      BY <2>5, <3>2 DEF LoadIsWanted, QueueIsAsked, HasOperation, IsCurrent
    <3>4. Agree(v, b, a)
      BY <2>2, <2>8, <3>2, <3>3
    <3> QED
      BY <2>2, <3>1, <3>2, <3>4 DEF Sound, QueueIsWaitedFor
  <2>11. CASE IsCurrent(w, op) /\ op.result = "ok"
    <3> DEFINE r == Resolve(w, w.profile)
               v == [r EXCEPT !.ready = TRUE, !.error = "none",
                              !.cache = ToFront(@, w.profile)]
    <3>1. r.profile = w.profile /\ r.cache = w.cache /\ w.cache \in Seq(Profiles)
      BY <2>2 DEF Resolve, UI
    <3>2. AnswerSave(u) = v
      BY <1>3, <2>11, <3>1 DEF AnswerSave, w, op
    <3>3. /\ r \in UI /\ r.startup = "resolved" /\ QueueIsAsked(r, a)
          /\ r.generation = w.generation /\ r.chosen = w.chosen /\ r.out = w.out
          /\ r.load = w.load /\ r.save = Nil /\ r.list = w.list
          /\ r.locked = w.locked /\ r.editing = w.editing
      BY <2>2, <2>5, ResolveLeaves
    <3>4. ToFront(r.cache, w.profile) \in Seq(Profiles)
      BY <2>2, <3>1, ToFrontKeeps
    <3> HIDE DEF r
    <3>5. /\ v \in UI /\ v.ready /\ v.profile = r.profile /\ v.startup = r.startup
          /\ v.generation = r.generation /\ v.chosen = r.chosen /\ v.queue = r.queue
          /\ v.out = r.out /\ v.load = r.load /\ v.save = Nil /\ v.list = r.list
          /\ v.locked = r.locked /\ v.editing = r.editing
      BY <3>3, <3>4, ZenonT(60) DEF UI
    <3> HIDE DEF v
    <3>6. LoadIsWanted(v) /\ QueueIsAsked(v, a)
      <4>1. HasOperation(v, "load") <=> HasOperation(w, "load")
        BY <2>2, <3>1, <3>3, <3>5 DEF HasOperation, IsCurrent
      <4> QED
        BY <2>2, <2>5, <3>3, <3>5, <4>1 DEF LoadIsWanted, QueueIsAsked
    <3>7. w.profile \in Elements(b.table)
      BY <2>1, <2>6, <2>11, LauncherAssumption DEF IsCurrent
    <3>8. Agree(v, b, a)
      BY <2>2, <2>8, <3>1, <3>3, <3>5, <3>6, <3>7
    <3> QED
      BY <2>2, <3>2, <3>3, <3>5, <3>8 DEF Sound, QueueIsWaitedFor
  <2> QED
    BY <2>1, <2>9, <2>10, <2>11 DEF Saves, Operations
<1> QED
  BY <1>2, <1>3

\* What else a launcher may change without anybody losing what is waited for.
LEMMA ShowsIsSound ==
  ASSUME NEW u, NEW v, NEW b, NEW a, Sound(u, b, a), Handled(u, v),
         v.load = u.load, v.save = u.save, v.profile = u.profile, v.startup = u.startup,
         v.locked = u.locked, v.editing = u.editing, v.queue = u.queue,
         \/ v.ready = u.ready /\ v.error = u.error
         \/ v.ready /\ u.profile \in Elements(b.table)
  PROVE  Sound(v, b, a)
<1>1. /\ HasOperation(v, "load") <=> HasOperation(u, "load")
      /\ HasOperation(v, "save") <=> HasOperation(u, "save")
  BY DEF HasOperation, IsCurrent, Handled
<1>2. LoadIsWanted(v) /\ QueueIsAsked(v, a) /\ QueueIsWaitedFor(v)
  BY <1>1 DEF Sound, Agree, LoadIsWanted, QueueIsAsked, QueueIsWaitedFor, Handled
<1>3. v.ready /\ (v.queue # Nil \/ ~v.editing) => v.profile \in Elements(b.table)
  BY DEF Sound, Agree, ReadyIsStored
<1> QED
  BY <1>2, <1>3, HandledAgrees DEF Sound

LEMMA AnswerListIsSound ==
  ASSUME NEW u, NEW b, NEW a, NilIsNoRecord, Sound(u, b, a)
  PROVE  LET v == AnswerList(u) IN Sound(v, b, a) /\ v.out = u.out
<1> DEFINE op == u.list
           w == [u EXCEPT !.list = Nil]
           v == AnswerList(u)
<1>1. CASE ~Completed(u, "list")
  BY <1>1 DEF AnswerList
<1>2. CASE Completed(u, "list")
  <2>1. u \in UI /\ op \in Saves /\ op.result # "waiting" /\ op.rows \in Seq(Profiles)
    BY <1>2 DEF Sound, Agree, Completed, UI, Saves, Operations
  <2>2. v \in {w, [w EXCEPT !.cache = op.rows]}
    BY <1>2 DEF AnswerList
  <2> HIDE DEF v
  <2>3. /\ Handled(u, v) /\ v.load = u.load /\ v.save = u.save /\ v.profile = u.profile
        /\ v.startup = u.startup /\ v.locked = u.locked /\ v.editing = u.editing
        /\ v.queue = u.queue /\ v.ready = u.ready /\ v.error = u.error /\ v.out = u.out
    BY <2>1, <2>2, ZenonT(60) DEF UI, Handled
  <2> QED
    BY <2>3, ShowsIsSound DEF v
<1> QED
  BY <1>1, <1>2

LEMMA AnswerStatusIsSound ==
  ASSUME NEW u, NEW b, NEW a, Sound(u, b, a), b.known = local.known
  PROVE  LET v == AnswerStatus(u) IN Sound(v, b, a) /\ v.out = u.out
<1> DEFINE v == AnswerStatus(u)
<1>1. CASE u.ready \/ u.profile \notin local.known
  BY <1>1 DEF AnswerStatus
<1>2. CASE ~u.ready /\ u.profile \in local.known
  <2>1. u \in UI /\ u.profile \in Elements(b.table)
    BY <1>2 DEF Sound, Agree
  <2>2. v = [u EXCEPT !.ready = TRUE, !.error = "none"]
    BY <1>2 DEF AnswerStatus
  <2> HIDE DEF v
  <2>3. /\ Handled(u, v) /\ v.load = u.load /\ v.save = u.save /\ v.profile = u.profile
        /\ v.startup = u.startup /\ v.locked = u.locked /\ v.editing = u.editing
        /\ v.queue = u.queue /\ v.ready /\ v.out = u.out
    BY <2>1, <2>2 DEF UI, Handled
  <2> QED
    BY <2>1, <2>3, ShowsIsSound DEF v
<1> QED
  BY <1>1, <1>2

\* Reads of the profile's key are nothing a launcher waits for.
LEMMA RefreshStatusIsSound ==
  ASSUME NEW u, NEW b, NEW a, NEW p \in Profiles, Sound(u, b, a)
  PROVE  Sound(u, RefreshStatus(b, p), a)
<1> DEFINE d == [b EXCEPT !.reads = Append(@, p)]
<1>1. CASE p \in Elements(b.reads)
  BY <1>1 DEF RefreshStatus
<1>2. CASE p \notin Elements(b.reads)
  <2>1. /\ b \in Backends /\ b.reads \in Seq(Profiles \cup {"load", "list"})
        /\ Distinct(b.reads)
    BY DEF Sound, Agree, Expected, Backends, Distinct
  <2>2. /\ Distinct(Append(b.reads, p))
        /\ Elements(Append(b.reads, p)) = Elements(b.reads) \cup {p}
    BY <1>2, <2>1, AppendDistinct
  <2>3. Append(b.reads, p) \in Seq(Profiles \cup {"load", "list"})
    BY <2>1
  <2>4. /\ d \in Backends /\ d.reads = Append(b.reads, p) /\ d.writes = b.writes
        /\ d.table = b.table /\ d.known = b.known
    BY <2>1, <2>3 DEF Backends
  <2>5. p # "load" /\ p # "list"
    BY LauncherAssumption
  <2> HIDE DEF d
  <2>6. Expected(u, d)
    BY <2>2, <2>4, <2>5 DEF Sound, Agree, Expected, Distinct
  <2>7. Sound(u, d, a)
    BY <2>4, <2>6 DEF Sound, Agree
  <2> QED
    BY <1>2, <2>7 DEF RefreshStatus, d
<1> QED
  BY <1>1, <1>2

\* What a choice leaves.
LEMMA SelectLeaves ==
  ASSUME NEW u \in UI, NEW p \in Profiles
  PROVE  LET s == Select(u, p)
         IN /\ s \in UI /\ s.generation = u.generation + 1 /\ s.profile = p
            /\ s.startup = "resolved" /\ s.queue = Nil /\ s.load = u.load
            /\ s.save = u.save /\ s.list = u.list /\ s.ready = u.ready
            /\ s.editing = u.editing /\ s.chosen = u.chosen /\ s.out = u.out
<1> DEFINE s == Select(u, p)
           next == u.generation + 1
<1>1. s = [u EXCEPT !.generation = next, !.profile = p, !.resolved = TRUE,
                    !.startup = "resolved", !.queue = Nil]
  BY DEF Select
<1>2. next \in Nat
  BY DEF UI
<1> HIDE DEF s, next
<1>3. s \in UI
  BY <1>1, <1>2 DEF UI
<1>4. s.generation = next
  BY <1>1 DEF UI
<1> QED
  BY <1>1, <1>3, <1>4 DEF s, next, UI

\* A choice: answers to what was asked before are out of date.
LEMMA ChoiceAgrees ==
  ASSUME NEW u, NEW v \in UI, NEW b, NEW a, NilIsNoRecord, Agree(u, b, a),
         v.generation = u.generation + 1, v.chosen = u.chosen + 1, v.startup = "resolved",
         v.queue = Nil, v.load = u.load, v.save = u.save, v.list = u.list,
         v.ready => v.editing
  PROVE  Agree(v, b, a) /\ ~HasOperation(v, "load") /\ QueueIsWaitedFor(v)
<1>1. u \in UI /\ u.generation \in Nat /\ u.chosen \in Nat
  BY DEF Agree, UI
<1>2. \A op \in {u.load, u.save} : op # Nil => op.generation \in Nat
  BY <1>1 DEF UI, Loads, Saves, Operations
<1>3. Counted(v)
  BY <1>1, <1>2 DEF Agree, Counted
<1>4. ~HasOperation(v, "load")
  BY <1>1, <1>2 DEF Agree, Counted, HasOperation, IsCurrent
<1>5. Expected(v, b)
  BY DEF Agree, Expected
<1>6. LoadIsWanted(v) /\ ReadyIsStored(v, b.table) /\ QueueIsAsked(v, a)
  BY <1>4 DEF Agree, LoadIsWanted, ReadyIsStored, QueueIsAsked
<1> QED
  BY <1>3, <1>4, <1>5, <1>6 DEF Agree, QueueIsWaitedFor

-----------------------------------------------------------------------------
(***************************************************************************)
(* The actions.                                                            *)
(***************************************************************************)
\* What an action ends with: its request is made.
LEMMA HandleIsSound ==
  ASSUME NEW u, Handle(u), Sound(u, Send(local, u.out), asked')
  PROVE  LauncherInv'
<1>1. u \in UI
  BY DEF Sound, Agree
<1>2. /\ Handled(u, ui') /\ ui'.load = u.load /\ ui'.save = u.save
      /\ ui'.profile = u.profile /\ ui'.startup = u.startup /\ ui'.locked = u.locked
      /\ ui'.editing = u.editing /\ ui'.queue = u.queue /\ ui'.ready = u.ready
      /\ ui'.error = u.error /\ ui'.out = Nil
  BY <1>1 DEF Handle, UI, Handled
<1>3. Sound(ui', local', asked')
  BY <1>2, ShowsIsSound DEF Handle
<1> QED
  BY <1>2, <1>3 DEF LauncherInv

\* The answers that a frame finds.
LEMMA PollIsSound ==
  ASSUME NilIsNoRecord, LauncherInv
  PROVE  LET u == AnswerStatus(AnswerList(AnswerSave(AnswerLoad(ui))))
             sent == Send(local, u.out)
         IN /\ Sound(u, sent, asked)
            /\ u.chosen = ui.chosen /\ sent.table = local.table
<1> DEFINE u1 == AnswerLoad(ui)
           u2 == AnswerSave(u1)
           u3 == AnswerList(u2)
           u4 == AnswerStatus(u3)
           sent == Send(local, u1.out)
<1>1. ui \in UI /\ local \in Backends
  BY DEF LauncherInv, Sound, Agree
<1>2. Sound(u1, sent, asked) /\ u1.out \in Profiles \cup {Nil}
  BY AnswerLoadIsSound DEF LauncherInv
<1>3. sent.known = local.known /\ sent.table = local.table
  BY <1>1, <1>2, SendAdds
<1>4. u1.chosen = ui.chosen
  BY <1>1 DEF AnswerLoad, Resolve, FailLoad, EnsureProfile, UI
<1> HIDE DEF u1, sent
<1>5. Sound(u2, sent, asked) /\ u2.out = u1.out
  BY <1>2, AnswerSaveIsSound
<1>6. u2.chosen = u1.chosen
  <2>1. u1 \in UI
    BY <1>2 DEF Sound, Agree
  <2> QED
    BY <2>1 DEF AnswerSave, Resolve, UI
<1> HIDE DEF u2
<1>7. Sound(u3, sent, asked) /\ u3.out = u2.out
  BY <1>5, AnswerListIsSound
<1>8. u3.chosen = u2.chosen
  <2>1. u2 \in UI
    BY <1>5 DEF Sound, Agree
  <2> QED
    BY <2>1 DEF AnswerList, UI
<1> HIDE DEF u3
<1>9. Sound(u4, sent, asked) /\ u4.out = u3.out
  BY <1>3, <1>7, AnswerStatusIsSound
<1>10. u4.chosen = u3.chosen
  <2>1. u3 \in UI
    BY <1>7 DEF Sound, Agree
  <2> QED
    BY <2>1 DEF AnswerStatus, UI
<1> QED
  BY <1>3, <1>4, <1>5, <1>6, <1>7, <1>8, <1>9, <1>10 DEF u1, u2, u3, sent

LEMMA FrameIsSound ==
  ASSUME NilIsNoRecord, LauncherInv, Frame
  PROVE  LauncherInv'
<1> DEFINE u == AnswerStatus(AnswerList(AnswerSave(AnswerLoad(ui))))
           sent == Send(local, u.out)
           pops == u.queue # Nil /\ u.ready
<1>1. Sound(u, sent, asked)
  BY PollIsSound
<1>2. /\ ui' = [u EXCEPT !.queue = IF pops THEN Nil ELSE @, !.out = Nil]
      /\ local' = sent \/ local' = RefreshStatus(sent, u.profile)
      /\ asked' = asked
  BY DEF Frame
<1> HIDE DEF u, sent
<1>3. u \in UI /\ u.profile \in Profiles /\ Agree(u, sent, asked) /\ QueueIsWaitedFor(u)
  BY <1>1 DEF Sound, Agree, UI
<1>4. /\ Handled(u, ui') /\ ui'.load = u.load /\ ui'.save = u.save
      /\ ui'.profile = u.profile /\ ui'.startup = u.startup /\ ui'.locked = u.locked
      /\ ui'.editing = u.editing /\ ui'.ready = u.ready /\ ui'.error = u.error
      /\ ui'.out = Nil /\ ui'.generation = u.generation /\ ui'.chosen = u.chosen
      /\ ui'.queue \in {u.queue, Nil}
  BY <1>2, <1>3 DEF UI, Handled
<1>5. /\ HasOperation(ui', "load") <=> HasOperation(u, "load")
      /\ HasOperation(ui', "save") <=> HasOperation(u, "save")
  BY <1>4 DEF HasOperation, IsCurrent
<1>6. LoadIsWanted(ui') /\ QueueIsAsked(ui', asked) /\ QueueIsWaitedFor(ui')
  BY <1>3, <1>4, <1>5 DEF Agree, LoadIsWanted, QueueIsAsked, QueueIsWaitedFor
<1>7. ui'.ready /\ (ui'.queue # Nil \/ ~ui'.editing) => ui'.profile \in Elements(sent.table)
  BY <1>3, <1>4 DEF Agree, ReadyIsStored
<1>8. Sound(ui', sent, asked)
  BY <1>3, <1>4, <1>6, <1>7, HandledAgrees DEF Sound
<1>9. Sound(ui', RefreshStatus(sent, u.profile), asked)
  BY <1>3, <1>8, RefreshStatusIsSound
<1> QED
  BY <1>2, <1>4, <1>8, <1>9 DEF LauncherInv

LEMMA ClickNameIsSound ==
  ASSUME LauncherInv, ClickName
  PROVE  LauncherInv'
<1> DEFINE v == [ui EXCEPT !.editing = TRUE, !.locked = TRUE]
<1>1. ui \in UI /\ local \in Backends /\ Agree(ui, local, asked) /\ ui.out = Nil
  BY DEF LauncherInv, Sound, Agree
<1>2. Handle(v) /\ asked' = asked
  BY DEF ClickName
<1>3. /\ Handled(ui, v) /\ v.load = ui.load /\ v.profile = ui.profile
      /\ v.startup = ui.startup /\ v.editing /\ v.ready = ui.ready /\ v.queue = ui.queue
      /\ v.chosen = ui.chosen /\ v.out = Nil
  BY <1>1, ZenonT(60) DEF UI, Handled
<1> HIDE DEF v
<1>4. LoadIsWanted(v) /\ QueueIsAsked(v, asked)
  BY <1>1, <1>3 DEF Agree, LoadIsWanted, QueueIsAsked
<1>5. v.ready /\ (v.queue # Nil \/ ~v.editing) => v.profile \in Elements(local.table)
  BY <1>1, <1>3 DEF Agree, ReadyIsStored
<1>6. Sound(v, Send(local, v.out), asked)
  BY <1>1, <1>3, <1>4, <1>5, SendAdds, HandledAgrees DEF Sound, QueueIsWaitedFor
<1> QED
  BY <1>2, <1>6, HandleIsSound

\* The end of an edit is a choice that is saved.
LEMMA FinishEditIsSound ==
  ASSUME NilIsNoRecord, LauncherInv
  PROVE  LET v == FinishEdit([ui EXCEPT !.chosen = @ + 1])
         IN /\ Sound(v, Send(local, v.out), asked) /\ v.out \in Profiles
            /\ v.startup = "resolved" /\ ~v.ready
            /\ ~HasOperation(v, "load") /\ HasOperation(v, "save")
<1> DEFINE u == [ui EXCEPT !.chosen = @ + 1]
           s == Select(u, u.profile)
           w == [s EXCEPT !.locked = TRUE, !.editing = FALSE, !.ready = FALSE,
                         !.error = "none"]
<1>1. ui \in UI /\ Agree(ui, local, asked)
  BY DEF LauncherInv, Sound, Agree
<1>2. FinishEdit(u) = EnsureProfile(w)
  BY DEF FinishEdit
<1>3. /\ u \in UI /\ u.generation = ui.generation /\ u.chosen = ui.chosen + 1
      /\ u.load = ui.load /\ u.save = ui.save /\ u.list = ui.list
  BY <1>1 DEF UI
<1> HIDE DEF u
<1>4. /\ s \in UI /\ s.generation = u.generation + 1 /\ s.chosen = u.chosen
      /\ s.startup = "resolved" /\ s.queue = Nil /\ s.load = u.load /\ s.save = u.save
      /\ s.list = u.list
  BY <1>3, SelectLeaves DEF UI
<1> HIDE DEF s
<1>5. /\ w \in UI /\ w.generation = s.generation /\ w.chosen = s.chosen
      /\ w.startup = "resolved" /\ w.queue = Nil /\ w.load = s.load /\ w.save = s.save
      /\ w.list = s.list /\ ~w.ready /\ w.profile \in Profiles
  BY <1>4, ZenonT(60) DEF UI
<1> HIDE DEF w
<1>6. Agree(w, local, asked) /\ ~HasOperation(w, "load")
  BY <1>1, <1>3, <1>4, <1>5, ChoiceAgrees
<1> DEFINE v == EnsureProfile(w)
<1>7. /\ Sound(v, Send(local, w.profile), asked) /\ v.out = w.profile
      /\ HasOperation(v, "save") /\ v.generation = w.generation /\ v.profile = w.profile
      /\ v.startup = w.startup /\ v.ready = w.ready /\ v.load = w.load
  BY <1>6, EnsureIsSound
<1> HIDE DEF v
<1>8. ~HasOperation(v, "load")
  BY <1>6, <1>7 DEF HasOperation, IsCurrent
<1> QED
  BY <1>2, <1>5, <1>7, <1>8 DEF u, v

LEMMA EndEditIsSound ==
  ASSUME NilIsNoRecord, LauncherInv, EndEdit
  PROVE  LauncherInv'
BY FinishEditIsSound, HandleIsSound DEF EndEdit

\* A queued launch is the one asked for.
LEMMA QueueLaunchAgrees ==
  ASSUME NEW u, NEW b, NEW a, Agree(u, b, a), ~u.ready
  PROVE  LET v == QueueLaunch(u)
             now == [who |-> IF u.resolved THEN u.profile ELSE Nil, chosen |-> u.chosen]
         IN /\ Agree(v, b, now) /\ v.out = u.out /\ v.startup = u.startup
            /\ HasOperation(v, "load") <=> HasOperation(u, "load")
            /\ HasOperation(v, "save") <=> HasOperation(u, "save")
<1> DEFINE now == [who |-> IF u.resolved THEN u.profile ELSE Nil, chosen |-> u.chosen]
           v == QueueLaunch(u)
<1>1. u \in UI
  BY DEF Agree
<1>2. /\ Handled(u, v) /\ v.load = u.load /\ v.save = u.save /\ v.profile = u.profile
      /\ v.startup = u.startup /\ v.editing = u.editing /\ v.locked = u.locked
      /\ v.ready = u.ready /\ v.chosen = u.chosen /\ v.generation = u.generation
      /\ v.out = u.out
      /\ v.queue.expected = (IF u.resolved THEN u.profile ELSE Nil)
  BY <1>1 DEF QueueLaunch, UI, Launches, Handled
<1>3. QueueIsAsked(v, now)
  BY <1>2 DEF QueueIsAsked
<1> HIDE DEF v, now
<1>4. /\ HasOperation(v, "load") <=> HasOperation(u, "load")
      /\ HasOperation(v, "save") <=> HasOperation(u, "save")
  BY <1>2 DEF HasOperation, IsCurrent
<1>5. LoadIsWanted(v)
  BY <1>2, <1>4 DEF Agree, LoadIsWanted
<1>6. Counted(v) /\ Expected(v, b)
  BY <1>2 DEF Agree, Counted, Expected, Handled
<1>7. ReadyIsStored(v, b.table)
  BY <1>2 DEF Agree, ReadyIsStored
<1>8. Agree(v, b, now)
  BY <1>2, <1>3, <1>5, <1>6, <1>7 DEF Agree, Handled
<1> QED
  BY <1>2, <1>4, <1>8 DEF v, now

LEMMA ClickGameIsSound ==
  ASSUME NilIsNoRecord, LauncherInv, ClickGame
  PROVE  LauncherInv'
<1> DEFINE u == IF ui.editing THEN FinishEdit([ui EXCEPT !.chosen = @ + 1]) ELSE ui
           now == [who |-> IF u.resolved THEN u.profile ELSE Nil, chosen |-> u.chosen]
           q == QueueLaunch(u)
<1>1. IF u.ready THEN Handle(u) /\ asked' = asked
                 ELSE Handle(Retry(q)) /\ asked' = now
  BY DEF ClickGame
<1>2. ui \in UI /\ local \in Backends /\ ui.out = Nil /\ Sound(ui, local, asked)
  BY DEF LauncherInv, Sound, Agree
<1>3. CASE ui.editing
  <2>1. /\ Sound(u, Send(local, u.out), asked) /\ u.out \in Profiles
        /\ u.startup = "resolved" /\ ~u.ready
        /\ ~HasOperation(u, "load") /\ HasOperation(u, "save")
    BY <1>3, FinishEditIsSound
  <2> HIDE DEF u
  <2>2. /\ Agree(q, Send(local, u.out), now) /\ q.out = u.out /\ q.startup = "resolved"
        /\ ~HasOperation(q, "load") /\ HasOperation(q, "save")
    BY <2>1, QueueLaunchAgrees DEF Sound
  <2> HIDE DEF q, now
  <2>3. Retry(q) = q
    BY <2>2 DEF Retry
  <2>4. Sound(q, Send(local, q.out), now)
    BY <2>2 DEF Sound, QueueIsWaitedFor
  <2> QED
    BY <1>1, <2>1, <2>3, <2>4, HandleIsSound
<1>4. CASE ~ui.editing /\ ui.ready
  <2>1. Sound(ui, Send(local, ui.out), asked)
    BY <1>2, SendAdds
  <2> QED
    BY <1>1, <1>4, <2>1, HandleIsSound
<1>5. CASE ~ui.editing /\ ~ui.ready
  <2>1. u = ui
    BY <1>5
  <2> HIDE DEF u
  <2>2. Agree(q, local, now) /\ q.out = Nil
    BY <1>2, <1>5, <2>1, QueueLaunchAgrees DEF Sound
  <2> HIDE DEF q, now
  <2>3. Sound(Retry(q), Send(local, Retry(q).out), now)
    BY <2>2, RetryIsSound
  <2> QED
    BY <1>1, <1>5, <2>1, <2>3, HandleIsSound
<1> QED
  BY <1>3, <1>4, <1>5

LEMMA NewProfileIsSound ==
  ASSUME NilIsNoRecord, LauncherInv, NewProfile
  PROVE  LauncherInv'
<1>1. ui \in UI /\ local \in Backends /\ Agree(ui, local, asked) /\ ui.out = Nil
  BY DEF LauncherInv, Sound, Agree
<1>2. PICK p \in Profiles :
        /\ Handle([Select(ui, p) EXCEPT !.locked = TRUE, !.ready = TRUE, !.error = "none",
                                         !.editing = TRUE, !.chosen = @ + 1])
        /\ asked' = asked
  BY DEF NewProfile
<1> DEFINE s == Select(ui, p)
           next == s.chosen + 1
           v == [s EXCEPT !.locked = TRUE, !.ready = TRUE, !.error = "none",
                          !.editing = TRUE, !.chosen = next]
<1>3. Handle(v)
  BY <1>2
<1>4. /\ s \in UI /\ s.generation = ui.generation + 1 /\ s.chosen = ui.chosen
      /\ s.startup = "resolved" /\ s.queue = Nil /\ s.load = ui.load /\ s.save = ui.save
      /\ s.list = ui.list /\ s.out = Nil
  BY <1>1, SelectLeaves
<1> HIDE DEF s
<1>5. next \in Nat /\ next = ui.chosen + 1
  BY <1>4 DEF UI
<1> HIDE DEF next
<1>6. /\ v \in UI /\ v.generation = s.generation /\ v.chosen = next
      /\ v.startup = "resolved" /\ v.queue = Nil /\ v.load = s.load /\ v.save = s.save
      /\ v.list = s.list /\ v.editing /\ v.out = Nil
  BY <1>4, <1>5 DEF UI
<1> HIDE DEF v
<1>7. Sound(v, Send(local, v.out), asked)
  BY <1>1, <1>4, <1>5, <1>6, ChoiceAgrees, SendAdds DEF Sound
<1> QED
  BY <1>2, <1>3, <1>7, HandleIsSound

LEMMA SwitchProfileIsSound ==
  ASSUME NilIsNoRecord, LauncherInv, SwitchProfile
  PROVE  LauncherInv'
<1> DEFINE p == NextOf(ui.cache, ui.profile)
           c == [ui EXCEPT !.chosen = @ + 1]
           u == Select(c, p)
           w == [u EXCEPT !.locked = TRUE, !.ready = FALSE, !.error = "none"]
<1>1. ui \in UI /\ Agree(ui, local, asked) /\ ui.out = Nil /\ ui.cache \in Seq(Profiles)
  BY DEF LauncherInv, Sound, Agree, UI
<1>2. ui.cache # <<>> /\ Handle(Retry(w)) /\ asked' = asked
  BY DEF SwitchProfile
<1>3. p \in Profiles
  <2> DEFINE cache == ui.cache
             at == CHOOSE i \in 1 .. Len(cache) - 1 : cache[i] = ui.profile
  <2>1. CASE \E i \in 1 .. Len(cache) - 1 : cache[i] = ui.profile
    <3>1. at \in 1 .. Len(cache) - 1
      BY <2>1
    <3>2. p = cache[at + 1]
      BY <2>1 DEF NextOf
    <3> HIDE DEF at
    <3> QED
      BY <1>1, <3>1, <3>2
  <2>2. CASE ~\E i \in 1 .. Len(cache) - 1 : cache[i] = ui.profile
    <3>1. p = Head(cache)
      BY <2>2 DEF NextOf
    <3> QED
      BY <1>1, <1>2, <3>1
  <2> QED
    BY <2>1, <2>2
<1> HIDE DEF p
<1>4. /\ c \in UI /\ c.generation = ui.generation /\ c.chosen = ui.chosen + 1
      /\ c.load = ui.load /\ c.save = ui.save /\ c.list = ui.list /\ c.out = Nil
  BY <1>1 DEF UI
<1> HIDE DEF c
<1>5. /\ u \in UI /\ u.generation = c.generation + 1 /\ u.chosen = c.chosen
      /\ u.startup = "resolved" /\ u.queue = Nil /\ u.load = c.load /\ u.save = c.save
      /\ u.list = c.list /\ u.out = Nil
  BY <1>3, <1>4, SelectLeaves
<1> HIDE DEF u
<1>6. /\ w \in UI /\ w.generation = u.generation /\ w.chosen = u.chosen
      /\ w.startup = "resolved" /\ w.queue = Nil /\ w.load = u.load /\ w.save = u.save
      /\ w.list = u.list /\ ~w.ready /\ w.out = Nil
  BY <1>5 DEF UI
<1> HIDE DEF w
<1>7. Agree(w, local, asked)
  BY <1>1, <1>4, <1>5, <1>6, ChoiceAgrees
<1>8. Sound(Retry(w), Send(local, Retry(w).out), asked)
  BY <1>6, <1>7, RetryIsSound
<1> QED
  BY <1>2, <1>8, HandleIsSound

LEMMA UseGuestIsSound ==
  ASSUME NilIsNoRecord, LauncherInv, UseGuest
  PROVE  LauncherInv'
<1> DEFINE w == [ui EXCEPT !.locked = TRUE, !.ready = FALSE, !.error = "none"]
           g == Resolve(w, Guest)
<1>1. ui \in UI /\ Agree(ui, local, asked)
  BY DEF LauncherInv, Sound, Agree
<1>2. ui.startup = "load_failed" /\ Handle(EnsureProfile(g)) /\ asked' = asked
  BY DEF UseGuest
<1>3. /\ w \in UI /\ w.generation = ui.generation /\ w.chosen = ui.chosen /\ ~w.ready
      /\ w.load = ui.load /\ w.save = ui.save /\ w.list = ui.list /\ w.queue = ui.queue
  BY <1>1, ZenonT(60) DEF UI
<1>4. QueueIsAsked(w, asked)
  BY <1>1, <1>3 DEF Agree, QueueIsAsked
<1> HIDE DEF w
<1>5. /\ g \in UI /\ g.profile = Guest /\ g.startup = "resolved" /\ QueueIsAsked(g, asked)
      /\ g.generation = w.generation /\ g.chosen = w.chosen
      /\ g.load = w.load /\ g.save = w.save /\ g.list = w.list /\ g.ready = w.ready
  BY <1>3, <1>4, ResolveLeaves, LauncherAssumption
<1> HIDE DEF g
<1>6. g.load = Nil
  BY <1>1, <1>2, <1>3, <1>5 DEF Agree, LoadIsWanted
<1>7. LoadIsWanted(g) /\ Handled(ui, g)
  BY <1>3, <1>5, <1>6 DEF LoadIsWanted, HasOperation, Handled
<1>8. Agree(g, local, asked)
  BY <1>1, <1>3, <1>5, <1>7, HandledAgrees
<1> QED
  BY <1>2, <1>8, EnsureIsSound, HandleIsSound

-----------------------------------------------------------------------------
(***************************************************************************)
(* The backend.                                                            *)
(***************************************************************************)
\* The launcher v is u, to which some of what it waits for was answered.
SameRequest(op, new) ==
  /\ op = Nil <=> new = Nil
  /\ op # Nil => /\ new.generation = op.generation /\ new.since = op.since
                 /\ new.expected = op.expected

Answered(u, v) ==
  /\ v \in UI /\ v.generation = u.generation /\ v.chosen = u.chosen
  /\ v.profile = u.profile /\ v.startup = u.startup /\ v.locked = u.locked
  /\ v.ready = u.ready /\ v.error = u.error /\ v.editing = u.editing
  /\ v.queue = u.queue /\ v.out = u.out
  /\ SameRequest(u.load, v.load) /\ SameRequest(u.save, v.save)

LEMMA AnsweredIsSound ==
  ASSUME NEW u, NEW v, NEW b, NEW d \in Backends, NEW a, Sound(u, b, a), Answered(u, v),
         Expected(v, d), d.known \subseteq Elements(d.table), ReadyIsStored(v, d.table)
  PROVE  Sound(v, d, a)
<1>1. /\ HasOperation(v, "load") <=> HasOperation(u, "load")
      /\ HasOperation(v, "save") <=> HasOperation(u, "save")
  BY DEF HasOperation, IsCurrent, Answered, SameRequest
<1>2. Counted(v)
  BY DEF Sound, Agree, Counted, Answered, SameRequest
<1>3. LoadIsWanted(v)
  BY <1>1 DEF Sound, Agree, LoadIsWanted, Answered, SameRequest
<1>4. QueueIsAsked(v, a) /\ QueueIsWaitedFor(v)
  BY <1>1 DEF Sound, Agree, QueueIsAsked, QueueIsWaitedFor, Answered
<1> QED
  BY <1>2, <1>3, <1>4 DEF Sound, Agree, Answered

LEMMA LoadIsAnswered ==
  ASSUME NilIsNoRecord, ui \in UI, ui.load # Nil,
         NEW r \in Profiles \cup {"empty", "failed"}, Answer("load", r)
  PROVE  /\ Answered(ui, ui') /\ ui'.load # Nil /\ ui'.load.result = r
         /\ ui'.save = ui.save /\ ui'.list = ui.list
<1> DEFINE op == [ui.load EXCEPT !.result = r]
<1>1. ui.load \in Loads
  BY DEF UI
<1>2. /\ op \in Loads /\ op.generation = ui.load.generation /\ op.since = ui.load.since
      /\ op.expected = ui.load.expected /\ op.result = r
  BY <1>1 DEF Loads, Operations
<1>3. ui' = [ui EXCEPT !.load = op]
  BY DEF Answer
<1> HIDE DEF op
<1>4. op # Nil
  BY <1>2 DEF NilIsNoRecord
<1>5. /\ ui' \in UI /\ ui'.load = op
  BY <1>2, <1>3 DEF UI
<1>6. /\ ui'.generation = ui.generation /\ ui'.chosen = ui.chosen
      /\ ui'.profile = ui.profile /\ ui'.startup = ui.startup /\ ui'.locked = ui.locked
      /\ ui'.ready = ui.ready /\ ui'.error = ui.error /\ ui'.editing = ui.editing
      /\ ui'.queue = ui.queue /\ ui'.out = ui.out /\ ui'.save = ui.save
      /\ ui'.list = ui.list
  BY <1>3 DEF UI
<1> QED
  BY <1>2, <1>4, <1>5, <1>6 DEF Answered, SameRequest

LEMMA SaveIsAnswered ==
  ASSUME NilIsNoRecord, ui \in UI, ui.save # Nil,
         NEW r \in {"ok", "failed"}, Answer("save", r)
  PROVE  /\ Answered(ui, ui') /\ ui'.save # Nil /\ ui'.save.result = r
         /\ ui'.load = ui.load /\ ui'.list = ui.list
<1> DEFINE op == [ui.save EXCEPT !.result = r]
<1>1. ui.save \in Saves
  BY DEF UI
<1>2. /\ op \in Saves /\ op.generation = ui.save.generation /\ op.since = ui.save.since
      /\ op.expected = ui.save.expected /\ op.result = r
  BY <1>1 DEF Saves, Operations
<1>3. ui' = [ui EXCEPT !.save = op]
  BY DEF Answer
<1> HIDE DEF op
<1>4. op # Nil
  BY <1>2 DEF NilIsNoRecord
<1>5. /\ ui' \in UI /\ ui'.save = op
  BY <1>2, <1>3 DEF UI
<1>6. /\ ui'.generation = ui.generation /\ ui'.chosen = ui.chosen
      /\ ui'.profile = ui.profile /\ ui'.startup = ui.startup /\ ui'.locked = ui.locked
      /\ ui'.ready = ui.ready /\ ui'.error = ui.error /\ ui'.editing = ui.editing
      /\ ui'.queue = ui.queue /\ ui'.out = ui.out /\ ui'.load = ui.load
      /\ ui'.list = ui.list
  BY <1>3 DEF UI
<1> QED
  BY <1>2, <1>4, <1>5, <1>6 DEF Answered, SameRequest

LEMMA ListIsAnswered ==
  ASSUME NilIsNoRecord, ui \in UI, ui.list # Nil, NEW rows \in Seq(Profiles),
         \/ ui' = [ui EXCEPT !.list.result = "ok", !.list.rows = rows]
         \/ Answer("list", "failed")
  PROVE  Answered(ui, ui') /\ ui'.load = ui.load /\ ui'.save = ui.save
<1>1. ui.list \in Saves
  BY DEF UI
<1>2. PICK op \in Saves : ui' = [ui EXCEPT !.list = op]
  <2>1. CASE Answer("list", "failed")
    <3> DEFINE op == [ui.list EXCEPT !.result = "failed"]
    <3>1. op \in Saves
      BY <1>1 DEF Saves, Operations
    <3>2. ui' = [ui EXCEPT !.list = op]
      BY <2>1 DEF Answer
    <3> QED
      BY <3>1, <3>2
  <2>2. CASE ui' = [ui EXCEPT !.list.result = "ok", !.list.rows = rows]
    <3> DEFINE op == [ui.list EXCEPT !.result = "ok", !.rows = rows]
    <3>1. op \in Saves
      BY <1>1 DEF Saves, Operations
    <3>2. ui' = [ui EXCEPT !.list = op]
      BY <2>2 DEF UI
    <3> QED
      BY <3>1, <3>2
  <2> QED
    BY <2>1, <2>2
<1>3. ui' \in UI
  BY <1>2 DEF UI
<1>4. /\ ui'.generation = ui.generation /\ ui'.chosen = ui.chosen
      /\ ui'.profile = ui.profile /\ ui'.startup = ui.startup /\ ui'.locked = ui.locked
      /\ ui'.ready = ui.ready /\ ui'.error = ui.error /\ ui'.editing = ui.editing
      /\ ui'.queue = ui.queue /\ ui'.out = ui.out /\ ui'.load = ui.load
      /\ ui'.save = ui.save
  BY <1>2 DEF UI
<1> QED
  BY <1>3, <1>4 DEF Answered, SameRequest

\* What is stored is in the table, and what was there still is.
LEMMA StoredKeeps ==
  ASSUME NEW b \in Backends, NEW p \in Profiles, b.known \subseteq Elements(b.table)
  PROVE  LET d == Stored(b, p)
         IN /\ d \in Backends /\ d.reads = b.reads /\ d.writes = b.writes
            /\ d.known \subseteq Elements(d.table)
            /\ Elements(b.table) \subseteq Elements(d.table) /\ p \in Elements(d.table)
<1> DEFINE d == Stored(b, p)
<1>1. /\ ToFront(b.table, p) \in Seq(Profiles) /\ p \in Elements(ToFront(b.table, p))
      /\ Elements(b.table) \subseteq Elements(ToFront(b.table, p))
  BY ToFrontKeeps DEF Backends
<1>2. d = [b EXCEPT !.table = ToFront(b.table, p), !.known = b.known \cup {p},
                    !.kept = b.kept \ {p}]
  BY DEF Stored
<1>3. b.known \cup {p} \in SUBSET Profiles /\ b.kept \ {p} \in SUBSET Profiles
  BY DEF Backends
<1> HIDE DEF d
<1>4. /\ d \in Backends /\ d.reads = b.reads /\ d.writes = b.writes
      /\ d.table = ToFront(b.table, p) /\ d.known = b.known \cup {p}
  BY <1>1, <1>2, <1>3 DEF Backends
<1> QED
  BY <1>1, <1>4 DEF d

LEMMA ReplayKeptIsSound ==
  ASSUME LauncherInv, ReplayKept
  PROVE  LauncherInv'
<1>1. /\ ui \in UI /\ local \in Backends /\ Sound(ui, local, asked)
      /\ local.known \subseteq Elements(local.table)
  BY DEF LauncherInv, Sound, Agree
<1>2. PICK p \in Profiles : local' = Stored(local, p) /\ ui' = ui /\ asked' = asked
  BY <1>1 DEF ReplayKept, Backends
<1> DEFINE d == Stored(local, p)
<1>3. /\ d \in Backends /\ d.reads = local.reads /\ d.writes = local.writes
      /\ d.known \subseteq Elements(d.table)
      /\ Elements(local.table) \subseteq Elements(d.table)
  BY <1>1, StoredKeeps
<1> HIDE DEF d
<1>4. Expected(ui, d) /\ ReadyIsStored(ui, d.table)
  BY <1>1, <1>3 DEF Sound, Agree, Expected, ReadyIsStored
<1>5. Answered(ui, ui)
  BY <1>1 DEF Answered, SameRequest
<1>6. Sound(ui, d, asked)
  BY <1>1, <1>3, <1>4, <1>5, AnsweredIsSound
<1> QED
  BY <1>2, <1>6 DEF LauncherInv, d

LEMMA ReadIsSound ==
  ASSUME NilIsNoRecord, LauncherInv, Read
  PROVE  LauncherInv'
<1> DEFINE read == Head(local.reads)
           b == [local EXCEPT !.reads = Tail(@)]
<1>1. /\ ui \in UI /\ local \in Backends /\ Sound(ui, local, asked) /\ ui.out = Nil
      /\ local.known \subseteq Elements(local.table) /\ local.table \in Seq(Profiles)
      /\ Expected(ui, local) /\ ReadyIsStored(ui, local.table)
  BY DEF LauncherInv, Sound, Agree, Backends
<1>2. /\ Tail(local.reads) \in Seq(Profiles \cup {"load", "list"})
      /\ read \in Elements(local.reads) /\ Distinct(Tail(local.reads))
      /\ Elements(Tail(local.reads)) \subseteq Elements(local.reads)
      /\ read \notin Elements(Tail(local.reads))
  BY <1>1, TailDistinct DEF Read, Expected, Distinct, Backends
<1>3. /\ b \in Backends /\ b.reads = Tail(local.reads) /\ b.writes = local.writes
      /\ b.table = local.table /\ b.known = local.known /\ b.kept = local.kept
  BY <1>1, <1>2 DEF Backends
<1>4. Expected(ui, b)
  BY <1>1, <1>2, <1>3 DEF Expected, Distinct
<1>5. /\ asked' = asked
      /\ \/ /\ read = "load" /\ local' = b
            /\ \/ Answer("load", IF b.table = <<>> THEN "empty" ELSE Head(b.table))
               \/ Answer("load", "failed")
         \/ /\ read = "list" /\ local' = b
            /\ \/ ui' = [ui EXCEPT !.list.result = "ok", !.list.rows = b.table]
               \/ Answer("list", "failed")
         \/ /\ read \in Profiles /\ ui' = ui
            /\ \/ /\ read \in Elements(b.table) \ b.kept
                  /\ local' = [b EXCEPT !.known = @ \cup {read}]
               \/ local' = [b EXCEPT !.known = @ \ {read}]
               \/ local' = b
  BY DEF Read
<1> HIDE DEF read, b
<1>6. CASE read = "load" /\ local' = b
  <2>1. ui.load # Nil
    BY <1>1, <1>2, <1>6 DEF Expected
  <2>2. PICK r \in Profiles \cup {"empty", "failed"} :
          Answer("load", r) /\ (r \in Profiles => r \in Elements(b.table))
    <3>1. CASE Answer("load", "failed")
      BY <3>1, LauncherAssumption
    <3>2. CASE Answer("load", IF b.table = <<>> THEN "empty" ELSE Head(b.table))
      <4>1. b.table # <<>> => Head(b.table) \in Elements(b.table) /\ Head(b.table) \in Profiles
        BY <1>1, <1>3 DEF Elements
      <4> QED
        BY <3>2, <4>1, LauncherAssumption
    <3> QED
      BY <1>5, <1>6, <3>1, <3>2, LauncherAssumption
  <2>3. /\ Answered(ui, ui') /\ ui'.load # Nil /\ ui'.load.result = r
        /\ ui'.save = ui.save /\ ui'.list = ui.list
    BY <1>1, <2>1, <2>2, LoadIsAnswered
  <2>4. Expected(ui', b)
    BY <1>2, <1>3, <1>4, <1>6, <2>3 DEF Expected, Answered, SameRequest
  <2>5. ReadyIsStored(ui', b.table)
    BY <1>1, <1>3, <2>2, <2>3 DEF ReadyIsStored, Answered
  <2>6. Sound(ui', b, asked)
    BY <1>1, <1>3, <2>3, <2>4, <2>5, AnsweredIsSound
  <2> QED
    BY <1>1, <1>5, <1>6, <2>3, <2>6 DEF LauncherInv, Answered
<1>7. CASE read = "list" /\ local' = b
  <2>1. ui.list # Nil
    BY <1>1, <1>2, <1>7 DEF Expected
  <2>2. Answered(ui, ui') /\ ui'.load = ui.load /\ ui'.save = ui.save
    BY <1>1, <1>3, <1>5, <1>7, <2>1, ListIsAnswered, LauncherAssumption
  <2>3. Expected(ui', b)
    BY <1>2, <1>3, <1>4, <1>7, <2>2 DEF Expected, Answered
  <2>4. ReadyIsStored(ui', b.table)
    BY <1>1, <1>3, <2>2 DEF ReadyIsStored, Answered
  <2>5. Sound(ui', b, asked)
    BY <1>1, <1>3, <2>2, <2>3, <2>4, AnsweredIsSound
  <2> QED
    BY <1>1, <1>5, <1>7, <2>2, <2>5 DEF LauncherInv, Answered
<1>8. CASE read \in Profiles /\ ui' = ui
  <2>1. PICK known \in SUBSET Profiles :
          local' = [b EXCEPT !.known = known] /\ known \subseteq Elements(b.table)
    <3>1. b.known \in SUBSET Profiles /\ b.known \subseteq Elements(b.table)
      BY <1>1, <1>3 DEF Backends
    <3>2. b = [b EXCEPT !.known = b.known]
      BY <1>3 DEF Backends
    <3>3. CASE read \in Elements(b.table) /\ local' = [b EXCEPT !.known = @ \cup {read}]
      <4>1. b.known \cup {read} \in SUBSET Profiles
        BY <1>8, <3>1
      <4> QED
        BY <3>1, <3>3, <4>1
    <3>4. CASE local' = [b EXCEPT !.known = @ \ {read}]
      <4>1. b.known \ {read} \in SUBSET Profiles /\ b.known \ {read} \subseteq Elements(b.table)
        BY <3>1
      <4> QED
        BY <3>4, <4>1
    <3>5. CASE local' = b
      BY <3>1, <3>2, <3>5
    <3> QED
      BY <1>5, <1>8, <3>3, <3>4, <3>5, LauncherAssumption
  <2>2. /\ local' \in Backends /\ local'.reads = b.reads /\ local'.writes = b.writes
        /\ local'.table = b.table /\ local'.known = known
    BY <1>3, <2>1 DEF Backends
  <2>3. Expected(ui, local') /\ ReadyIsStored(ui, local'.table) /\ Answered(ui, ui)
    BY <1>1, <1>3, <1>4, <2>2 DEF Expected, ReadyIsStored, Answered, SameRequest
  <2>4. PICK d \in Backends : d = local'
    BY <2>2
  <2>5. Sound(ui, d, asked)
    BY <1>1, <2>1, <2>2, <2>3, <2>4, AnsweredIsSound
  <2> QED
    BY <1>1, <1>5, <1>8, <2>4, <2>5 DEF LauncherInv
<1> QED
  BY <1>5, <1>6, <1>7, <1>8

LEMMA WriteProfileIsSound ==
  ASSUME NilIsNoRecord, LauncherInv, WriteProfile
  PROVE  LauncherInv'
<1> DEFINE p == Head(local.writes)
           b == [local EXCEPT !.writes = Tail(@)]
           rest == Tail(local.writes)
<1>1. /\ ui \in UI /\ local \in Backends /\ Sound(ui, local, asked) /\ ui.out = Nil
      /\ local.known \subseteq Elements(local.table)
      /\ local.writes \in Seq(Profiles) /\ local.writes # <<>>
      /\ Expected(ui, local) /\ ReadyIsStored(ui, local.table)
  BY DEF LauncherInv, Sound, Agree, Backends, WriteProfile
<1>2. p \in Profiles /\ rest \in Seq(Profiles) /\ p = local.writes[1]
  BY <1>1
<1>3. /\ Len(local.writes) = 1 => rest = <<>>
      /\ Len(local.writes) # 1
           => rest # <<>> /\ rest[Len(rest)] = local.writes[Len(local.writes)]
  BY <1>1, LastIsKept
<1>4. /\ b \in Backends /\ b.reads = local.reads /\ b.writes = rest
      /\ b.table = local.table /\ b.known = local.known /\ b.kept = local.kept
  BY <1>1, <1>2 DEF Backends
<1>5. /\ asked' = asked
      /\ \/ local' = Stored(b, p) /\ AnswerIfLast("ok")
         \/ /\ local' = [b EXCEPT !.known = @ \ {p}, !.kept = @ \cup {p}]
            /\ AnswerIfLast("failed")
  BY DEF WriteProfile
<1> HIDE DEF p, b, rest
<1>6. PICK r \in {"ok", "failed"}, d \in Backends :
        /\ local' = d /\ AnswerIfLast(r)
        /\ d.reads = local.reads /\ d.writes = rest
        /\ d.known \subseteq Elements(d.table)
        /\ Elements(local.table) \subseteq Elements(d.table)
        /\ r = "ok" => p \in Elements(d.table)
  <2>1. CASE local' = Stored(b, p) /\ AnswerIfLast("ok")
    <3> DEFINE d == Stored(b, p)
    <3>1. /\ d \in Backends /\ d.reads = b.reads /\ d.writes = b.writes
          /\ d.known \subseteq Elements(d.table)
          /\ Elements(b.table) \subseteq Elements(d.table) /\ p \in Elements(d.table)
      BY <1>1, <1>2, <1>4, StoredKeeps
    <3> HIDE DEF d
    <3>2. local' = d
      BY <2>1 DEF d
    <3> QED
      BY <1>4, <2>1, <3>1, <3>2
  <2>2. CASE /\ local' = [b EXCEPT !.known = @ \ {p}, !.kept = @ \cup {p}]
             /\ AnswerIfLast("failed")
    <3> DEFINE d == [b EXCEPT !.known = @ \ {p}, !.kept = @ \cup {p}]
    <3>1. b.known \ {p} \in SUBSET Profiles /\ b.kept \cup {p} \in SUBSET Profiles
      BY <1>2, <1>4 DEF Backends
    <3>2. /\ d \in Backends /\ d.reads = b.reads /\ d.writes = b.writes
          /\ d.table = b.table /\ d.known = b.known \ {p}
      BY <1>4, <3>1 DEF Backends
    <3>3. local' = d
      BY <2>2
    <3> HIDE DEF d
    <3>4. d.known \subseteq Elements(d.table)
      BY <1>1, <1>4, <3>2
    <3> QED
      BY <1>4, <2>2, <3>2, <3>3, <3>4
  <2> QED
    BY <1>5, <2>1, <2>2
<1>7. CASE Len(local.writes) = 1
  <2>1. /\ Answer("save", r) /\ d.writes = <<>> /\ ui.save # Nil /\ ui.save.expected = p
    BY <1>1, <1>2, <1>3, <1>6, <1>7 DEF AnswerIfLast, Expected
  <2>2. /\ Answered(ui, ui') /\ ui'.save # Nil /\ ui'.save.result = r
        /\ ui'.load = ui.load /\ ui'.list = ui.list
    BY <1>1, <2>1, SaveIsAnswered
  <2>3. ui'.save.expected = p
    BY <2>1, <2>2 DEF Answered, SameRequest
  <2>4. Expected(ui', d)
    BY <1>1, <1>2, <1>6, <2>1, <2>2, <2>3 DEF Expected
  <2>5. ReadyIsStored(ui', d.table)
    BY <1>1, <1>6, <2>2, <2>3 DEF ReadyIsStored, Answered
  <2>6. Sound(ui', d, asked)
    BY <1>1, <1>6, <2>2, <2>4, <2>5, AnsweredIsSound
  <2> QED
    BY <1>1, <1>5, <1>6, <2>2, <2>6 DEF LauncherInv, Answered
<1>8. CASE Len(local.writes) # 1
  <2>1. ui' = ui
    BY <1>6, <1>8 DEF AnswerIfLast
  <2>2. d.writes # <<>> /\ d.writes[Len(d.writes)] = local.writes[Len(local.writes)]
    BY <1>3, <1>6, <1>8
  <2>3. Expected(ui, d)
    BY <1>1, <1>6, <2>2 DEF Expected
  <2>4. ReadyIsStored(ui, d.table) /\ Answered(ui, ui)
    BY <1>1, <1>6 DEF ReadyIsStored, Answered, SameRequest
  <2>5. Sound(ui, d, asked)
    BY <1>1, <1>6, <2>3, <2>4, AnsweredIsSound
  <2> QED
    BY <1>1, <1>5, <1>6, <2>1, <2>5 DEF LauncherInv
<1> QED
  BY <1>7, <1>8

-----------------------------------------------------------------------------
(***************************************************************************)
(* What the launcher promises.                                             *)
(***************************************************************************)
LEMMA LauncherStarts ==
  ASSUME NilIsNoRecord, LauncherInit
  PROVE  LauncherInv
<1> DEFINE load == Bind(Blank, Nil)
<1>1. /\ load \in Loads /\ load \in Saves /\ load # Nil /\ load.generation = 0
      /\ load.since = 0 /\ load.expected = Nil /\ load.result = "waiting"
  <2>1. load \in Loads /\ load \in Saves
    BY DEF Bind, Blank, Loads, Saves, Operations
  <2> QED
    BY <2>1 DEF Bind, Blank, NilIsNoRecord
<1>2. ui = [Blank EXCEPT !.load = load, !.list = load] /\ asked = Nil
  BY DEF LauncherInit
<1> HIDE DEF load
<1>3. ui = [generation |-> 0, profile |-> Guest, resolved |-> FALSE, startup |-> "loading",
            locked |-> FALSE, ready |-> FALSE, error |-> "none", editing |-> FALSE,
            cache |-> <<>>, queue |-> Nil, load |-> load, save |-> Nil, list |-> load,
            out |-> Nil, chosen |-> 0]
  BY <1>2 DEF Blank
<1>4. PICK table \in Seq(Profiles) :
        local = [reads |-> <<"load", "list">>, writes |-> <<>>, table |-> table,
                 known |-> {}, kept |-> {}]
  BY LauncherAssumption DEF LauncherInit
<1>5. ui \in UI
  BY <1>1, <1>3, LauncherAssumption DEF UI
<1>6. local \in Backends
  <2>1. <<"load", "list">> \in Seq(Profiles \cup {"load", "list"})
    OBVIOUS
  <2> QED
    BY <1>4, <2>1 DEF Backends
<1>7. Counted(ui)
  BY <1>1, <1>3 DEF Counted
<1>8. Expected(ui, local)
  BY <1>1, <1>3, <1>4 DEF Expected
<1>9. LoadIsWanted(ui) /\ ReadyIsStored(ui, local.table) /\ QueueIsAsked(ui, asked)
  BY <1>1, <1>3, LauncherAssumption DEF LoadIsWanted, ReadyIsStored, QueueIsAsked
<1> QED
  BY <1>3, <1>4, <1>5, <1>6, <1>7, <1>8, <1>9
  DEF LauncherInv, Sound, Agree, QueueIsWaitedFor

\* The launcher, its executors and the database agree: what an executor has is
\* waited for, what is told stored is stored, the queued game is the one asked for
\* and something will start it (launcher.py, ProfileController).
THEOREM LauncherInductive ==
  ASSUME NilIsNoRecord
  PROVE  LauncherSpec => []LauncherInv
<1>1. LauncherInit => LauncherInv
  BY LauncherStarts
<1>2. LauncherInv /\ [LauncherNext]_launcherVars => LauncherInv'
  <2> SUFFICES ASSUME LauncherInv, [LauncherNext]_launcherVars
               PROVE  LauncherInv'
    OBVIOUS
  <2>1. CASE Frame
    BY <2>1, FrameIsSound
  <2>2. CASE ClickName
    BY <2>2, ClickNameIsSound
  <2>3. CASE EndEdit
    BY <2>3, EndEditIsSound
  <2>4. CASE ClickGame
    BY <2>4, ClickGameIsSound
  <2>5. CASE NewProfile
    BY <2>5, NewProfileIsSound
  <2>6. CASE SwitchProfile
    BY <2>6, SwitchProfileIsSound
  <2>7. CASE UseGuest
    BY <2>7, UseGuestIsSound
  <2>8. CASE Read
    BY <2>8, ReadIsSound
  <2>9. CASE WriteProfile
    BY <2>9, WriteProfileIsSound
  <2>10. CASE ReplayKept
    BY <2>10, ReplayKeptIsSound
  <2>11. CASE UNCHANGED launcherVars
    BY <2>11 DEF launcherVars, LauncherInv
  <2> QED
    BY <2>1, <2>2, <2>3, <2>4, <2>5, <2>6, <2>7, <2>8, <2>9, <2>10, <2>11
    DEF LauncherNext
<1> QED
  BY <1>1, <1>2, PTL DEF LauncherSpec

\* A game that was queued never waits for nothing: retry_profile_save, and the
\* answers of poll_network, whatever their order.
THEOREM LaunchesWaitedFor ==
  ASSUME NilIsNoRecord
  PROVE  LauncherSpec => []LaunchIsWaitedFor
<1>1. LauncherInv => LaunchIsWaitedFor
  BY DEF LauncherInv, Sound, LaunchIsWaitedFor
<1> QED
  BY <1>1, LauncherInductive, PTL

\* A game starts for a profile the database holds, and a queued one for the
\* profile and the choice of the click that queued it: queue_launch, select,
\* pop_ready_launch.
THEOREM LaunchesAsAsked ==
  ASSUME NilIsNoRecord
  PROVE  LauncherSpec => LaunchIsAsAsked
<1>1. LauncherInv /\ [LauncherNext]_launcherVars => [StartsAsAsked]_launcherVars
  <2> SUFFICES ASSUME LauncherInv, LauncherNext, launched' # NoLaunch
               PROVE  StartsAsAsked
    BY DEF StartsAsAsked
  <2>1. CASE Frame
    <3> DEFINE u == AnswerStatus(AnswerList(AnswerSave(AnswerLoad(ui))))
               sent == Send(local, u.out)
    <3>1. /\ Sound(u, sent, asked) /\ u.chosen = ui.chosen
          /\ sent.table = local.table
      BY PollIsSound
    <3>2. /\ u.queue # Nil /\ u.ready /\ LaunchFits(u)
          /\ launched' = [who |-> u.profile, queued |-> TRUE]
      BY <2>1 DEF Frame
    <3> HIDE DEF u, sent
    <3>3. u.profile \in Elements(local.table)
      BY <3>1, <3>2 DEF Sound, Agree, ReadyIsStored
    <3>4. asked.chosen = ui.chosen /\ asked.who \in {Nil, u.profile}
      BY <3>1, <3>2 DEF Sound, Agree, QueueIsAsked, LaunchFits
    <3> QED
      BY <3>2, <3>3, <3>4 DEF StartsAsAsked
  <2>2. CASE ClickGame
    <3>1. CASE ui.editing
      BY <2>2, <3>1, FinishEditIsSound DEF ClickGame
    <3>2. CASE ~ui.editing
      <4>1. ui.ready /\ launched' = [who |-> ui.profile, queued |-> FALSE]
        BY <2>2, <3>2 DEF ClickGame
      <4>2. ui.profile \in Elements(local.table)
        BY <3>2, <4>1 DEF LauncherInv, Sound, Agree, ReadyIsStored
      <4> QED
        BY <4>1, <4>2 DEF StartsAsAsked
    <3> QED
      BY <3>1, <3>2
  <2>3. CASE ClickName \/ EndEdit \/ NewProfile \/ SwitchProfile \/ UseGuest
    BY <2>3 DEF ClickName, EndEdit, NewProfile, SwitchProfile, UseGuest
  <2>4. CASE Read \/ WriteProfile \/ ReplayKept
    BY <2>4 DEF Read, WriteProfile, ReplayKept
  <2> QED
    BY <2>1, <2>2, <2>3, <2>4 DEF LauncherNext
<1> QED
  BY <1>1, LauncherInductive, PTL DEF LauncherSpec, LaunchIsAsAsked

\* Answers that the player's choice has overtaken change neither the profile nor
\* what the player is told: is_current, in every order of the answers.
THEOREM LateAnswersHarmless ==
  ASSUME NilIsNoRecord
  PROVE  LauncherSpec => LateAnswersChangeNothing
<1> DEFINE Harmless == Frame /\ LateAnswers => /\ ui'.profile = ui.profile
                                               /\ ui'.startup = ui.startup
                                               /\ ui'.error \in {ui.error, "none"}
<1>1. LauncherInv /\ [LauncherNext]_launcherVars => [Harmless]_launcherVars
  <2> SUFFICES ASSUME LauncherInv, Frame, LateAnswers
               PROVE  /\ ui'.profile = ui.profile /\ ui'.startup = ui.startup
                      /\ ui'.error \in {ui.error, "none"}
    OBVIOUS
  <2> DEFINE Same(u, v) == /\ v.profile = u.profile /\ v.startup = u.startup
                           /\ v.error = u.error
             u1 == AnswerLoad(ui)
             u2 == AnswerSave(u1)
             u3 == AnswerList(u2)
             u4 == AnswerStatus(u3)
  <2>1. ui \in UI /\ Counted(ui) /\ ui.chosen \in Nat
    BY DEF LauncherInv, Sound, Agree, UI
  <2>2. ui.load # Nil => ui.load \in Loads /\ ui.load.generation \in Nat
    BY <2>1 DEF UI, Loads, Operations
  <2>3. ui.save # Nil => ui.save \in Saves /\ ui.save.generation \in Nat
    BY <2>1 DEF UI, Saves, Operations
  <2>4. /\ Completed(ui, "load") => ui.load.generation # ui.generation
        /\ Completed(ui, "save") => ui.save.generation # ui.generation
    BY <2>1, <2>2, <2>3 DEF LateAnswers, Completed, Counted
  <2>5. u1 \in {ui, [ui EXCEPT !.load = Nil]}
    BY <2>1, <2>4 DEF AnswerLoad, IsCurrent, UI
  <2>6. u1 \in UI /\ Same(ui, u1) /\ u1.save = ui.save /\ u1.generation = ui.generation
    BY <2>1, <2>5 DEF UI
  <2> HIDE DEF u1
  <2>7. u2 \in {u1, [u1 EXCEPT !.save = Nil]}
    BY <2>4, <2>6 DEF AnswerSave, Completed, IsCurrent, UI
  <2>8. u2 \in UI /\ Same(u1, u2)
    BY <2>6, <2>7 DEF UI
  <2> HIDE DEF u2
  <2>9. Same(u2, u3)
    BY <2>8 DEF AnswerList, UI
  <2>10. u3 = u2 \/ u3 = [u2 EXCEPT !.list = Nil]
         \/ u3 = [[u2 EXCEPT !.list = Nil] EXCEPT !.cache = u2.list.rows]
    BY DEF AnswerList
  <2>11. DOMAIN u3 = DOMAIN u2
    BY <2>10
  <2> HIDE DEF u3
  <2>12. u4 = u3 \/ u4 = [u3 EXCEPT !.ready = TRUE, !.error = "none"]
    BY DEF AnswerStatus
  <2>13. /\ u4.profile = u3.profile /\ u4.startup = u3.startup
         /\ u4.error \in {u3.error, "none"}
    BY <2>8, <2>11, <2>12 DEF UI
  <2>14. ui' = [u4 EXCEPT !.queue = IF u4.queue # Nil /\ u4.ready THEN Nil ELSE @,
                          !.out = Nil]
    BY DEF Frame, u1, u2, u3
  <2> HIDE DEF u4
  <2>15. /\ ui'.profile = u4.profile /\ ui'.startup = u4.startup /\ ui'.error = u4.error
    BY <2>14
  <2> QED
    BY <2>6, <2>8, <2>9, <2>13, <2>15
<1> QED
  BY <1>1, LauncherInductive, PTL DEF LauncherSpec, LateAnswersChangeNothing

=============================================================================
