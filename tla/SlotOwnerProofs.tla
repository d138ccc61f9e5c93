-------------------------- MODULE SlotOwnerProofs ---------------------------
(***************************************************************************)
(* Proofs about SlotOwner: what a save replaces its game has seen, another *)
(* window's game is only replaced with its player's leave, and where every *)
(* row can be read each epoch has one owner; for any number of windows,    *)
(* moves, saves, faults and deaths.                                        *)
(***************************************************************************)
EXTENDS SlotOwner, SequenceTheorems, TLAPS

OwnerInv == TypeOK /\ OwnerIndInv

\* The step from g to h builds no state, or one, which waits for the writer.
Keeps(g, h) ==
  h.built = g.built /\ h.save = g.save /\ g.seen \subseteq h.seen

Builds(i, g, h) ==
  LET op == h.save.op
  IN /\ h.built = g.built + 1 /\ g.seen \subseteq h.seen
     /\ g.save = NoSave /\ h.save.step = "sent" /\ op \in Operation
     /\ op.val.who = i /\ op.val.form = "good" /\ op.rev = tick + 1
     /\ op.seen = h.seen /\ op.val.board \in h.seen
     /\ op.expect # None => Knows(i, op.expect, h.seen)

\* It puts nothing aside.
Spares(g, h) ==
  h.quarantine = g.quarantine /\ (h.old => g.old) /\ h.got \in {None, g.got}

\* What a method of the game makes of it.
Steps(i, g, h) == h \in AGame /\ Fits(i, h) /\ (Keeps(g, h) \/ Builds(i, g, h))
Makes(i, g, h) == Steps(i, g, h) /\ Spares(g, h) /\ h.epoch = g.epoch
Changes(i, g, h) ==
  h \in AGame /\ Fits(i, h) /\ Keeps(g, h) /\ Spares(g, h) /\ h.epoch = g.epoch

\* The epoch a window goes on with when it has read the row.
NextEpoch(i, saved) ==
  IF saved.who = i /\ saved.status = "active" THEN saved.epoch ELSE saved.epoch + 1

Turns(i, g, h) ==
  \/ h.epoch = g.epoch
  \/ g.got # None /\ h.got = None /\ h.epoch = NextEpoch(i, g.got)

\* The fields that Fits and the steps of the game look at, but for the save.
Alike(g, h) ==
  /\ h.st = g.st /\ h.epoch = g.epoch /\ h.expect = g.expect /\ h.board = g.board
  /\ h.seen = g.seen /\ h.pending = g.pending /\ h.wanted = g.wanted
  /\ h.proved = g.proved /\ Spares(g, h)

-----------------------------------------------------------------------------
(***************************************************************************)
(* What the methods of the game do to its fields.                          *)
(***************************************************************************)
LEMMA SubmitFields ==
  ASSUME tick \in Nat, NEW i \in Games, NEW g \in AGame,
         NEW status \in {"active", "released"}
  PROVE  LET h == Submit(g, i, status)
             op == Build(g, i, status)
         IN /\ h \in AGame /\ op \in Operation /\ Alike(g, h)
            /\ h.srev = g.srev + 1 /\ h.built = g.built + 1
            /\ h.save = [step |-> "sent", op |-> op]
            /\ h.claim = IF g.st = "claiming" THEN op.val ELSE g.claim
<1> DEFINE op == Build(g, i, status)
           save == [step |-> "sent", op |-> op]
           claim == IF g.st = "claiming" THEN op.val ELSE g.claim
<1>1. op \in Operation /\ op.val \in Saved
  BY DEF Build, Operation, Value, Saved, AGame
<1> HIDE DEF op
<1>2. save \in Save /\ claim \in Saved \cup {None}
  BY <1>1 DEF Save, AGame
<1>3. Built(g) = [g EXCEPT !.srev = g.srev + 1, !.built = g.built + 1]
  BY DEF Built
<1>4. /\ Alike(g, Built(g)) /\ Built(g).claim = g.claim
      /\ Built(g).srev = g.srev + 1 /\ Built(g).built = g.built + 1
  BY <1>3 DEF Alike, Spares, AGame
<1>5. Built(g) \in AGame
  <2>1. g.srev + 1 \in Nat /\ g.built + 1 \in Nat
    BY DEF AGame
  <2>2. \A n, m \in Nat : [g EXCEPT !.srev = n, !.built = m] \in AGame
    BY DEF AGame
  <2> QED
    BY <1>3, <2>1, <2>2
<1>6. Submit(g, i, status) = [Built(g) EXCEPT !.dirty = FALSE, !.save = save, !.claim = claim]
  BY <1>4 DEF Submit, op
<1> HIDE DEF save, claim
<1>7. \A s \in Save, c \in Saved \cup {None} :
        [Built(g) EXCEPT !.dirty = FALSE, !.save = s, !.claim = c] \in AGame
  BY <1>5 DEF AGame
<1>8. Submit(g, i, status) \in AGame
  BY <1>2, <1>6, <1>7
<1> QED
  BY <1>1, <1>4, <1>5, <1>6, <1>8 DEF Alike, Spares, AGame, op, save, claim

LEMMA SubmitFits ==
  ASSUME tick \in Nat, NEW i \in Games, NEW g \in AGame, Fits(i, g),
         g.st \in {"claiming", "ready"}, g.save = NoSave, ~(g.st = "claiming" /\ g.pending),
         NEW status \in {"active", "released"}
  PROVE  Makes(i, g, Submit(g, i, status))
<1> DEFINE op == Build(g, i, status)
<1>1. PICK h : h = Submit(g, i, status)
  OBVIOUS
<1>2. /\ h \in AGame /\ op \in Operation /\ Alike(g, h)
      /\ h.srev = g.srev + 1 /\ h.built = g.built + 1
      /\ h.save = [step |-> "sent", op |-> op]
      /\ h.claim = IF g.st = "claiming" THEN op.val ELSE g.claim
  BY <1>1, SubmitFields
<1>3. /\ op.val.who = i /\ op.val.form = "good" /\ op.val.srev = g.srev + 1
      /\ op.val.epoch = g.epoch /\ op.val.board = g.board
      /\ op.expect = g.expect /\ op.rev = tick + 1 /\ op.seen = g.seen
  BY DEF Build, Value
<1>4. op # None /\ op.val # None
  BY <1>2, NoneAssumption DEF Operation
<1> HIDE DEF op
<1>5. Builds(i, g, h)
  BY <1>2, <1>3 DEF Builds, Fits, Alike
<1>6. Fits(i, h)
  BY <1>2, <1>3, <1>4 DEF Fits, Alike, NoSave, Spares
<1> QED
  BY <1>1, <1>2, <1>5, <1>6 DEF Makes, Steps, Alike

\* A change of no field that matters.
LEMMA AlikeChanges ==
  ASSUME NEW i \in Games, NEW g \in AGame, Fits(i, g), NEW h \in AGame, Alike(g, h),
         h.save = g.save, h.srev = g.srev, h.claim = g.claim, h.built = g.built
  PROVE  Changes(i, g, h)
<1>1. Fits(i, h)
  BY DEF Fits, Alike, Spares
<1> QED
  BY <1>1 DEF Changes, Keeps, Alike

LEMMA MakesAfter ==
  ASSUME NEW i \in Games, NEW f, NEW g, NEW h, Keeps(f, g), Spares(f, g), Makes(i, g, h)
  PROVE  /\ Steps(i, f, h) /\ Spares(f, h) /\ h.epoch = g.epoch
         /\ g.epoch = f.epoch => Makes(i, f, h)
BY DEF Makes, Steps, Keeps, Builds, Spares

LEMMA ChangesAfter ==
  ASSUME NEW i \in Games, NEW f, NEW g, NEW h, Changes(i, f, g), Changes(i, g, h)
  PROVE  Changes(i, f, h)
BY DEF Changes, Keeps, Spares

LEMMA ChangesMake ==
  ASSUME NEW i \in Games, NEW g, NEW h, Changes(i, g, h)
  PROVE  Makes(i, g, h)
BY DEF Changes, Makes, Steps

LEMMA DirtyFits ==
  ASSUME NEW i \in Games, NEW g \in AGame, Fits(i, g)
  PROVE  Changes(i, g, [g EXCEPT !.dirty = TRUE])
<1>1. PICK h : h = [g EXCEPT !.dirty = TRUE]
  OBVIOUS
<1>2. h \in AGame
  BY <1>1 DEF AGame
<1>3. /\ Alike(g, h) /\ h.save = g.save /\ h.srev = g.srev /\ h.claim = g.claim
      /\ h.built = g.built
  BY <1>1 DEF Alike, Spares, AGame
<1> QED
  BY <1>1, <1>2, <1>3, AlikeChanges

LEMMA AutosaveFits ==
  ASSUME tick \in Nat, NEW i \in Games, NEW g \in AGame, Fits(i, g)
  PROVE  Makes(i, g, Autosave(g, i))
<1>1. CASE g.st = "claiming" \/ (g.st = "ready" /\ g.save # NoSave)
  BY <1>1, DirtyFits, ChangesMake DEF Autosave
<1>2. CASE /\ ~(g.st = "claiming" \/ (g.st = "ready" /\ g.save # NoSave))
           /\ g.st = "ready" /\ CanBuild(g)
  BY <1>2, SubmitFits DEF Autosave
<1>3. CASE /\ ~(g.st = "claiming" \/ (g.st = "ready" /\ g.save # NoSave))
           /\ ~(g.st = "ready" /\ CanBuild(g))
  <2>1. Alike(g, g)
    BY DEF Alike, Spares
  <2> QED
    BY <1>3, <2>1, AlikeChanges, ChangesMake DEF Autosave
<1> QED
  BY <1>1, <1>2, <1>3

LEMMA ClaimFits ==
  ASSUME tick \in Nat, NEW i \in Games, NEW g \in AGame, Fits(i, g),
         g.st = "claiming", ~g.pending
  PROVE  Makes(i, g, Claim(g, i))
<1>1. CASE g.save = NoSave /\ CanBuild(g)
  BY <1>1, SubmitFits DEF Claim
<1>2. CASE ~(g.save = NoSave /\ CanBuild(g))
  BY <1>2, DirtyFits, ChangesMake DEF Claim
<1> QED
  BY <1>1, <1>2

LEMMA ClearedFits ==
  ASSUME NEW i \in Games, NEW g \in AGame, Fits(i, g), g.st # "claiming"
  PROVE  Changes(i, g, Cleared(g))
<1>1. PICK h : h = Cleared(g)
  OBVIOUS
<1>2. h \in AGame
  BY <1>1 DEF Cleared, AGame
<1>3. /\ h.st = g.st /\ h.epoch = g.epoch /\ h.expect = None /\ h.board = g.board
      /\ h.seen = g.seen /\ h.pending = g.pending /\ h.wanted = g.wanted
      /\ h.proved = g.proved /\ h.save = g.save /\ h.srev = g.srev /\ h.built = g.built
      /\ Spares(g, h)
  BY <1>1 DEF Cleared, AGame, Spares
<1>4. Fits(i, h)
  BY <1>3 DEF Fits, Spares
<1> QED
  BY <1>1, <1>2, <1>3, <1>4 DEF Changes, Keeps

LEMMA LoadingFits ==
  ASSUME NEW i \in Games, NEW g \in AGame, Fits(i, g), g.save = NoSave, ~g.pending
  PROVE  Changes(i, g, Loading(g))
<1>1. PICK h : h = Loading(g)
  OBVIOUS
<1>2. h \in AGame
  BY <1>1 DEF Loading, AGame, States
<1>3. /\ h.st = "loading" /\ h.epoch = g.epoch /\ h.expect = g.expect /\ h.board = g.board
      /\ h.seen = g.seen /\ h.pending = g.pending /\ h.wanted = g.wanted
      /\ ~h.proved /\ h.save = g.save /\ h.srev = g.srev /\ h.built = g.built
      /\ Spares(g, h)
  BY <1>1 DEF Loading, AGame, Spares
<1>4. Fits(i, h)
  BY <1>3 DEF Fits, Spares, NoSave
<1> QED
  BY <1>1, <1>2, <1>3, <1>4 DEF Changes, Keeps

LEMMA ReloadFits ==
  ASSUME NEW i \in Games, NEW g \in AGame, Fits(i, g), g.save = NoSave
  PROVE  Changes(i, g, Reload(g))
<1> DEFINE f == Cleared([g EXCEPT !.pending = FALSE])
<1>1. f \in AGame
  BY DEF Cleared, AGame
<1>2. /\ f.st = g.st /\ f.epoch = g.epoch /\ f.expect = None /\ f.board = g.board
      /\ f.seen = g.seen /\ ~f.pending /\ f.wanted = g.wanted
      /\ f.proved = g.proved /\ f.save = g.save /\ f.srev = g.srev /\ f.built = g.built
      /\ Spares(g, f)
  BY DEF Cleared, AGame, Spares
<1> HIDE DEF f
<1>3. Fits(i, f)
  BY <1>2 DEF Fits, Spares, NoSave
<1>4. Changes(i, f, Loading(f))
  BY <1>1, <1>2, <1>3, LoadingFits
<1>5. Keeps(g, f)
  BY <1>2 DEF Keeps
<1> QED
  BY <1>2, <1>4, <1>5 DEF Reload, f, Changes, Keeps, Spares

LEMMA ResetFits ==
  ASSUME tick \in Nat, NEW i \in Games, NEW g \in AGame, Fits(i, g)
  PROVE  Makes(i, g, Reset(g, i))
<1> DEFINE f == [g EXCEPT !.st = "ready", !.board = 0, !.load = "none"]
<1>1. f \in AGame
  <2>1. \A n \in Nat : [g EXCEPT !.st = "ready", !.board = n, !.load = "none"] \in AGame
    BY DEF AGame, States
  <2> QED
    BY <2>1
<1>2. /\ f.st = "ready" /\ f.epoch = g.epoch /\ f.expect = g.expect /\ f.board = 0
      /\ f.seen = g.seen /\ f.pending = g.pending /\ f.wanted = g.wanted
      /\ f.proved = g.proved /\ f.save = g.save /\ f.srev = g.srev /\ f.built = g.built
      /\ Spares(g, f)
  BY DEF AGame, Spares
<1> HIDE DEF f
<1>3. Fits(i, f)
  BY <1>2 DEF Fits, Spares
<1>4. Makes(i, f, Autosave(f, i))
  BY <1>1, <1>3, AutosaveFits
<1>5. Keeps(g, f)
  BY <1>2 DEF Keeps
<1>6. f.epoch = g.epoch /\ Spares(g, f)
  BY <1>2
<1>7. Makes(i, g, Autosave(f, i))
  BY <1>4, <1>5, <1>6, MakesAfter
<1> QED
  BY <1>7 DEF Reset, f

LEMMA AdoptFits ==
  ASSUME tick \in Nat, NEW i \in Games, NEW g \in AGame, Fits(i, g), g.st = "loading",
         NEW saved \in Saved, saved.who = i => Owned(saved),
         saved.status = "active" /\ saved.form = "good" /\ saved.who # i => saved \in confirmed[i]
  PROVE  LET h == Adopt(g, i, saved)
         IN Steps(i, g, h) /\ Spares(g, h) /\ h.epoch = NextEpoch(i, saved)
<1> DEFINE next == [g EXCEPT !.board = saved.board, !.seen = @ \cup {saved.board},
                             !.srev = saved.srev, !.old = FALSE,
                             !.wanted = None, !.shown = None, !.ident = None]
           own == [next EXCEPT !.epoch = saved.epoch, !.st = "ready", !.proved = TRUE]
           new == [next EXCEPT !.epoch = saved.epoch + 1, !.expect = saved, !.st = "claiming"]
<1>1. /\ saved.board \in Nat /\ saved.srev \in Nat /\ saved.epoch \in Nat
      /\ saved.epoch + 1 \in Nat /\ g.seen \cup {saved.board} \in SUBSET Nat
  BY DEF Saved, AGame
<1>2. next \in AGame
  <2>1. \A b \in Nat, s \in SUBSET Nat, n \in Nat :
          [g EXCEPT !.board = b, !.seen = s, !.srev = n, !.old = FALSE,
                    !.wanted = None, !.shown = None, !.ident = None] \in AGame
    BY ZenonT(60) DEF AGame
  <2> QED
    BY <1>1, <2>1
<1>3. /\ next.st = g.st /\ next.expect = g.expect /\ next.board = saved.board
      /\ next.seen = g.seen \cup {saved.board} /\ next.srev = saved.srev
      /\ next.pending = g.pending /\ next.wanted = None /\ next.proved = g.proved
      /\ next.save = g.save /\ next.built = g.built /\ next.claim = g.claim
      /\ Spares(g, next)
  BY DEF AGame, Spares
<1> HIDE DEF next
<1>4. g.save = NoSave /\ ~g.pending /\ ~g.proved /\ g.got \in Saved \cup {None}
  BY DEF Fits, AGame
<1>5. CASE saved.who = i /\ saved.status = "active"
  <2>1. own \in AGame
    <3>1. \A n \in Nat : [next EXCEPT !.epoch = n, !.st = "ready", !.proved = TRUE] \in AGame
      BY <1>2, ZenonT(60) DEF AGame, States
    <3> QED
      BY <1>1, <3>1
  <2>2. /\ own.st = "ready" /\ own.proved /\ own.epoch = saved.epoch
        /\ own.expect = next.expect /\ own.board = next.board /\ own.seen = next.seen
        /\ own.srev = next.srev /\ own.pending = next.pending /\ own.wanted = next.wanted
        /\ own.save = next.save /\ own.built = next.built /\ own.claim = next.claim
        /\ Spares(next, own)
    BY <1>2 DEF AGame, Spares
  <2> HIDE DEF own
  <2>3. Fits(i, own)
    <3>1. own.expect # None => Knows(i, own.expect, own.seen)
      BY <1>3, <2>2 DEF Fits, Knows
    <3>2. own.got # None => own.got.who = Past \/ Owned(own.got)
      BY <1>3, <2>2 DEF Fits, Spares
    <3>3. <<i, own.epoch>> \in granted
      BY <1>5, <2>2 DEF Owned
    <3>4. own.board \in own.seen /\ 0 \in own.seen /\ own.wanted = None
      BY <1>3, <2>2 DEF Fits
    <3>5. own.save = NoSave /\ ~own.pending
      BY <1>3, <1>4, <2>2
    <3> QED
      BY <2>2, <3>1, <3>2, <3>3, <3>4, <3>5 DEF Fits, NoSave
  <2>4. Makes(i, own, Cleared(own))
    BY <2>1, <2>2, <2>3, ClearedFits, ChangesMake
  <2>5. Keeps(g, own) /\ Spares(g, own)
    BY <1>3, <2>2 DEF Keeps, Spares
  <2>6. Adopt(g, i, saved) = Cleared(own)
    BY <1>5 DEF Adopt, own, next
  <2> QED
    BY <1>5, <2>2, <2>4, <2>5, <2>6, MakesAfter DEF NextEpoch
<1>6. CASE ~(saved.who = i /\ saved.status = "active")
  <2>1. new \in AGame
    <3>1. \A n \in Nat, r \in Saved :
            [next EXCEPT !.epoch = n, !.expect = r, !.st = "claiming"] \in AGame
      BY <1>2, ZenonT(60) DEF AGame, States
    <3> QED
      BY <1>1, <3>1
  <2>2. /\ new.st = "claiming" /\ new.epoch = saved.epoch + 1
        /\ new.expect = saved /\ new.board = next.board /\ new.seen = next.seen
        /\ new.srev = next.srev /\ new.pending = next.pending /\ new.wanted = next.wanted
        /\ new.save = next.save /\ new.built = next.built /\ new.claim = next.claim
        /\ new.proved = next.proved /\ Spares(next, new)
    BY <1>2 DEF AGame, Spares
  <2> HIDE DEF new
  <2>3. Fits(i, new)
    <3>1. Knows(i, new.expect, new.seen)
      BY <1>3, <2>2 DEF Knows
    <3>2. new.got # None => new.got.who = Past \/ Owned(new.got)
      BY <1>3, <2>2 DEF Fits, Spares
    <3>3. new.board \in new.seen /\ 0 \in new.seen /\ new.wanted = None
      BY <1>3, <2>2 DEF Fits
    <3>4. new.save = NoSave /\ ~new.pending /\ ~new.proved
      BY <1>3, <1>4, <2>2
    <3> QED
      BY <2>2, <3>1, <3>2, <3>3, <3>4 DEF Fits, NoSave
  <2>4. Makes(i, new, Claim(new, i))
    BY <1>3, <1>4, <2>1, <2>2, <2>3, ClaimFits
  <2>5. Keeps(g, new) /\ Spares(g, new)
    BY <1>3, <2>2 DEF Keeps, Spares
  <2>6. Adopt(g, i, saved) = Claim(new, i)
    BY <1>6 DEF Adopt, new, next
  <2> QED
    BY <1>6, <2>2, <2>4, <2>5, <2>6, MakesAfter DEF NextEpoch
<1> QED
  BY <1>5, <1>6

LEMMA AskFits ==
  ASSUME tick \in Nat, NEW i \in Games, NEW g \in AGame, Fits(i, g), g.st = "loading",
         NEW saved \in Saved, NEW h \in AGame,
         \/ h = [g EXCEPT !.st = "conflict", !.shown = saved, !.wanted = None]
         \/ h = [g EXCEPT !.st = "conflict", !.shown = saved]
  PROVE  Makes(i, g, h)
<1>1. /\ h.st = "conflict" /\ h.epoch = g.epoch /\ h.expect = g.expect /\ h.board = g.board
      /\ h.seen = g.seen /\ h.pending = g.pending /\ h.wanted \in {g.wanted, None}
      /\ h.proved = g.proved /\ h.save = g.save /\ h.srev = g.srev /\ h.built = g.built
      /\ Spares(g, h)
  <2>1. CASE h = [g EXCEPT !.st = "conflict", !.shown = saved, !.wanted = None]
    BY <2>1 DEF AGame, Spares
  <2>2. CASE h = [g EXCEPT !.st = "conflict", !.shown = saved]
    BY <2>2 DEF AGame, Spares
  <2> QED
    BY <2>1, <2>2
<1>2. Fits(i, h)
  BY <1>1 DEF Fits, Spares
<1> QED
  BY <1>1, <1>2 DEF Makes, Steps, Keeps

LEMMA AdoptOrAskFits ==
  ASSUME tick \in Nat, NEW i \in Games, NEW g \in AGame, Fits(i, g), g.st = "loading",
         NEW saved \in Saved, saved.who = i => Owned(saved)
  PROVE  LET h == AdoptOrAsk(g, i, saved)
         IN Steps(i, g, h) /\ Spares(g, h) /\ h.epoch \in {g.epoch, NextEpoch(i, saved)}
<1> DEFINE foreign == saved.status = "active" /\ saved.who # i
<1>1. CASE foreign /\ g.wanted # None /\ saved # g.wanted
  <2>1. [g EXCEPT !.st = "conflict", !.shown = saved, !.wanted = None] \in AGame
    BY DEF AGame, States
  <2>2. AdoptOrAsk(g, i, saved)
          = [g EXCEPT !.st = "conflict", !.shown = saved, !.wanted = None]
    BY <1>1 DEF AdoptOrAsk
  <2>3. Makes(i, g, AdoptOrAsk(g, i, saved))
    BY <2>1, <2>2, AskFits
  <2> QED
    BY <2>3 DEF Makes
<1>2. CASE foreign /\ g.wanted = None
  <2>1. [g EXCEPT !.st = "conflict", !.shown = saved] \in AGame
    BY DEF AGame, States
  <2>2. AdoptOrAsk(g, i, saved) = [g EXCEPT !.st = "conflict", !.shown = saved]
    BY <1>2 DEF AdoptOrAsk
  <2>3. Makes(i, g, AdoptOrAsk(g, i, saved))
    BY <2>1, <2>2, AskFits
  <2> QED
    BY <2>3 DEF Makes
<1>3. CASE ~foreign \/ (g.wanted # None /\ saved = g.wanted)
  <2>1. foreign => saved \in confirmed[i]
    BY <1>3 DEF Fits
  <2>2. AdoptOrAsk(g, i, saved) = Adopt(g, i, saved)
    BY <1>3 DEF AdoptOrAsk
  <2> QED
    BY <2>1, <2>2, AdoptFits
<1> QED
  BY <1>1, <1>2, <1>3

LEMMA QuarantineFits ==
  ASSUME NEW i \in Games, NEW g \in AGame, Fits(i, g), g.st \notin {"claiming", "ready"},
         NEW renew \in BOOLEAN
  PROVE  Steps(i, g, Quarantine(g, renew))
<1>1. PICK h : h = Quarantine(g, renew)
  OBVIOUS
<1>2. h \in AGame
  BY <1>1 DEF Quarantine, AGame, States
<1>3. /\ h.st = "quarantining" /\ h.epoch = g.epoch /\ h.expect = g.expect
      /\ h.board = g.board /\ h.seen = g.seen /\ h.pending = g.pending
      /\ h.wanted = g.wanted /\ h.proved = g.proved /\ h.save = g.save
      /\ h.srev = g.srev /\ h.built = g.built /\ h.got = g.got
  BY <1>1 DEF Quarantine, AGame
<1>4. Fits(i, h)
  BY <1>3 DEF Fits, NoSave
<1> QED
  BY <1>1, <1>2, <1>3, <1>4 DEF Steps, Keeps

\* A window that stops where it is, with nothing on its way.
LEMMA StopFits ==
  ASSUME NEW i \in Games, NEW g \in AGame, Fits(i, g), g.save = NoSave, ~g.pending, ~g.proved,
         NEW st \in States, st \notin {"claiming", "ready"}
  PROVE  Changes(i, g, [g EXCEPT !.st = st])
<1>1. PICK h : h = [g EXCEPT !.st = st]
  OBVIOUS
<1>2. h \in AGame
  BY <1>1 DEF AGame
<1>3. /\ h.st = st /\ h.epoch = g.epoch /\ h.expect = g.expect
      /\ h.board = g.board /\ h.seen = g.seen /\ h.pending = g.pending
      /\ h.wanted = g.wanted /\ h.proved = g.proved /\ h.save = g.save
      /\ h.srev = g.srev /\ h.built = g.built /\ Spares(g, h)
  BY <1>1 DEF AGame, Spares
<1>4. Fits(i, h)
  BY <1>3 DEF Fits, NoSave, Spares
<1> QED
  BY <1>1, <1>2, <1>3, <1>4 DEF Changes, Keeps

LEMMA FailClaimFits ==
  ASSUME NEW i \in Games, NEW g \in AGame, Fits(i, g),
         g.st = "claiming" => g.save = NoSave /\ ~g.pending
  PROVE  Changes(i, g, FailClaim(g))
<1>1. CASE g.st = "claiming"
  <2>1. ~g.proved
    BY <1>1 DEF Fits
  <2> QED
    BY <1>1, <2>1, StopFits DEF FailClaim, States
<1>2. CASE g.st # "claiming"
  BY <1>2, AlikeChanges DEF FailClaim, Alike, Spares
<1> QED
  BY <1>1, <1>2

\* The pending flag goes.
LEMMA SettleFits ==
  ASSUME NEW i \in Games, NEW g \in AGame, Fits(i, g), g.st = "claiming" => g.save = NoSave
  PROVE  Changes(i, g, [g EXCEPT !.pending = FALSE])
<1>1. PICK h : h = [g EXCEPT !.pending = FALSE]
  OBVIOUS
<1>2. h \in AGame
  BY <1>1 DEF AGame
<1>3. /\ h.st = g.st /\ h.epoch = g.epoch /\ h.expect = g.expect
      /\ h.board = g.board /\ h.seen = g.seen /\ ~h.pending /\ h.claim = g.claim
      /\ h.wanted = g.wanted /\ h.proved = g.proved /\ h.save = g.save
      /\ h.srev = g.srev /\ h.built = g.built /\ Spares(g, h)
  BY <1>1 DEF AGame, Spares
<1>4. Fits(i, h)
  BY <1>3 DEF Fits, NoSave, Spares
<1> QED
  BY <1>1, <1>2, <1>3, <1>4 DEF Changes, Keeps

\* A window is opened by an acknowledgement of its own claim.
LEMMA AckedFits ==
  ASSUME NEW i \in Games, NEW g \in AGame, Fits(i, g), NEW how, NEW val,
         g.st = "claiming" => g.save = NoSave,
         g.st = "claiming" /\ how = "committed" /\ Authoritative(g, val)
           => <<i, g.epoch>> \in granted
  PROVE  Changes(i, g, Acked(g, how, val))
<1> DEFINE c == Cleared([g EXCEPT !.pending = FALSE])
           h == [c EXCEPT !.st = "ready", !.proved = TRUE]
<1>1. CASE g.st = "claiming" /\ ~(how = "committed" /\ Authoritative(g, val))
  BY <1>1, ReloadFits DEF Acked
<1>2. c \in AGame
  BY DEF Cleared, AGame
<1>3. /\ c.st = g.st /\ c.epoch = g.epoch /\ c.expect = None /\ c.board = g.board
      /\ c.seen = g.seen /\ ~c.pending /\ c.wanted = g.wanted /\ c.claim = None
      /\ c.proved = g.proved /\ c.save = g.save /\ c.srev = g.srev /\ c.built = g.built
      /\ Spares(g, c)
  BY DEF Cleared, AGame, Spares
<1> HIDE DEF c
<1>4. CASE g.st = "claiming" /\ how = "committed" /\ Authoritative(g, val)
  <2>1. h \in AGame
    <3>1. \A st \in States : [c EXCEPT !.st = st, !.proved = TRUE] \in AGame
      BY <1>2 DEF AGame
    <3>2. "ready" \in States
      BY DEF States
    <3> QED
      BY <3>1, <3>2
  <2>2. /\ h.st = "ready" /\ h.epoch = c.epoch /\ h.expect = c.expect /\ h.board = c.board
        /\ h.seen = c.seen /\ h.pending = c.pending /\ h.wanted = c.wanted
        /\ h.claim = c.claim /\ h.proved /\ h.save = c.save /\ h.srev = c.srev
        /\ h.built = c.built /\ Spares(c, h)
    BY <1>2 DEF AGame, Spares
  <2> HIDE DEF h
  <2>3. Fits(i, h)
    BY <1>3, <1>4, <2>2 DEF Fits, NoSave, Spares
  <2>4. Keeps(g, h) /\ Spares(g, h) /\ h.epoch = g.epoch
    BY <1>3, <2>2 DEF Keeps, Spares
  <2>5. Acked(g, how, val) = h
    BY <1>3, <1>4 DEF Acked, c, h
  <2> QED
    BY <2>1, <2>3, <2>4, <2>5 DEF Changes
<1>5. CASE g.st # "claiming"
  <2>1. Fits(i, c)
    BY <1>3, <1>5 DEF Fits, NoSave, Spares
  <2>2. Keeps(g, c)
    BY <1>3 DEF Keeps
  <2>3. Acked(g, how, val) = c
    BY <1>3, <1>5 DEF Acked, c
  <2> QED
    BY <1>2, <1>3, <2>1, <2>2, <2>3 DEF Changes
<1> QED
  BY <1>1, <1>4, <1>5

LEMMA DirtyMakes ==
  ASSUME tick \in Nat, NEW i \in Games, NEW g \in AGame, Fits(i, g)
  PROVE  Makes(i, g, Dirty(g, i))
<1>1. Makes(i, g, g)
  BY AlikeChanges, ChangesMake DEF Alike, Spares
<1> QED
  BY <1>1, AutosaveFits DEF Dirty
-----------------------------------------------------------------------------
(***************************************************************************)
(* The operations in play.                                                 *)
(***************************************************************************)
LEMMA JournalOps ==
  ASSUME NEW S, NEW s \in Seq(S)
  PROVE  /\ Ops(s) \subseteq S /\ Ops(<<>>) = {}
         /\ s # <<>> => Head(s) \in Ops(s) /\ Tail(s) \in Seq(S) /\ Ops(Tail(s)) \subseteq Ops(s)
<1>1. Len(s) \in Nat /\ DOMAIN s = 1 .. Len(s) /\ \A k \in 1 .. Len(s) : s[k] \in S
  BY LenProperties, ElementOfSeq
<1>2. Ops(s) \subseteq S
  BY <1>1 DEF Ops
<1>3. Ops(<<>>) = {}
  BY DEF Ops
<1>4. ASSUME s # <<>>
      PROVE  Head(s) \in Ops(s) /\ Tail(s) \in Seq(S) /\ Ops(Tail(s)) \subseteq Ops(s)
  <2>1. /\ Tail(s) \in Seq(S) /\ Len(Tail(s)) = Len(s) - 1
        /\ \A k \in 1 .. Len(Tail(s)) : Tail(s)[k] = s[k + 1]
    BY <1>4, HeadTailProperties
  <2>2. Len(s) \in Nat \ {0} /\ Head(s) = s[1]
    BY <1>4, EmptySeq
  <2>3. DOMAIN Tail(s) = 1 .. (Len(s) - 1)
    BY <2>1, LenProperties
  <2>4. Head(s) \in Ops(s)
    BY <1>1, <2>2 DEF Ops
  <2>5. ASSUME NEW x \in Ops(Tail(s))
        PROVE  x \in Ops(s)
    <3>1. PICK k \in 1 .. (Len(s) - 1) : x = Tail(s)[k]
      BY <2>3 DEF Ops
    <3>2. k + 1 \in 1 .. Len(s) /\ x = s[k + 1]
      BY <2>1, <2>2, <3>1
    <3> QED
      BY <1>1, <3>2 DEF Ops
  <2> QED
    BY <2>1, <2>4, <2>5
<1> QED
  BY <1>2, <1>3, <1>4

LEMMA PutOps ==
  ASSUME NEW S, NEW s \in Seq(S), NEW x \in S
  PROVE  <<x>> \o s \in Seq(S) /\ Ops(<<x>> \o s) \subseteq {x} \cup Ops(s)
<1>1. <<x>> \in Seq(S) /\ Len(<<x>>) = 1 /\ <<x>>[1] = x
  OBVIOUS
<1>2. PICK t : t = <<x>> \o s
  OBVIOUS
<1>3. /\ t \in Seq(S) /\ Len(t) = 1 + Len(s)
      /\ \A k \in 1 .. (1 + Len(s)) : t[k] = IF k <= 1 THEN <<x>>[k] ELSE s[k - 1]
  BY <1>1, <1>2, ConcatProperties
<1>4. /\ Len(s) \in Nat /\ DOMAIN s = 1 .. Len(s) /\ DOMAIN t = 1 .. (1 + Len(s))
  BY <1>3, LenProperties
<1>5. ASSUME NEW y \in Ops(t)
      PROVE  y \in {x} \cup Ops(s)
  <2>1. PICK k \in 1 .. (1 + Len(s)) : y = t[k]
    BY <1>4 DEF Ops
  <2>2. CASE k = 1
    BY <1>1, <1>3, <2>1, <2>2
  <2>3. CASE k # 1
    <3>1. k - 1 \in 1 .. Len(s) /\ y = s[k - 1]
      BY <1>3, <1>4, <2>1, <2>3
    <3> QED
      BY <1>4, <3>1 DEF Ops
  <2> QED
    BY <2>2, <2>3
<1> QED
  BY <1>2, <1>3, <1>5

LEMMA InPlayIs ==
  /\ Ops(journal) \subseteq InPlay
  /\ \A i \in Games : Waiting(i) \subseteq InPlay \cup {None}
BY DEF InPlay

LEMMA InPlayTyped ==
  ASSUME TypeOK
  PROVE  InPlay \subseteq Operation
<1>1. Ops(journal) \subseteq Operation
  BY JournalOps DEF TypeOK
<1>2. \A i \in Games : Waiting(i) \subseteq Operation \cup {None}
  BY DEF TypeOK, Waiting, Work, AGame, Save
<1> QED
  BY <1>1, <1>2 DEF InPlay

\* What is in play after a step.
LEMMA InPlayAfter ==
  ASSUME NEW CONSTANT X, Ops(journal)' \subseteq InPlay \cup X,
         \A i \in Games : Waiting(i)' \subseteq InPlay \cup X \cup {None}
  PROVE  InPlay' \subseteq InPlay \cup X
BY DEF InPlay
-----------------------------------------------------------------------------
(***************************************************************************)
(* What holds of the operations and the row, and the steps that keep it.   *)
(***************************************************************************)
NewestSent == \A i \in Games : Sent(i) => SentIsNewest(i)
BoardsKnown == \A i \in Games : Alive(i) => BoardsAreKnown(i)
OpsInv == /\ OperationsKnow /\ OperationsAgree /\ RowAgrees /\ RowIsGranted
          /\ NewestSent /\ BoardsKnown
GamesFit == \A i \in Games : Alive(i) => Fits(i, game[i])
WorksFit == \A i \in Games : WorkFits(i)

LEMMA InvParts ==
  /\ OwnerInv <=> TypeOK /\ OpsInv /\ GamesFit /\ WorksFit
  /\ OwnerInv' <=> TypeOK' /\ OpsInv' /\ GamesFit' /\ WorksFit'
BY DEF OwnerInv, OwnerIndInv, OpsInv, NewestSent, BoardsKnown, GamesFit, WorksFit

\* The windows that run go on, and know no less.
SameWindows ==
  \A i \in Games : Alive(i)' => Alive(i) /\ game[i].seen \subseteq game'[i].seen
ConfirmedStays == \A i \in Games : confirmed[i] \subseteq confirmed'[i]
SentBefore(i) == Sent(i) /\ game'[i].save.op = game[i].save.op

\* The typing of a state, which the arithmetic of the steps needs.
LEMMA Orders ==
  ASSUME TypeOK
  PROVE  /\ tick \in Nat /\ high \in Nat
         /\ \A op \in InPlay : /\ op \in Operation /\ op.rev \in Nat /\ op.val \in Saved
                               /\ op.val.srev \in Nat
         /\ row # None => row \in Saved /\ row.srev \in Nat
BY InPlayTyped DEF TypeOK, Operation, Saved

\* A step that takes no new operation into play and leaves the row.
LEMMA OpsKept ==
  ASSUME TypeOK, OpsInv, InPlay' \subseteq InPlay, UNCHANGED store,
         tick' \in Nat, tick <= tick', ConfirmedStays, SameWindows,
         \A i \in Games : Sent(i)' => SentBefore(i)
  PROVE  OpsInv'
<1>1. row' = row /\ high' = high /\ granted' = granted
  BY DEF store
<1>2. OperationsKnow'
  <2>1. ASSUME NEW op \in InPlay
        PROVE  /\ op.val.who \in Games /\ op.val.form = "good"
               /\ op.rev <= tick' /\ op.val.board \in op.seen
               /\ op.expect # None => Knows(op.val.who, op.expect, op.seen)'
    BY Orders DEF OpsInv, OperationsKnow, Knows, ConfirmedStays
  <2> QED
    BY <2>1 DEF OperationsKnow
<1>3. OperationsAgree'
  BY DEF OpsInv, OperationsAgree, BuiltOn
<1>4. RowAgrees'
  BY <1>1, Orders DEF OpsInv, RowAgrees, BuiltOn
<1>5. RowIsGranted'
  BY <1>1 DEF OpsInv, RowIsGranted, Owned
<1>6. NewestSent'
  BY <1>1 DEF OpsInv, NewestSent, SentIsNewest, SentBefore, BuiltOn
<1>7. BoardsKnown'
  BY <1>1 DEF OpsInv, BoardsKnown, BoardsAreKnown, SameWindows
<1> QED
  BY <1>2, <1>3, <1>4, <1>5, <1>6, <1>7 DEF OpsInv

\* An operation in play is committed.
LEMMA OpsCommitted ==
  ASSUME TypeOK, OpsInv, InPlay' \subseteq InPlay, NEW CONSTANT op, op \in InPlay,
         high < op.rev, row' = op.val, high' = op.rev,
         granted' = granted \cup {<<op.val.who, op.val.epoch>>},
         tick' = tick, ConfirmedStays, SameWindows,
         \A i \in Games : Sent(i)' => SentBefore(i)
  PROVE  OpsInv'
<1>1. OperationsKnow'
  <2>1. ASSUME NEW q \in InPlay
        PROVE  /\ q.val.who \in Games /\ q.val.form = "good"
               /\ q.rev <= tick' /\ q.val.board \in q.seen
               /\ q.expect # None => Knows(q.val.who, q.expect, q.seen)'
    BY DEF OpsInv, OperationsKnow, Knows, ConfirmedStays
  <2> QED
    BY <2>1 DEF OperationsKnow
<1>2. OperationsAgree'
  BY DEF OpsInv, OperationsAgree, BuiltOn
<1>3. RowAgrees'
  BY DEF OpsInv, RowAgrees, BuiltOn, OperationsKnow, OperationsAgree
<1>4. RowIsGranted'
  BY DEF OpsInv, RowIsGranted, Owned, OperationsAgree
<1>5. NewestSent'
  BY DEF OpsInv, NewestSent, SentIsNewest, SentBefore, BuiltOn
<1>6. BoardsKnown'
  BY DEF OpsInv, BoardsKnown, BoardsAreKnown, SameWindows
<1> QED
  BY <1>1, <1>2, <1>3, <1>4, <1>5, <1>6 DEF OpsInv

\* The row is put aside, behind a barrier.
LEMMA OpsQuarantined ==
  ASSUME TypeOK, OpsInv, InPlay' \subseteq InPlay,
         row' = None, high' = tick + 1, granted' = granted,
         tick' = tick + 1, ConfirmedStays, SameWindows,
         \A i \in Games : Sent(i)' => SentBefore(i)
  PROVE  OpsInv'
<1>1. OperationsKnow'
  <2>1. ASSUME NEW q \in InPlay
        PROVE  /\ q.val.who \in Games /\ q.val.form = "good"
               /\ q.rev <= tick' /\ q.val.board \in q.seen
               /\ q.expect # None => Knows(q.val.who, q.expect, q.seen)'
    BY Orders DEF OpsInv, OperationsKnow, Knows, ConfirmedStays
  <2> QED
    BY <2>1 DEF OperationsKnow
<1>2. OperationsAgree'
  BY DEF OpsInv, OperationsAgree, BuiltOn
<1>3. RowAgrees'
  BY Orders DEF OpsInv, RowAgrees
<1>4. RowIsGranted'
  BY Orders DEF OpsInv, RowIsGranted, OperationsKnow
<1>5. NewestSent'
  BY DEF OpsInv, NewestSent, SentIsNewest, SentBefore, BuiltOn
<1>6. BoardsKnown'
  BY DEF OpsInv, BoardsKnown, BoardsAreKnown, SameWindows
<1> QED
  BY <1>1, <1>2, <1>3, <1>4, <1>5, <1>6 DEF OpsInv

\* A window takes a new operation into play: a state it has built, or one of
\* its states with the revision of the durable clock.
LEMMA OpsGrown ==
  ASSUME TypeOK, OpsInv, NEW CONSTANT op, op \in Operation,
         InPlay' \subseteq InPlay \cup {op}, UNCHANGED store,
         tick' = tick + 1, op.rev = tick + 1, ConfirmedStays, SameWindows,
         op.val.who \in Games, op.val.form = "good", op.val.board \in op.seen,
         op.expect # None => Knows(op.val.who, op.expect, op.seen),
         \A other \in InPlay : BuiltOn(op, other.val),
         row # None => BuiltOn(op, row),
         Alive(op.val.who)' => op.val.board \in game'[op.val.who].seen,
         \A i \in Games : Sent(i)' =>
           \/ SentBefore(i) /\ BuiltOn(game[i].save.op, op.val)
           \/ op.val.who = i /\ game'[i].save.op = op
  PROVE  OpsInv'
<1>1. row' = row /\ high' = high /\ granted' = granted
  BY DEF store
<1>2. \A q \in InPlay : q.rev <= tick
  BY DEF OpsInv, OperationsKnow
<1>3. OperationsKnow'
  <2>1. ASSUME NEW q \in InPlay \cup {op}
        PROVE  /\ q.val.who \in Games /\ q.val.form = "good"
               /\ q.rev <= tick' /\ q.val.board \in q.seen
               /\ q.expect # None => Knows(q.val.who, q.expect, q.seen)'
    BY Orders DEF OpsInv, OperationsKnow, Knows, ConfirmedStays
  <2> QED
    BY <2>1 DEF OperationsKnow
<1>4. OperationsAgree'
  BY <1>2, Orders DEF OpsInv, OperationsAgree, BuiltOn
<1>5. RowAgrees'
  BY <1>1, Orders DEF OpsInv, RowAgrees, BuiltOn
<1>6. RowIsGranted'
  BY <1>1, Orders DEF OpsInv, RowIsGranted, RowAgrees, Owned
<1>7. NewestSent'
  <2>1. op # None
    BY NoneAssumption
  <2> SUFFICES ASSUME NEW i \in Games, Sent(i)'
               PROVE  SentIsNewest(i)'
    BY DEF NewestSent
  <2>2. CASE SentBefore(i) /\ BuiltOn(game[i].save.op, op.val)
    BY <1>1, <2>2 DEF OpsInv, NewestSent, SentIsNewest, SentBefore, BuiltOn
  <2>3. CASE op.val.who = i /\ game'[i].save.op = op
    BY <1>1, <2>1, <2>3 DEF SentIsNewest, BuiltOn
  <2> QED
    BY <2>2, <2>3
<1>8. BoardsKnown'
  BY <1>1 DEF OpsInv, BoardsKnown, BoardsAreKnown, SameWindows
<1> QED
  BY <1>3, <1>4, <1>5, <1>6, <1>7, <1>8 DEF OpsInv
-----------------------------------------------------------------------------
(***************************************************************************)
(* A step of one window.                                                   *)
(***************************************************************************)
LEMMA FitsGrows ==
  ASSUME NEW i \in Games, NEW CONSTANT g, Fits(i, g),
         granted \subseteq granted', confirmed[i] \subseteq confirmed'[i]
  PROVE  Fits(i, g)'
BY DEF Fits, Knows, Owned

\* The windows but one, and what the one is after the step.
LEMMA GamesFitAfter ==
  ASSUME TypeOK, GamesFit, NEW i \in Games, NEW CONSTANT h, game' = [game EXCEPT ![i] = h],
         Alive(i)' => Fits(i, h)', granted \subseteq granted', ConfirmedStays
  PROVE  GamesFit'
<1> SUFFICES ASSUME NEW j \in Games, Alive(j)'
             PROVE  Fits(j, game[j])'
  BY DEF GamesFit
<1>1. CASE j = i
  <2>1. game'[j] = h
    BY <1>1 DEF TypeOK
  <2> QED
    BY <1>1, <2>1 DEF Fits
<1>2. CASE j # i
  <2>1. PICK g : g = game[j]
    OBVIOUS
  <2>2. game'[j] = g
    BY <1>2, <2>1 DEF TypeOK
  <2>3. Fits(j, g)
    BY <2>1, <2>2 DEF GamesFit, Alive
  <2>4. Fits(j, g)'
    BY <2>3, FitsGrows DEF ConfirmedStays
  <2> QED
    BY <2>2, <2>4 DEF Fits
<1> QED
  BY <1>1, <1>2

LEMMA GameStep ==
  ASSUME OwnerInv, NEW i \in Games, NEW CONSTANT g, NEW CONSTANT h,
         g.built = game[i].built, game[i].seen \subseteq g.seen,
         g.save \in {game[i].save, NoSave}, work[i].mine => g.save = game[i].save,
         h \in AGame, Alive(i)' => Alive(i) /\ Fits(i, h)',
         Keeps(g, h) \/ (Alive(i) /\ Builds(i, g, h)),
         Act(i, h), UNCHANGED writing, moves' \in Nat, faults' \in Nat,
         confirmed' \in [Games -> SUBSET (Saved \cup {None})], ConfirmedStays
  PROVE  OwnerInv'
<1>1. TypeOK /\ OpsInv /\ GamesFit /\ WorksFit
  BY InvParts
<1>2. /\ game' = [game EXCEPT ![i] = h] /\ game'[i] = h
      /\ \A j \in Games : j # i => game'[j] = game[j]
  BY <1>1 DEF Act, Set, TypeOK
<1>3. /\ row' = row /\ high' = high /\ rowSeen' = rowSeen /\ granted' = granted
      /\ journal' = journal /\ work' = work /\ held' = held /\ event' = event
  BY DEF writing, store
<1>4. tick' = IF Keeps(g, h) THEN tick ELSE tick + 1
  BY <1>1 DEF Act, Ticks, Keeps, Builds, TypeOK, AGame
<1>5. TypeOK'
  BY <1>1, <1>2, <1>3, <1>4 DEF TypeOK
<1>6. SameWindows
  BY <1>2 DEF SameWindows, Alive, Keeps, Builds
<1>7. \A j \in Games : j # i => /\ Waiting(j)' \subseteq InPlay \cup {None}
                                /\ Sent(j)' => SentBefore(j)
  <2> SUFFICES ASSUME NEW j \in Games, j # i
               PROVE  /\ Waiting(j)' \subseteq InPlay \cup {None}
                      /\ Sent(j)' => SentBefore(j)
    OBVIOUS
  <2>1. game'[j] = game[j] /\ work'[j] = work[j] /\ held'[j] = held[j]
    BY <1>2, <1>3
  <2>2. Waiting(j)' = Waiting(j)
    BY <2>1 DEF Waiting, Sent
  <2> QED
    BY <2>1, <2>2, InPlayIs DEF Sent, SentBefore
<1>8. Ops(journal)' \subseteq InPlay
  BY <1>3, InPlayIs
<1>9. OpsInv'
  <2>1. CASE Keeps(g, h)
    <3>1. h.save \in {game[i].save, NoSave}
      BY <2>1 DEF Keeps
    <3>2. Sent(i)' => SentBefore(i)
      BY <1>2, <3>1 DEF Sent, SentBefore, NoSave
    <3>3. Waiting(i)' \subseteq Waiting(i)
      BY <1>3, <3>2 DEF Waiting, SentBefore
    <3>4. InPlay' \subseteq InPlay
      <4>1. \A j \in Games : Waiting(j)' \subseteq InPlay \cup {None}
        BY <1>7, <3>3, InPlayIs
      <4> QED
        BY <1>8, <4>1 DEF InPlay
    <3>5. tick' \in Nat /\ tick <= tick'
      BY <1>1, <1>4, <2>1 DEF TypeOK
    <3> QED
      BY <1>1, <1>3, <1>6, <1>7, <3>2, <3>4, <3>5, OpsKept DEF store
  <2>2. CASE ~Keeps(g, h)
    <3>1. PICK op : op = h.save.op
      OBVIOUS
    <3>2. Builds(i, g, h) /\ Alive(i)
      BY <2>2
    <3>3. /\ op \in Operation /\ op.val.who = i /\ op.val.form = "good" /\ op.rev = tick + 1
          /\ op.seen = h.seen /\ op.val.board \in h.seen
          /\ op.expect # None => Knows(i, op.expect, h.seen)
          /\ game[i].seen \subseteq op.seen
      BY <3>1, <3>2 DEF Builds
    <3>4. Waiting(i)' \subseteq Waiting(i) \cup {op}
      BY <1>2, <1>3, <3>1 DEF Waiting
    <3>5. InPlay' \subseteq InPlay \cup {op}
      <4>1. \A j \in Games : Waiting(j)' \subseteq InPlay \cup {op} \cup {None}
        BY <1>7, <3>4, InPlayIs
      <4> QED
        BY <1>8, <4>1 DEF InPlay
    <3>6. BoardsAreKnown(i)
      BY <1>1, <3>2 DEF OpsInv, BoardsKnown
    <3>7. /\ \A other \in InPlay : BuiltOn(op, other.val)
          /\ row # None => BuiltOn(op, row)
      BY <3>3, <3>6 DEF BuiltOn, BoardsAreKnown
    <3>8. \A j \in Games : Sent(j)' => \/ SentBefore(j) /\ BuiltOn(game[j].save.op, op.val)
                                       \/ op.val.who = j /\ game'[j].save.op = op
      <4> SUFFICES ASSUME NEW j \in Games, j # i, Sent(j)'
                   PROVE  SentBefore(j) /\ BuiltOn(game[j].save.op, op.val)
        BY <1>2, <3>1, <3>3
      <4>1. SentBefore(j) /\ game[j].save.op.val.who = j
        BY <1>1, <1>7 DEF SentBefore, OpsInv, NewestSent, SentIsNewest
      <4> QED
        BY <3>3, <4>1 DEF BuiltOn
    <3>9. tick' = tick + 1
      BY <1>4, <2>2
    <3> QED
      BY <1>1, <1>2, <1>3, <1>6, <3>3, <3>5, <3>7, <3>8, <3>9, OpsGrown DEF store
  <2> QED
    BY <2>1, <2>2
<1>10. GamesFit'
  BY <1>1, <1>2, <1>3, GamesFitAfter
<1>11. WorksFit'
  <2> SUFFICES ASSUME NEW j \in Games
               PROVE  WorkFits(j)'
    BY DEF WorksFit
  <2>1. WorkFits(j)
    BY <1>1 DEF WorksFit
  <2>2. work[j].mine /\ Alive(j)' => game'[j].save = game[j].save /\ Alive(j)
    <3>1. CASE j # i
      BY <1>2, <3>1 DEF Alive
    <3>2. CASE j = i /\ work[i].mine /\ Alive(i)'
      <4>1. g.save = [step |-> "taken", op |-> work[i].op]
        BY <2>1, <3>2 DEF WorkFits
      <4> QED
        BY <1>2, <3>2, <4>1 DEF Keeps, Builds, NoSave
    <3> QED
      BY <3>1, <3>2
  <2>3. work'[j] = work[j] /\ event'[j] = event[j]
    BY <1>3
  <2>4. /\ work'[j].step = "idle" => work'[j] = NoWork
        /\ work'[j].step = "write" => work'[j].op # None
    BY <2>1, <2>3 DEF WorkFits
  <2>5. work'[j].mine /\ Alive(j)' => game'[j].save = [step |-> "taken", op |-> work'[j].op]
    <3>1. work[j].mine /\ Alive(j) => game[j].save = [step |-> "taken", op |-> work[j].op]
      BY <2>1 DEF WorkFits
    <3> QED
      BY <2>2, <2>3, <3>1
  <2>6. event'[j].state = "committed" /\ event'[j].val # None => Owned(event[j].val)'
    BY <1>3, <2>1, <2>3 DEF WorkFits, Owned
  <2> QED
    BY <2>4, <2>5, <2>6 DEF WorkFits
<1> QED
  BY <1>5, <1>9, <1>10, <1>11, InvParts
\* A method of a window that runs.
LEMMA MethodStep ==
  ASSUME OwnerInv, NEW i \in Games, NEW CONSTANT h, Alive(i), Steps(i, game[i], h),
         Act(i, h), UNCHANGED <<writing, confirmed>>, moves' \in Nat, faults' \in Nat
  PROVE  OwnerInv'
<1>1. PICK g : g = game[i]
  OBVIOUS
<1>2. confirmed' \in [Games -> SUBSET (Saved \cup {None})] /\ ConfirmedStays
  BY DEF OwnerInv, TypeOK, ConfirmedStays
<1>3. granted' = granted /\ writing' = writing
  BY DEF writing, store
<1>4. Fits(i, h)'
  BY <1>3, FitsGrows DEF Steps
<1>5. /\ g.built = game[i].built /\ game[i].seen \subseteq g.seen /\ g.save = game[i].save
      /\ h \in AGame /\ (Keeps(g, h) \/ Builds(i, g, h))
  BY <1>1 DEF Steps
<1>6. /\ g.save \in {game[i].save, NoSave} /\ (work[i].mine => g.save = game[i].save)
      /\ (Alive(i)' => Alive(i) /\ Fits(i, h)')
      /\ (Keeps(g, h) \/ (Alive(i) /\ Builds(i, g, h)))
  BY <1>4, <1>5
<1>7. UNCHANGED writing
  OBVIOUS
<1> QED
  BY <1>2, <1>5, <1>6, <1>7, GameStep

\* The fields change, and nothing is built.
LEMMA SetStep ==
  ASSUME OwnerInv, NEW i \in Games, NEW CONSTANT h, Alive(i), h \in AGame, Fits(i, h),
         Keeps(game[i], h), Set(i, h), UNCHANGED <<backend, confirmed>>,
         moves' \in Nat, faults' \in Nat
  PROVE  OwnerInv'
<1>1. Act(i, h) /\ UNCHANGED <<writing, confirmed>>
  BY DEF Act, Ticks, backend, Keeps
<1> QED
  BY <1>1, MethodStep DEF Steps

LEMMA Typed ==
  ASSUME OwnerInv, NEW i \in Games
  PROVE  /\ TypeOK /\ tick \in Nat /\ moves \in Nat /\ faults \in Nat /\ game[i] \in AGame
         /\ WorkFits(i) /\ (Alive(i) => Fits(i, game[i]))
BY InvParts DEF TypeOK, GamesFit, WorksFit

LEMMA FaultCounts ==
  ASSUME faults \in Nat, Fault
  PROVE  faults' \in Nat
BY DEF Fault

LEMMA ReadRowKeeps ==
  ASSUME OwnerInv, NEW i \in Games, ReadRow(i)
  PROVE  OwnerInv'
<1>1. PICK h : h = [game[i] EXCEPT !.load = "done", !.got = row]
  OBVIOUS
<1>2. PICK g : g = game[i]
  OBVIOUS
<1>3. TypeOK /\ game[i] \in AGame /\ moves' \in Nat /\ faults' \in Nat
  BY Typed DEF ReadRow
<1>4. h \in AGame
  <2>1. \A r \in Saved \cup {None} : [game[i] EXCEPT !.load = "done", !.got = r] \in AGame
    BY <1>3 DEF AGame
  <2> QED
    BY <1>1, <1>3, <2>1 DEF TypeOK
<1>5. /\ h.st = game[i].st /\ h.epoch = game[i].epoch /\ h.expect = game[i].expect
      /\ h.board = game[i].board /\ h.seen = game[i].seen /\ h.pending = game[i].pending
      /\ h.wanted = game[i].wanted /\ h.claim = game[i].claim /\ h.proved = game[i].proved
      /\ h.save = game[i].save /\ h.srev = game[i].srev /\ h.built = game[i].built
      /\ h.got = row
  BY <1>1, <1>3 DEF AGame
<1>6. ASSUME Alive(i)
      PROVE  Fits(i, h)'
  <2>1. row # None => row.who = Past \/ Owned(row)
    BY InvParts DEF OpsInv, RowIsGranted
  <2>2. Fits(i, h)
    BY <1>5, <1>6, <2>1, Typed DEF Fits
  <2> QED
    BY <2>2, FitsGrows DEF ReadRow, backend, writing, store
<1>7. /\ Set(i, h) /\ UNCHANGED <<backend, confirmed>> /\ Keeps(g, h)
  BY <1>1, <1>2, <1>5 DEF ReadRow, Keeps
<1>8. Act(i, h) /\ UNCHANGED writing
  BY <1>2, <1>7 DEF Act, Ticks, backend, Keeps
<1>9. Alive(i)' => Alive(i)
  BY <1>3, <1>5, <1>7 DEF Set, Alive, TypeOK
<1>10. confirmed' \in [Games -> SUBSET (Saved \cup {None})] /\ ConfirmedStays
  BY <1>3, <1>7 DEF TypeOK, ConfirmedStays
<1>11. /\ g.built = game[i].built /\ game[i].seen \subseteq g.seen /\ g.save = game[i].save
  BY <1>2
<1> QED
  BY <1>3, <1>4, <1>6, <1>7, <1>8, <1>9, <1>10, <1>11, GameStep
\* A step of a window by methods of the game.
Method(i) ==
  /\ Alive(i)
  /\ \E h \in AGame : /\ Act(i, h) /\ Steps(i, game[i], h)
                      /\ Calm(i) => Spares(game[i], h) /\ Turns(i, game[i], h)

LEMMA ReadFailsSteps ==
  ASSUME OwnerInv, NEW i \in Games, ReadFails(i)
  PROVE  Method(i)
<1>1. PICK h : h = [game[i] EXCEPT !.load = "none", !.st = "failed"]
  OBVIOUS
<1>2. game[i] \in AGame /\ Alive(i) /\ Fits(i, game[i]) /\ game[i].st = "loading"
  BY Typed DEF ReadFails, Alive
<1>3. h \in AGame
  BY <1>1, <1>2 DEF AGame, States
<1>4. /\ h.st = "failed" /\ h.epoch = game[i].epoch /\ h.expect = game[i].expect
      /\ h.board = game[i].board /\ h.seen = game[i].seen /\ h.pending = game[i].pending
      /\ h.wanted = game[i].wanted /\ h.claim = game[i].claim /\ h.proved = game[i].proved
      /\ h.save = game[i].save /\ h.srev = game[i].srev /\ h.built = game[i].built
      /\ Spares(game[i], h)
  BY <1>1, <1>2 DEF AGame, Spares
<1>5. Fits(i, h)
  BY <1>2, <1>4 DEF Fits, Spares
<1>6. Act(i, h)
  BY <1>1, <1>4 DEF ReadFails, Act, Ticks, backend
<1> QED
  BY <1>2, <1>3, <1>4, <1>5, <1>6 DEF Method, Steps, Keeps, Turns

LEMMA PollLoadSteps ==
  ASSUME OwnerInv, NEW i \in Games, PollLoad(i)
  PROVE  Method(i)
<1> DEFINE saved == game[i].got
           g == [game[i] EXCEPT !.load = "none", !.got = None,
                                !.ident = IF saved = None THEN @ ELSE saved]
<1>1. /\ tick \in Nat /\ game[i] \in AGame /\ Alive(i) /\ Fits(i, game[i])
      /\ game[i].st = "loading" /\ saved \in Saved \cup {None}
      /\ game[i].ident \in Saved \cup {None}
  BY Typed DEF PollLoad, Alive, AGame
<1>2. g \in AGame
  <2>1. \A x \in Saved \cup {None} :
          [game[i] EXCEPT !.load = "none", !.got = None, !.ident = x] \in AGame
    BY <1>1 DEF AGame
  <2>2. g = [game[i] EXCEPT !.load = "none", !.got = None,
                            !.ident = IF saved = None THEN game[i].ident ELSE saved]
    BY <1>1 DEF AGame
  <2>3. (IF saved = None THEN game[i].ident ELSE saved) \in Saved \cup {None}
    BY <1>1
  <2> QED
    BY <2>1, <2>2, <2>3
<1>3. /\ Alike(game[i], g) /\ g.save = game[i].save /\ g.srev = game[i].srev
      /\ g.claim = game[i].claim /\ g.built = game[i].built /\ g.got = None
  BY <1>1 DEF Alike, Spares, AGame
<1> HIDE DEF g
<1>4. /\ Fits(i, g) /\ g.st = "loading" /\ Keeps(game[i], g) /\ Spares(game[i], g)
      /\ g.save = NoSave /\ ~g.pending /\ ~g.proved
  <2>1. Makes(i, game[i], g)
    BY <1>1, <1>2, <1>3, AlikeChanges, ChangesMake
  <2>2. Fits(i, g) /\ g.st = "loading" /\ Keeps(game[i], g) /\ Spares(game[i], g)
    BY <1>1, <1>3, <2>1 DEF Makes, Steps, Keeps, Alike
  <2> QED
    BY <2>2 DEF Fits
<1>5. CASE saved = None
  <2> DEFINE f == [g EXCEPT !.st = "claiming"]
  <2>1. f \in AGame
    BY <1>2 DEF AGame, States
  <2>2. /\ f.st = "claiming" /\ f.epoch = g.epoch /\ f.expect = g.expect
        /\ f.board = g.board /\ f.seen = g.seen /\ f.pending = g.pending
        /\ f.wanted = g.wanted /\ f.claim = g.claim /\ f.proved = g.proved
        /\ f.save = g.save /\ f.srev = g.srev /\ f.built = g.built /\ f.got = g.got
        /\ Spares(g, f)
    BY <1>2 DEF AGame, Spares
  <2> HIDE DEF f
  <2>3. Fits(i, f)
    BY <1>3, <1>4, <2>2 DEF Fits, NoSave
  <2>4. Makes(i, f, Claim(f, i))
    BY <1>1, <1>4, <2>1, <2>2, <2>3, ClaimFits
  <2>5. Keeps(game[i], f) /\ Spares(game[i], f) /\ f.epoch = game[i].epoch
    BY <1>3, <1>4, <2>2 DEF Keeps, Spares, Alike
  <2>6. Makes(i, game[i], Claim(f, i))
    BY <2>4, <2>5, MakesAfter
  <2>7. Act(i, Claim(f, i))
    BY <1>5 DEF PollLoad, f, g
  <2> QED
    BY <1>1, <2>6, <2>7 DEF Method, Makes, Steps, Turns
<1>6. CASE saved # None /\ saved.form = "old"
  <2>1. PICK h : h = [g EXCEPT !.st = "failed", !.old = TRUE]
    OBVIOUS
  <2>2. h \in AGame
    BY <1>2, <2>1 DEF AGame, States
  <2>3. /\ h.st = "failed" /\ h.epoch = g.epoch /\ h.expect = g.expect
        /\ h.board = g.board /\ h.seen = g.seen /\ h.pending = g.pending
        /\ h.wanted = g.wanted /\ h.claim = g.claim /\ h.proved = g.proved
        /\ h.save = g.save /\ h.srev = g.srev /\ h.built = g.built /\ h.got = g.got
    BY <1>2, <2>1 DEF AGame
  <2>4. Fits(i, h)
    BY <1>4, <2>3 DEF Fits, NoSave
  <2>5. Keeps(game[i], h)
    BY <1>4, <2>3 DEF Keeps
  <2>6. Act(i, h)
    BY <1>6, <2>1 DEF PollLoad, g
  <2>7. ~Calm(i)
    BY <1>6 DEF Calm
  <2> QED
    BY <1>1, <2>2, <2>4, <2>5, <2>6, <2>7 DEF Method, Steps
<1>7. CASE saved # None /\ saved.form = "bad"
  <2>1. Steps(i, g, Quarantine(g, FALSE))
    BY <1>2, <1>4, QuarantineFits
  <2>2. Steps(i, game[i], Quarantine(g, FALSE))
    BY <1>4, <2>1 DEF Steps, Keeps, Builds
  <2>3. Act(i, Quarantine(g, FALSE))
    BY <1>7 DEF PollLoad, g
  <2>4. ~Calm(i)
    BY <1>7 DEF Calm
  <2> QED
    BY <1>1, <2>2, <2>3, <2>4 DEF Method, Steps
<1>8. CASE saved # None /\ saved.form \notin {"old", "bad"}
  <2>1. saved.who = i => Owned(saved)
    BY <1>1, <1>8, SlotAssumption DEF Fits
  <2>2. PICK h : h = AdoptOrAsk(g, i, saved)
    OBVIOUS
  <2>3. Steps(i, g, h) /\ Spares(g, h) /\ h.epoch \in {g.epoch, NextEpoch(i, saved)}
    BY <1>1, <1>2, <1>4, <1>8, <2>1, <2>2, AdoptOrAskFits
  <2>4. Steps(i, game[i], h) /\ Spares(game[i], h)
    BY <1>4, <2>3 DEF Steps, Keeps, Builds, Spares
  <2>5. Turns(i, game[i], h)
    BY <1>3, <1>8, <2>3 DEF Turns, Spares, Alike
  <2>6. Act(i, h)
    BY <1>8, <2>2 DEF PollLoad, g
  <2> QED
    BY <1>1, <2>4, <2>5, <2>6 DEF Method, Steps
<1> QED
  BY <1>5, <1>6, <1>7, <1>8
LEMMA MoveSteps ==
  ASSUME OwnerInv, NEW i \in Games, Move(i)
  PROVE  Method(i) /\ moves' \in Nat
<1>1. PICK n : n = moves'
  OBVIOUS
<1>2. PICK h : h = [game[i] EXCEPT !.board = n, !.seen = @ \cup {n}, !.dirty = TRUE]
  OBVIOUS
<1>3. /\ game[i] \in AGame /\ Alive(i) /\ Fits(i, game[i]) /\ game[i].st = "ready" /\ n \in Nat
  BY <1>1, Typed DEF Move, Playing, Alive
<1>4. h \in AGame
  <2>1. \A b \in Nat, s \in SUBSET Nat :
          [game[i] EXCEPT !.board = b, !.seen = s, !.dirty = TRUE] \in AGame
    BY <1>3 DEF AGame
  <2>2. game[i].seen \cup {n} \in SUBSET Nat
    BY <1>3 DEF AGame
  <2> QED
    BY <1>2, <1>3, <2>1, <2>2
<1>5. /\ h.st = "ready" /\ h.epoch = game[i].epoch /\ h.expect = game[i].expect
      /\ h.board = n /\ h.seen = game[i].seen \cup {n} /\ h.pending = game[i].pending
      /\ h.wanted = game[i].wanted /\ h.claim = game[i].claim /\ h.proved = game[i].proved
      /\ h.save = game[i].save /\ h.srev = game[i].srev /\ h.built = game[i].built
      /\ Spares(game[i], h)
  BY <1>2, <1>3 DEF AGame, Spares
<1>6. Fits(i, h)
  BY <1>3, <1>5 DEF Fits, Knows, Spares
<1>7. Act(i, h)
  BY <1>1, <1>2, <1>5 DEF Move, Act, Ticks, backend
<1> QED
  BY <1>1, <1>3, <1>4, <1>5, <1>6, <1>7 DEF Method, Steps, Keeps, Turns

LEMMA FlushSteps ==
  ASSUME OwnerInv, NEW i \in Games, Flush(i)
  PROVE  Method(i)
<1>1. Alive(i)
  BY DEF Flush, Playing, Alive
<1>2. Makes(i, game[i], Autosave(game[i], i))
  BY <1>1, Typed, AutosaveFits
<1> QED
  BY <1>1, <1>2 DEF Flush, Method, Makes, Steps, Turns

LEMMA RestartSteps ==
  ASSUME OwnerInv, NEW i \in Games, Restart(i)
  PROVE  Method(i) /\ moves' \in Nat
<1>1. Alive(i)
  BY DEF Restart, Playing, Alive
<1>2. Makes(i, game[i], Reset(game[i], i))
  BY <1>1, Typed, ResetFits
<1>3. moves' \in Nat
  BY Typed DEF Restart
<1> QED
  BY <1>1, <1>2, <1>3 DEF Restart, Method, Makes, Steps, Turns

LEMMA RetryLoadSteps ==
  ASSUME OwnerInv, NEW i \in Games, RetryLoad(i)
  PROVE  Method(i)
<1>1. Alive(i) /\ game[i] \in AGame /\ Fits(i, game[i])
  BY Typed DEF RetryLoad, Alive
<1>2. game[i].save = NoSave /\ ~game[i].pending
  BY <1>1 DEF RetryLoad, Fits
<1>3. Changes(i, game[i], Loading(game[i]))
  BY <1>1, <1>2, LoadingFits
<1>4. Act(i, Loading(game[i]))
  BY <1>3 DEF RetryLoad, Act, Ticks, backend, Changes, Keeps
<1> QED
  BY <1>1, <1>3, <1>4 DEF Method, Changes, Steps, Turns

LEMMA ConfirmNewGameSteps ==
  ASSUME OwnerInv, NEW i \in Games, ConfirmNewGame(i)
  PROVE  Method(i)
<1>1. Alive(i) /\ game[i] \in AGame /\ Fits(i, game[i]) /\ tick \in Nat /\ game[i].st = "failed"
  BY Typed DEF ConfirmNewGame, Alive
<1>2. CASE game[i].old
  <2>1. Steps(i, game[i], Quarantine(game[i], TRUE))
    BY <1>1, QuarantineFits
  <2>2. Act(i, Quarantine(game[i], TRUE))
    BY <1>2 DEF ConfirmNewGame
  <2> QED
    BY <1>1, <1>2, <2>1, <2>2 DEF Method, Steps, Calm
<1>3. CASE ~game[i].old
  <2>1. Makes(i, game[i], Reset(game[i], i))
    BY <1>1, ResetFits
  <2> QED
    BY <1>1, <1>3, <2>1 DEF ConfirmNewGame, Method, Makes, Steps, Turns
<1> QED
  BY <1>2, <1>3

LEMMA CloseSlowlySteps ==
  ASSUME OwnerInv, NEW i \in Games, CloseSlowly(i)
  PROVE  Method(i)
<1>1. PICK h : h = [game[i] EXCEPT !.leaving = TRUE]
  OBVIOUS
<1>2. game[i] \in AGame /\ Alive(i) /\ Fits(i, game[i])
  BY Typed DEF CloseSlowly, Alive
<1>3. h \in AGame
  BY <1>1, <1>2 DEF AGame
<1>4. /\ Alike(game[i], h) /\ h.save = game[i].save /\ h.srev = game[i].srev
      /\ h.claim = game[i].claim /\ h.built = game[i].built
  BY <1>1, <1>2 DEF AGame, Alike, Spares
<1>5. Changes(i, game[i], h)
  BY <1>2, <1>3, <1>4, AlikeChanges
<1>6. Act(i, h)
  BY <1>1, <1>4 DEF CloseSlowly, Act, Ticks, backend
<1> QED
  BY <1>2, <1>5, <1>6 DEF Method, Changes, Steps, Turns

LEMMA PollStatusSteps ==
  ASSUME OwnerInv, NEW i \in Games, PollStatus(i)
  PROVE  Method(i)
<1> DEFINE g == game[i]
           f == [g EXCEPT !.pending = FALSE]
<1>1. /\ g \in AGame /\ Alive(i) /\ Fits(i, g) /\ g.pending /\ WorkFits(i)
      /\ event[i].state \in {"committed", "refused", "nondurable"}
  BY Typed DEF PollStatus
<1>2. g.st = "claiming" => g.save = NoSave
  BY <1>1 DEF Fits
<1>3. Changes(i, g, f)
  BY <1>1, <1>2, SettleFits
<1>4. CASE event[i].state # "committed"
  <2>1. f \in AGame /\ Fits(i, f) /\ ~f.pending /\ f.st = g.st /\ f.save = g.save
    BY <1>1, <1>3 DEF Changes, AGame
  <2> HIDE DEF f
  <2>2. Changes(i, f, FailClaim(f))
    BY <1>2, <2>1, FailClaimFits
  <2>3. Changes(i, g, FailClaim(f))
    BY <1>3, <2>2, ChangesAfter
  <2>4. Set(i, FailClaim(f))
    BY <1>4 DEF PollStatus, f
  <2>5. Act(i, FailClaim(f))
    BY <2>3, <2>4 DEF PollStatus, Act, Ticks, backend, Changes, Keeps
  <2> QED
    BY <1>1, <2>3, <2>5 DEF Method, Changes, Steps, Turns
<1>5. CASE event[i].state = "committed" /\ g.st = "claiming"
  <2>1. PICK val : val = event[i].val
    OBVIOUS
  <2>2. Authoritative(g, val) => <<i, g.epoch>> \in granted
    BY <1>1, <1>5, <2>1 DEF Authoritative, Fits, WorkFits, Owned
  <2>3. Changes(i, g, Acked(g, "committed", val))
    BY <1>1, <1>2, <2>2, AckedFits
  <2>4. Set(i, Acked(g, "committed", val))
    BY <1>5, <2>1 DEF PollStatus
  <2>5. Act(i, Acked(g, "committed", val))
    BY <2>3, <2>4 DEF PollStatus, Act, Ticks, backend, Changes, Keeps
  <2> QED
    BY <1>1, <2>3, <2>5 DEF Method, Changes, Steps, Turns
<1>6. CASE event[i].state = "committed" /\ g.st # "claiming"
  <2>1. Set(i, f)
    BY <1>6 DEF PollStatus
  <2>2. Act(i, f)
    BY <1>3, <2>1 DEF PollStatus, Act, Ticks, backend, Changes, Keeps
  <2> QED
    BY <1>1, <1>3, <2>2 DEF Method, Changes, Steps, Turns
<1> QED
  BY <1>4, <1>5, <1>6

LEMMA PollQuarantineSteps ==
  ASSUME OwnerInv, NEW i \in Games, PollQuarantine(i)
  PROVE  Method(i)
<1> DEFINE how == game[i].quarantine
           g == [game[i] EXCEPT !.quarantine = "none", !.renew = FALSE]
<1>1. /\ game[i] \in AGame /\ Alive(i) /\ Fits(i, game[i]) /\ tick \in Nat
      /\ game[i].st = "quarantining" /\ ~Calm(i)
  BY Typed DEF PollQuarantine, Calm
<1>2. g \in AGame
  BY <1>1 DEF AGame
<1>3. /\ g.st = "quarantining" /\ g.epoch = game[i].epoch /\ g.expect = game[i].expect
      /\ g.board = game[i].board /\ g.seen = game[i].seen /\ g.pending = game[i].pending
      /\ g.wanted = game[i].wanted /\ g.claim = game[i].claim /\ g.proved = game[i].proved
      /\ g.save = game[i].save /\ g.srev = game[i].srev /\ g.built = game[i].built
      /\ g.got = game[i].got
  BY <1>1 DEF AGame
<1> HIDE DEF g
<1>4. Keeps(game[i], g) /\ Fits(i, g) /\ g.save = NoSave /\ ~g.pending /\ ~g.proved
  BY <1>1, <1>3 DEF Keeps, Fits, NoSave
<1>5. CASE how = "done" /\ game[i].renew
  <2> DEFINE f == [g EXCEPT !.old = FALSE, !.epoch = 0]
  <2>1. f \in AGame
    <3>1. \A n \in Nat : [g EXCEPT !.old = FALSE, !.epoch = n] \in AGame
      BY <1>2 DEF AGame
    <3> QED
      BY <3>1
  <2>2. /\ f.st = g.st /\ f.epoch = 0 /\ f.expect = g.expect
        /\ f.board = g.board /\ f.seen = g.seen /\ f.pending = g.pending
        /\ f.wanted = g.wanted /\ f.claim = g.claim /\ f.proved = g.proved
        /\ f.save = g.save /\ f.srev = g.srev /\ f.built = g.built /\ f.got = g.got
    BY <1>2 DEF AGame
  <2> HIDE DEF f
  <2>3. Fits(i, f)
    BY <1>3, <1>4, <2>2 DEF Fits, NoSave
  <2>4. Changes(i, f, Cleared(f))
    BY <1>3, <2>1, <2>2, <2>3, ClearedFits
  <2>5. Makes(i, Cleared(f), Reset(Cleared(f), i))
    BY <1>1, <2>4, ResetFits DEF Changes
  <2>6. Steps(i, game[i], Reset(Cleared(f), i))
    BY <1>3, <2>2, <2>4, <2>5 DEF Changes, Makes, Steps, Keeps, Builds
  <2>7. Act(i, Reset(Cleared(f), i))
    BY <1>5 DEF PollQuarantine, f, g
  <2> QED
    BY <1>1, <2>6, <2>7 DEF Method, Steps
<1>6. ASSUME NEW st \in {"quarantine_failed", "failed"}, Act(i, [g EXCEPT !.st = st])
      PROVE  Method(i)
  <2>1. Changes(i, g, [g EXCEPT !.st = st])
    BY <1>2, <1>4, StopFits DEF States
  <2>2. Steps(i, game[i], [g EXCEPT !.st = st])
    BY <1>4, <2>1 DEF Changes, Steps, Keeps
  <2> QED
    BY <1>1, <1>6, <2>2 DEF Method, Steps
<1>7. CASE ~(how = "done" /\ game[i].renew) /\ how = "failed"
  <2>1. Act(i, [g EXCEPT !.st = "quarantine_failed"])
    BY <1>7 DEF PollQuarantine, g
  <2> QED
    BY <1>6, <2>1
<1>8. CASE ~(how = "done" /\ game[i].renew) /\ how # "failed"
  <2>1. Act(i, [g EXCEPT !.st = "failed"])
    BY <1>8 DEF PollQuarantine, g
  <2> QED
    BY <1>6, <2>1
<1> QED
  BY <1>5, <1>7, <1>8
LEMMA MethodKeeps ==
  ASSUME OwnerInv, NEW i \in Games, Method(i), UNCHANGED <<writing, confirmed>>,
         moves' \in Nat, faults' \in Nat
  PROVE  OwnerInv'
<1>1. PICK h \in AGame : Act(i, h) /\ Steps(i, game[i], h) /\ Alive(i)
  BY DEF Method
<1> QED
  BY <1>1, MethodStep

LEMMA PollSaveKeeps ==
  ASSUME OwnerInv, NEW i \in Games, PollSave(i)
  PROVE  OwnerInv' /\ \E h \in AGame : /\ Act(i, h) /\ Spares(game[i], h)
                                       /\ h.epoch = game[i].epoch
                                       /\ h.proved => h.st = "ready"
<1> DEFINE how == game[i].save.step
           val == game[i].save.op.val
           g == [game[i] EXCEPT !.save = NoSave]
           next == CASE how = "pending" -> [g EXCEPT !.pending = TRUE]
                     [] how = "in_use" -> Reload(g)
                     [] how = "error" -> FailClaim(g)
                     [] OTHER -> Acked(g, how, val)
<1>1. /\ game[i] \in AGame /\ Alive(i) /\ Fits(i, game[i]) /\ tick \in Nat /\ WorkFits(i)
      /\ how \in {"committed", "superseded", "in_use", "pending", "error"}
  BY Typed DEF PollSave
<1>2. game[i].save # NoSave
  BY <1>1 DEF NoSave
<1>3. NoSave \in Save
  BY DEF NoSave, Save
<1>4. g \in AGame
  <2>1. \A s \in Save : [game[i] EXCEPT !.save = s] \in AGame
    BY <1>1 DEF AGame
  <2> QED
    BY <1>3, <2>1
<1>5. /\ g.st = game[i].st /\ g.epoch = game[i].epoch /\ g.expect = game[i].expect
      /\ g.board = game[i].board /\ g.seen = game[i].seen /\ g.pending = game[i].pending
      /\ g.wanted = game[i].wanted /\ g.claim = game[i].claim /\ g.proved = game[i].proved
      /\ g.save = NoSave /\ g.srev = game[i].srev /\ g.built = game[i].built
      /\ g.got = game[i].got /\ Spares(game[i], g)
  BY <1>1 DEF AGame, Spares
<1> HIDE DEF g
<1>6. Fits(i, g)
  BY <1>1, <1>2, <1>5 DEF Fits, NoSave
<1>7. g.st \in {"claiming", "ready"} /\ (g.st = "claiming" => ~g.pending)
  BY <1>1, <1>2, <1>5 DEF Fits
<1>8. g.st = "claiming" => g.claim # None /\ g.claim.who = i /\ g.claim.epoch = g.epoch
  BY <1>1, <1>2, <1>5 DEF Fits
<1>9. Changes(i, g, next)
  <2>1. CASE how = "pending"
    <3>1. PICK f : f = [g EXCEPT !.pending = TRUE]
      OBVIOUS
    <3>2. f \in AGame
      BY <1>4, <3>1 DEF AGame
    <3>3. /\ f.st = g.st /\ f.epoch = g.epoch /\ f.expect = g.expect
          /\ f.board = g.board /\ f.seen = g.seen /\ f.pending /\ f.claim = g.claim
          /\ f.wanted = g.wanted /\ f.proved = g.proved /\ f.save = g.save
          /\ f.srev = g.srev /\ f.built = g.built /\ f.got = g.got /\ Spares(g, f)
      BY <1>4, <3>1 DEF AGame, Spares
    <3>4. Fits(i, f)
      BY <1>5, <1>6, <1>7, <1>8, <3>3 DEF Fits, NoSave
    <3>5. Changes(i, g, f)
      BY <3>2, <3>3, <3>4 DEF Changes, Keeps
    <3>6. next = f
      BY <2>1, <3>1
    <3> QED
      BY <3>5, <3>6
  <2>2. CASE how = "in_use"
    BY <1>4, <1>5, <1>6, <2>2, ReloadFits
  <2>3. CASE how = "error"
    BY <1>4, <1>5, <1>6, <1>7, <2>3, FailClaimFits
  <2>4. CASE how \notin {"pending", "in_use", "error"}
    <3>1. how = "committed" => Owned(val)
      BY <1>1 DEF Fits
    <3>2. g.st = "claiming" /\ how = "committed" /\ Authoritative(g, val)
            => <<i, g.epoch>> \in granted
      BY <1>8, <3>1 DEF Authoritative, Owned
    <3>3. Changes(i, g, Acked(g, how, val))
      BY <1>4, <1>5, <1>6, <3>2, AckedFits
    <3>4. next = Acked(g, how, val)
      BY <2>4
    <3> QED
      BY <3>3, <3>4
  <2> QED
    BY <2>1, <2>2, <2>3, <2>4
<1>10. PICK f : f = next
  OBVIOUS
<1>11. PICK h : h = Dirty(f, i)
  OBVIOUS
<1>12. Makes(i, f, h)
  BY <1>1, <1>9, <1>10, <1>11, DirtyMakes DEF Changes
<1>13. Makes(i, g, h)
  BY <1>9, <1>10, <1>12, MakesAfter DEF Changes
<1>14. Act(i, h)
  BY <1>10, <1>11 DEF PollSave, g, next
<1> HIDE DEF next
<1>15. ~work[i].mine
  BY <1>1 DEF WorkFits
<1>16. PICK k : k = g
  OBVIOUS
<1>17. OwnerInv'
  <2>1. granted' = granted /\ writing' = writing /\ confirmed' = confirmed
    BY DEF PollSave, writing, store
  <2>2. Fits(i, h)'
    BY <1>13, <2>1, FitsGrows DEF Makes, Steps
  <2>3. confirmed' \in [Games -> SUBSET (Saved \cup {None})] /\ ConfirmedStays
    BY <2>1, Typed DEF TypeOK, ConfirmedStays
  <2>4. moves' \in Nat /\ faults' \in Nat
    BY Typed DEF PollSave
  <2>5. /\ h \in AGame /\ (Keeps(k, h) \/ (Alive(i) /\ Builds(i, k, h)))
        /\ (Alive(i)' => Alive(i) /\ Fits(i, h)')
    BY <1>1, <1>13, <1>16, <2>2 DEF Makes, Steps
  <2>6. /\ k.built = game[i].built /\ game[i].seen \subseteq k.seen
        /\ k.save \in {game[i].save, NoSave} /\ (work[i].mine => k.save = game[i].save)
    BY <1>5, <1>15, <1>16
  <2>7. UNCHANGED writing
    BY <2>1
  <2> QED
    BY <1>14, <2>3, <2>4, <2>5, <2>6, <2>7, GameStep
<1>18. /\ Spares(game[i], h) /\ h \in AGame /\ h.epoch = game[i].epoch
       /\ h.proved => h.st = "ready"
  BY <1>5, <1>13 DEF Makes, Steps, Spares, Fits
<1> QED
  BY <1>14, <1>17, <1>18

LEMMA TakeOverKeeps ==
  ASSUME OwnerInv, NEW i \in Games, TakeOver(i)
  PROVE  OwnerInv' /\ \E h \in AGame : /\ Act(i, h) /\ Spares(game[i], h)
                                       /\ h.epoch = game[i].epoch
                                       /\ h.proved => h.st = "ready"
<1>1. PICK g : g = game[i]
  OBVIOUS
<1>2. PICK h : h = Loading([g EXCEPT !.wanted = g.shown])
  OBVIOUS
<1>3. /\ g \in AGame /\ Alive(i) /\ Fits(i, g) /\ g.st = "conflict" /\ WorkFits(i) /\ TypeOK
  BY <1>1, Typed DEF TakeOver, Alive
<1>4. h \in AGame
  <2>1. \A w \in Saved \cup {None} : [g EXCEPT !.wanted = w] \in AGame
    BY <1>3 DEF AGame
  <2>2. [g EXCEPT !.wanted = g.shown] \in AGame
    BY <1>3, <2>1 DEF AGame
  <2>3. ASSUME NEW f \in AGame
        PROVE  Loading(f) \in AGame
    <3>1. \A st \in States, x \in {"none", "asked", "done"} :
            [f EXCEPT !.st = st, !.load = x, !.proved = FALSE] \in AGame
      BY DEF AGame
    <3> QED
      BY <3>1 DEF Loading, States
  <2> QED
    BY <1>2, <2>2, <2>3
<1>5. /\ h.st = "loading" /\ h.epoch = g.epoch /\ h.expect = g.expect
      /\ h.board = g.board /\ h.seen = g.seen /\ h.pending = g.pending
      /\ h.wanted = g.shown /\ h.claim = g.claim /\ ~h.proved
      /\ h.save = g.save /\ h.srev = g.srev /\ h.built = g.built
      /\ h.got = g.got /\ Spares(g, h)
  BY <1>2, <1>3 DEF AGame, Spares, Loading
<1>6. PICK s : s = g.shown
  OBVIOUS
<1>7. /\ confirmed' = [confirmed EXCEPT ![i] = confirmed[i] \cup {s}]
      /\ confirmed'[i] = confirmed[i] \cup {s}
  BY <1>1, <1>3, <1>6 DEF TakeOver, TypeOK
<1>8. confirmed' \in [Games -> SUBSET (Saved \cup {None})] /\ ConfirmedStays
  <2>1. s \in Saved \cup {None}
    BY <1>3, <1>6 DEF AGame
  <2> QED
    BY <1>3, <1>7, <2>1 DEF TypeOK, ConfirmedStays
<1>9. Fits(i, h)'
  <2>1. granted' = granted
    BY DEF TakeOver, backend, writing, store
  <2> QED
    BY <1>3, <1>5, <1>6, <1>7, <2>1 DEF Fits, Knows, Owned, NoSave
<1>10. Keeps(g, h) /\ Set(i, h)
  BY <1>1, <1>2, <1>5 DEF Keeps, TakeOver
<1>11. Act(i, h) /\ UNCHANGED writing
  BY <1>1, <1>5, <1>10 DEF TakeOver, Act, Ticks, backend
<1>12. moves' \in Nat /\ faults' \in Nat
  BY <1>3 DEF TakeOver, TypeOK
<1>13. /\ g.built = game[i].built /\ game[i].seen \subseteq g.seen
       /\ g.save \in {game[i].save, NoSave} /\ (work[i].mine => g.save = game[i].save)
  BY <1>1
<1>14. OwnerInv'
  BY <1>3, <1>4, <1>8, <1>9, <1>10, <1>11, <1>12, <1>13, GameStep
<1> QED
  BY <1>1, <1>4, <1>5, <1>11, <1>14
-----------------------------------------------------------------------------
(***************************************************************************)
(* A window that goes.                                                     *)
(***************************************************************************)
OthersStay(i) ==
  \A j \in Games \ {i} : /\ game'[j] = game[j] /\ work'[j] = work[j]
                         /\ held'[j] = held[j] /\ event'[j] = event[j]

LEMMA OthersWait ==
  ASSUME NEW i \in Games, OthersStay(i), NEW j \in Games, j # i
  PROVE  Waiting(j)' \subseteq InPlay \cup {None} /\ (Sent(j)' => SentBefore(j))
<1>1. game'[j] = game[j] /\ work'[j] = work[j] /\ held'[j] = held[j]
  BY DEF OthersStay
<1>2. Waiting(j)' = Waiting(j)
  BY <1>1 DEF Waiting, Sent
<1> QED
  BY <1>1, <1>2, InPlayIs DEF Sent, SentBefore

LEMMA WorksFitAfter ==
  ASSUME WorksFit, NEW i \in Games, OthersStay(i), granted \subseteq granted', WorkFits(i)'
  PROVE  WorksFit'
<1> SUFFICES ASSUME NEW j \in Games, j # i
             PROVE  WorkFits(j)'
  BY DEF WorksFit
<1>1. WorkFits(j) /\ game'[j] = game[j] /\ work'[j] = work[j] /\ event'[j] = event[j]
  BY DEF WorksFit, OthersStay
<1>2. /\ work'[j].step = "idle" => work'[j] = NoWork
      /\ work'[j].step = "write" => work'[j].op # None
  BY <1>1 DEF WorkFits
<1>3. work'[j].mine /\ Alive(j)' => game'[j].save = [step |-> "taken", op |-> work'[j].op]
  <2>1. work[j].mine /\ Alive(j) => game[j].save = [step |-> "taken", op |-> work[j].op]
    BY <1>1 DEF WorkFits
  <2> QED
    BY <1>1, <2>1 DEF Alive
<1>4. event'[j].state = "committed" /\ event'[j].val # None => Owned(event[j].val)'
  BY <1>1 DEF WorkFits, Owned
<1> QED
  BY <1>2, <1>3, <1>4 DEF WorkFits

LEMMA GoneStep ==
  ASSUME OwnerInv, NEW i \in Games, NEW CONSTANT h, h \in AGame,
         h.st \in {"released", "closed", "crashed"}, Set(i, h),
         event' = [event EXCEPT ![i] = NoEvent], UNCHANGED <<store, confirmed>>,
         \/ UNCHANGED <<work, held>>
         \/ work' = [work EXCEPT ![i] = NoWork] /\ held' = [held EXCEPT ![i] = None],
         journal' \in Seq(Operation), tick' \in Nat, moves' \in Nat, faults' \in Nat, OpsInv'
  PROVE  OwnerInv'
<1>1. TypeOK /\ OpsInv /\ GamesFit /\ WorksFit
  BY InvParts
<1>2. /\ game' = [game EXCEPT ![i] = h] /\ game'[i] = h /\ event'[i] = NoEvent
      /\ (work'[i] = work[i] \/ work'[i] = NoWork)
  BY <1>1 DEF Set, TypeOK
<1>3. OthersStay(i)
  BY <1>1 DEF Set, TypeOK, OthersStay
<1>4. row' = row /\ high' = high /\ rowSeen' = rowSeen /\ granted' = granted
  BY DEF store
<1>5. TypeOK'
  <2>1. NoEvent \in Event /\ NoWork \in Work
    BY DEF NoEvent, Event, NoWork, Work
  <2>2. /\ event' \in [Games -> Event] /\ work' \in [Games -> Work]
        /\ held' \in [Games -> Operation \cup {None}] /\ game' \in [Games -> AGame]
    BY <1>1, <1>2, <2>1 DEF TypeOK
  <2> QED
    BY <1>1, <1>4, <2>2 DEF TypeOK
<1>6. ~Alive(i)'
  BY <1>2 DEF Alive
<1>7. ConfirmedStays
  BY DEF ConfirmedStays
<1>8. GamesFit'
  BY <1>1, <1>2, <1>4, <1>6, <1>7, GamesFitAfter
<1>9. WorkFits(i)'
  <2>1. WorkFits(i)
    BY <1>1 DEF WorksFit
  <2>2. /\ work'[i].step = "idle" => work'[i] = NoWork
        /\ work'[i].step = "write" => work'[i].op # None
    BY <1>2, <2>1 DEF WorkFits, NoWork
  <2> QED
    BY <1>2, <1>6, <2>2 DEF WorkFits, NoEvent
<1>10. WorksFit'
  BY <1>1, <1>3, <1>4, <1>9, WorksFitAfter
<1> QED
  BY <1>5, <1>8, <1>10, InvParts

\* The fields of a window that has gone.
LEMMA LeaveFields ==
  ASSUME NEW i \in Games, NEW g \in AGame, NEW how \in {"released", "closed"},
         Leave(i, g, how)
  PROVE  \E h \in AGame : /\ Set(i, h) /\ h.st = how /\ h.built = g.built
                          /\ h.quarantine = "none" /\ ~h.old /\ h.got = None
                          /\ h.save = IF g.save.step = "sent" THEN g.save ELSE NoSave
                          /\ how = "released" => /\ h.epoch = g.epoch /\ h.srev = g.srev + 1
                                                 /\ h.proved = g.proved
                          /\ how = "closed" => ~h.proved
<1> DEFINE save == IF g.save.step = "sent" THEN g.save ELSE NoSave
           proved == g.proved /\ how = "released"
           epoch == IF how = "released" THEN g.epoch ELSE 0
           srev == IF how = "released" THEN g.srev + 1 ELSE 0
           h == [Gone(how) EXCEPT !.built = g.built, !.epoch = epoch, !.srev = srev,
                                  !.proved = proved, !.save = save]
<1>1. /\ save \in Save /\ g.built \in Nat /\ proved \in BOOLEAN
      /\ epoch \in Nat /\ srev \in Nat
  BY DEF AGame, NoSave, Save
<1>2. Gone(how) \in AGame
  <2>1. NewGame \in AGame
    BY DEF NewGame, AGame, States, NoSave, Save
  <2>2. \A st \in States : [NewGame EXCEPT !.st = st, !.load = "none"] \in AGame
    BY <2>1 DEF AGame
  <2> QED
    BY <2>2 DEF Gone, States
<1>3. Gone(how).st = how /\ Gone(how).quarantine = "none" /\ ~Gone(how).old /\ Gone(how).got = None
  BY DEF Gone, NewGame
<1> HIDE DEF save, proved, epoch, srev
<1>4. h \in AGame
  <2>1. \A n, e, r \in Nat, b \in BOOLEAN, s \in Save :
          [Gone(how) EXCEPT !.built = n, !.epoch = e, !.srev = r, !.proved = b, !.save = s]
            \in AGame
    BY <1>2, ZenonT(60) DEF AGame
  <2> QED
    BY <1>1, <2>1
<1>5. /\ h.st = Gone(how).st /\ h.built = g.built /\ h.quarantine = Gone(how).quarantine
      /\ h.old = Gone(how).old /\ h.got = Gone(how).got /\ h.save = save
      /\ h.epoch = epoch /\ h.srev = srev /\ h.proved = proved
  BY <1>2 DEF AGame
<1>6. Set(i, h)
  BY DEF Leave, save, proved, epoch, srev
<1> HIDE DEF h
<1>7. /\ how = "released" => /\ h.epoch = g.epoch /\ h.srev = g.srev + 1
                             /\ h.proved = g.proved
      /\ how = "closed" => ~h.proved
  <2>1. how = "released" => h.epoch = g.epoch /\ h.srev = g.srev + 1
    BY <1>5 DEF epoch, srev
  <2>2. how = "released" => h.proved = g.proved
    <3>1. g.proved \in BOOLEAN
      BY DEF AGame
    <3>2. how = "released" => proved = g.proved
      BY <3>1 DEF proved
    <3> QED
      BY <1>5, <3>2
  <2>3. how = "closed" => ~h.proved
    BY <1>5 DEF proved
  <2> QED
    BY <2>1, <2>2, <2>3
<1>8. /\ h.st = how /\ h.built = g.built /\ h.quarantine = "none" /\ ~h.old /\ h.got = None
      /\ h.save = IF g.save.step = "sent" THEN g.save ELSE NoSave
  BY <1>3, <1>5 DEF save
<1> QED
  BY <1>4, <1>6, <1>7, <1>8

\* The windows after one has gone.
LEMMA GoneWindows ==
  ASSUME TypeOK, NEW i \in Games, NEW CONSTANT h, Set(i, h),
         h.st \in {"released", "closed", "crashed"}
  PROVE  SameWindows /\ ~Alive(i)' /\ game'[i] = h
BY DEF TypeOK, Set, SameWindows, Alive

LEMMA CloseUnownedKeeps ==
  ASSUME OwnerInv, NEW i \in Games, CloseUnowned(i) \/ CloseOutdone(i)
  PROVE  OwnerInv' /\ InPlay' \subseteq InPlay /\ game'[i].st = "closed"
<1>1. TypeOK /\ OpsInv /\ game[i] \in AGame
  BY InvParts DEF TypeOK
<1>2. PICK h \in AGame : /\ Set(i, h) /\ h.st = "closed"
                         /\ h.save = IF game[i].save.step = "sent" THEN game[i].save ELSE NoSave
  BY <1>1, LeaveFields DEF CloseUnowned, CloseOutdone
<1>3. /\ UNCHANGED <<store, journal, work, held, tick, moves, faults, confirmed>>
      /\ event' = [event EXCEPT ![i] = NoEvent]
  BY DEF CloseUnowned, CloseOutdone, window, Leave
<1>4. OthersStay(i)
  BY <1>1, <1>2, <1>3 DEF Set, TypeOK, OthersStay
<1>5. game'[i] = h /\ SameWindows
  BY <1>1, <1>2, GoneWindows
<1>6. (Sent(i)' => SentBefore(i)) /\ Waiting(i)' \subseteq Waiting(i)
  BY <1>2, <1>3, <1>5 DEF Sent, SentBefore, Waiting, NoSave
<1>7. InPlay' \subseteq InPlay
  <2>1. \A j \in Games : Waiting(j)' \subseteq InPlay \cup {None}
    BY <1>4, <1>6, OthersWait, InPlayIs
  <2> QED
    BY <1>3, <2>1, InPlayIs DEF InPlay
<1>8. OpsInv'
  <2>1. ConfirmedStays /\ tick' \in Nat /\ tick <= tick'
    BY <1>1, <1>3 DEF ConfirmedStays, TypeOK
  <2> QED
    BY <1>1, <1>3, <1>4, <1>5, <1>6, <1>7, <2>1, OthersWait, OpsKept
<1>9. OwnerInv'
  BY <1>1, <1>2, <1>3, <1>8, GoneStep DEF TypeOK
<1> QED
  BY <1>2, <1>5, <1>7, <1>9
\* The release that a window publishes when it goes.
Closes(i, op) ==
  /\ Alive(i) /\ UNCHANGED store /\ journal' = <<op>> \o journal
  /\ InPlay' \subseteq InPlay \cup {op} /\ op.rev = tick + 1
  /\ op.val.who = i /\ op.val.status = "released"
  /\ op.val.epoch = game[i].epoch /\ op.val.srev = game[i].srev + 1
  /\ game'[i].st = "released" /\ game'[i].epoch = game[i].epoch
  /\ game'[i].srev = game[i].srev + 1 /\ game'[i].proved = game[i].proved
  /\ Sent(i)' => SentBefore(i)

LEMMA CloseKeeps ==
  ASSUME OwnerInv, NEW i \in Games, Close(i)
  PROVE  OwnerInv' /\ \E op \in Operation : Closes(i, op)
<1> DEFINE built == Build(game[i], i, "released")
<1>1. /\ TypeOK /\ OpsInv /\ game[i] \in AGame /\ tick \in Nat
      /\ Alive(i) /\ Fits(i, game[i]) /\ BoardsAreKnown(i)
  BY InvParts, Typed DEF Close, Alive, OpsInv, BoardsKnown
<1>2. PICK op : op = [built EXCEPT !.rev = tick + 1]
  OBVIOUS
<1>3. op = built
  BY <1>2 DEF Build
<1>4. op \in Operation
  BY <1>1, <1>3 DEF Build, Operation, Value, Saved, AGame
<1>5. /\ op.val.who = i /\ op.val.form = "good" /\ op.val.srev = game[i].srev + 1
      /\ op.val.board = game[i].board /\ op.expect = game[i].expect /\ op.rev = tick + 1
      /\ op.seen = game[i].seen
      /\ op.val.status = "released" /\ op.val.epoch = game[i].epoch
  BY <1>3 DEF Build, Value
<1>6. /\ journal' = <<op>> \o journal /\ tick' = tick + 1
      /\ UNCHANGED <<store, work, held, moves, faults, confirmed>>
      /\ event' = [event EXCEPT ![i] = NoEvent]
  BY <1>2 DEF Close, Leave
<1> HIDE DEF built
<1>7. PICK h \in AGame : /\ Set(i, h) /\ h.st = "released"
                         /\ h.save = IF game[i].save.step = "sent" THEN game[i].save ELSE NoSave
                         /\ h.epoch = game[i].epoch /\ h.srev = game[i].srev + 1
                         /\ h.proved = game[i].proved
  BY <1>1, LeaveFields DEF Close
<1>8. OthersStay(i)
  BY <1>1, <1>6, <1>7 DEF Set, TypeOK, OthersStay
<1>9. game'[i] = h /\ SameWindows /\ ~Alive(i)'
  BY <1>1, <1>7, GoneWindows
<1>10. (Sent(i)' => SentBefore(i)) /\ Waiting(i)' \subseteq Waiting(i)
  BY <1>6, <1>7, <1>9 DEF Sent, SentBefore, Waiting, NoSave
<1>11. journal' \in Seq(Operation) /\ Ops(journal)' \subseteq InPlay \cup {op}
  <2>1. journal \in Seq(Operation)
    BY <1>1 DEF TypeOK
  <2>2. <<op>> \o journal \in Seq(Operation) /\ Ops(<<op>> \o journal) \subseteq {op} \cup Ops(journal)
    BY <1>4, <2>1, PutOps
  <2> QED
    BY <1>6, <2>2, InPlayIs
<1>12. InPlay' \subseteq InPlay \cup {op}
  <2>1. \A j \in Games : Waiting(j)' \subseteq InPlay \cup {op} \cup {None}
    BY <1>8, <1>10, OthersWait, InPlayIs
  <2> QED
    BY <1>11, <2>1, InPlayAfter
<1>13. \A j \in Games : Sent(j)' => SentBefore(j) /\ BuiltOn(game[j].save.op, op.val)
  <2> SUFFICES ASSUME NEW j \in Games, Sent(j)'
               PROVE  SentBefore(j) /\ BuiltOn(game[j].save.op, op.val)
    OBVIOUS
  <2>1. SentBefore(j)
    BY <1>8, <1>10, OthersWait
  <2>2. game[j].save.op.val.who = j
    BY <1>1, <2>1 DEF SentBefore, OpsInv, NewestSent, SentIsNewest
  <2>3. CASE j = i
    <3>1. game[i].save.op.val.srev = game[i].srev
      BY <1>1, <2>1, <2>3 DEF SentBefore, Sent, Fits, NoSave
    <3>2. game[i].srev \in Nat
      BY <1>1 DEF AGame
    <3> QED
      BY <1>5, <2>1, <2>3, <3>1, <3>2 DEF BuiltOn
  <2>4. CASE j # i
    BY <1>5, <2>1, <2>2, <2>4 DEF BuiltOn
  <2> QED
    BY <2>3, <2>4
<1>14. OpsInv'
  <2>1. ConfirmedStays
    BY <1>6 DEF ConfirmedStays
  <2>2. /\ op.val.board \in op.seen
        /\ op.expect # None => Knows(op.val.who, op.expect, op.seen)
    BY <1>1, <1>5 DEF Fits
  <2>3. /\ \A other \in InPlay : BuiltOn(op, other.val)
        /\ row # None => BuiltOn(op, row)
    BY <1>1, <1>5 DEF BuiltOn, BoardsAreKnown
  <2>4. ~Alive(op.val.who)'
    BY <1>5, <1>9 DEF Alive
  <2>5. op.val.who \in Games /\ op.val.form = "good" /\ op.rev = tick + 1
    BY <1>5
  <2> QED
    BY <1>1, <1>4, <1>6, <1>9, <1>12, <1>13, <2>1, <2>2, <2>3, <2>4, <2>5, OpsGrown
<1>15. tick' \in Nat /\ moves' \in Nat /\ faults' \in Nat
  BY <1>1, <1>6 DEF TypeOK
<1>16. OwnerInv'
  BY <1>6, <1>7, <1>11, <1>14, <1>15, GoneStep
<1>17. Closes(i, op)
  BY <1>1, <1>5, <1>6, <1>7, <1>9, <1>10, <1>12 DEF Closes
<1> QED
  BY <1>4, <1>16, <1>17

LEMMA EndCloseKeeps ==
  ASSUME OwnerInv, NEW i \in Games, EndClose(i)
  PROVE  /\ OwnerInv' /\ game'[i].st = "closed"
         /\ \A op \in InPlay' : op \in InPlay \/ op.val.who = i
<1> DEFINE free == game[i].st = "ready" /\ game[i].save = NoSave
<1>1. /\ TypeOK /\ OpsInv /\ game[i] \in AGame /\ tick \in Nat
  BY InvParts DEF TypeOK
<1>2. PICK g : g = IF free THEN Submit(game[i], i, "released") ELSE game[i]
  OBVIOUS
<1>3. Leave(i, g, "closed") /\ Ticks(i, g)
  BY <1>2 DEF EndClose
<1>4. CASE ~free
  <2>1. PICK h \in AGame : /\ Set(i, h) /\ h.st = "closed"
                           /\ h.save = IF game[i].save.step = "sent" THEN game[i].save ELSE NoSave
    BY <1>1, <1>2, <1>3, <1>4, LeaveFields
  <2>2. /\ UNCHANGED <<store, journal, work, held, moves, faults, confirmed>>
        /\ event' = [event EXCEPT ![i] = NoEvent] /\ tick' = tick
    BY <1>2, <1>3, <1>4 DEF EndClose, window, Leave, Ticks
  <2>3. OthersStay(i)
    BY <1>1, <2>1, <2>2 DEF Set, TypeOK, OthersStay
  <2>4. game'[i] = h /\ SameWindows
    BY <1>1, <2>1, GoneWindows
  <2>5. (Sent(i)' => SentBefore(i)) /\ Waiting(i)' \subseteq Waiting(i)
    BY <2>1, <2>2, <2>4 DEF Sent, SentBefore, Waiting, NoSave
  <2>6. InPlay' \subseteq InPlay
    <3>1. \A j \in Games : Waiting(j)' \subseteq InPlay \cup {None}
      BY <2>3, <2>5, OthersWait, InPlayIs
    <3> QED
      BY <2>2, <3>1, InPlayIs DEF InPlay
  <2>7. OpsInv'
    <3>1. ConfirmedStays /\ tick' \in Nat /\ tick <= tick'
      BY <1>1, <2>2 DEF ConfirmedStays
    <3> QED
      BY <1>1, <2>2, <2>3, <2>4, <2>5, <2>6, <3>1, OthersWait, OpsKept
  <2>8. OwnerInv'
    BY <1>1, <2>1, <2>2, <2>7, GoneStep DEF TypeOK
  <2> QED
    BY <2>1, <2>4, <2>6, <2>8
<1>5. CASE free
  <2>1. Alive(i) /\ Fits(i, game[i]) /\ BoardsAreKnown(i)
    BY <1>5, Typed, InvParts DEF Alive, OpsInv, BoardsKnown
  <2>2. Makes(i, game[i], g)
    BY <1>1, <1>2, <1>5, <2>1, SubmitFits
  <2>3. /\ g \in AGame /\ g.built = game[i].built + 1
        /\ g.save = [step |-> "sent", op |-> Build(game[i], i, "released")]
    BY <1>1, <1>2, <1>5, SubmitFields
  <2>4. game[i].built \in Nat
    BY <1>1 DEF AGame
  <2>5. Builds(i, game[i], g)
    BY <2>2, <2>3, <2>4 DEF Makes, Steps, Keeps
  <2>6. PICK op : op = g.save.op
    OBVIOUS
  <2>7. PICK h \in AGame : Set(i, h) /\ h.st = "closed" /\ h.save = g.save
    BY <1>3, <2>3, LeaveFields
  <2>8. /\ UNCHANGED <<store, journal, work, held, moves, faults, confirmed>>
        /\ event' = [event EXCEPT ![i] = NoEvent] /\ tick' = tick + 1
    BY <1>3, <2>3, <2>4 DEF EndClose, window, Leave, Ticks
  <2>9. OthersStay(i)
    BY <1>1, <2>7, <2>8 DEF Set, TypeOK, OthersStay
  <2>10. game'[i] = h /\ SameWindows /\ ~Alive(i)'
    BY <1>1, <2>7, GoneWindows
  <2>11. /\ op \in Operation /\ op.val.who = i /\ op.val.form = "good" /\ op.rev = tick + 1
         /\ op.seen = g.seen /\ op.val.board \in g.seen /\ game[i].seen \subseteq g.seen
         /\ op.expect # None => Knows(i, op.expect, g.seen)
    BY <2>5, <2>6 DEF Builds
  <2>12. Waiting(i)' \subseteq Waiting(i) \cup {op}
    BY <2>6, <2>7, <2>8, <2>10 DEF Waiting
  <2>13. InPlay' \subseteq InPlay \cup {op}
    <3>1. \A j \in Games : Waiting(j)' \subseteq InPlay \cup {op} \cup {None}
      BY <2>9, <2>12, OthersWait, InPlayIs
    <3>2. Ops(journal)' \subseteq InPlay \cup {op}
      BY <2>8, InPlayIs
    <3> QED
      BY <3>1, <3>2, InPlayAfter
  <2>14. \A j \in Games : Sent(j)' => \/ SentBefore(j) /\ BuiltOn(game[j].save.op, op.val)
                                      \/ op.val.who = j /\ game'[j].save.op = op
    <3> SUFFICES ASSUME NEW j \in Games, j # i, Sent(j)'
                 PROVE  SentBefore(j) /\ BuiltOn(game[j].save.op, op.val)
      BY <2>6, <2>7, <2>10, <2>11
    <3>1. SentBefore(j)
      BY <2>9, OthersWait
    <3>2. game[j].save.op.val.who = j
      BY <1>1, <3>1 DEF SentBefore, OpsInv, NewestSent, SentIsNewest
    <3> QED
      BY <2>11, <3>1, <3>2 DEF BuiltOn
  <2>15. OpsInv'
    <3>1. ConfirmedStays
      BY <2>8 DEF ConfirmedStays
    <3>2. /\ op.val.board \in op.seen
          /\ op.expect # None => Knows(op.val.who, op.expect, op.seen)
      BY <2>11
    <3>3. /\ \A other \in InPlay : BuiltOn(op, other.val)
          /\ row # None => BuiltOn(op, row)
      BY <2>1, <2>11 DEF BuiltOn, BoardsAreKnown
    <3>4. ~Alive(op.val.who)'
      BY <2>10, <2>11 DEF Alive
    <3>5. op \in Operation /\ op.val.who \in Games /\ op.val.form = "good" /\ op.rev = tick + 1
      BY <2>11
    <3> QED
      BY <1>1, <2>8, <2>10, <2>13, <2>14, <3>1, <3>2, <3>3, <3>4, <3>5, OpsGrown
  <2>16. journal' \in Seq(Operation) /\ tick' \in Nat /\ moves' \in Nat /\ faults' \in Nat
    BY <1>1, <2>8 DEF TypeOK
  <2>17. OwnerInv'
    BY <2>7, <2>8, <2>15, <2>16, GoneStep
  <2> QED
    BY <2>7, <2>10, <2>11, <2>13, <2>17
<1> QED
  BY <1>4, <1>5

LEMMA CrashKeeps ==
  ASSUME OwnerInv, NEW i \in Games, Crash(i)
  PROVE  OwnerInv' /\ InPlay' \subseteq InPlay /\ game'[i].st = "crashed"
<1>1. TypeOK /\ OpsInv /\ game[i] \in AGame
  BY InvParts DEF TypeOK
<1>2. PICK n : n = game[i].built
  OBVIOUS
<1>3. PICK h : h = [Gone("crashed") EXCEPT !.built = n]
  OBVIOUS
<1>4. h \in AGame /\ h.st = "crashed" /\ h.save = NoSave
  <2>1. n \in Nat
    BY <1>1, <1>2 DEF AGame
  <2>2. NewGame \in AGame /\ NewGame.save = NoSave
    BY DEF NewGame, AGame, States, NoSave, Save
  <2>3. \A st \in States, m \in Nat :
          [NewGame EXCEPT !.st = st, !.load = "none", !.built = m] \in AGame
    BY <2>2 DEF AGame
  <2>4. h = [NewGame EXCEPT !.st = "crashed", !.load = "none", !.built = n]
    BY <1>3 DEF Gone
  <2>5. h \in AGame
    BY <2>1, <2>3, <2>4 DEF States
  <2> QED
    BY <2>2, <2>4, <2>5 DEF AGame
<1>5. /\ Set(i, h) /\ work' = [work EXCEPT ![i] = NoWork] /\ held' = [held EXCEPT ![i] = None]
      /\ event' = [event EXCEPT ![i] = NoEvent] /\ faults' \in Nat
      /\ UNCHANGED <<store, journal, tick, moves, confirmed>>
  BY <1>1, <1>2, <1>3, FaultCounts DEF Crash, TypeOK
<1>6. OthersStay(i)
  BY <1>1, <1>5 DEF Set, TypeOK, OthersStay
<1>7. game'[i] = h /\ SameWindows
  BY <1>1, <1>4, <1>5, GoneWindows
<1>8. ~Sent(i)' /\ Waiting(i)' \subseteq {None}
  <2>1. work'[i] = NoWork /\ held'[i] = None
    BY <1>1, <1>5 DEF TypeOK
  <2>2. ~Sent(i)'
    BY <1>4, <1>7 DEF Sent, NoSave
  <2> QED
    BY <2>1, <2>2 DEF Waiting, NoWork
<1>9. InPlay' \subseteq InPlay
  <2>1. \A j \in Games : Waiting(j)' \subseteq InPlay \cup {None}
    BY <1>6, <1>8, OthersWait
  <2> QED
    BY <1>5, <2>1, InPlayIs DEF InPlay
<1>10. OpsInv'
  <2>1. ConfirmedStays /\ tick' \in Nat /\ tick <= tick'
    BY <1>1, <1>5 DEF ConfirmedStays, TypeOK
  <2> QED
    BY <1>1, <1>5, <1>6, <1>7, <1>8, <1>9, <2>1, OthersWait, OpsKept
<1>11. OwnerInv'
  BY <1>1, <1>4, <1>5, <1>10, GoneStep DEF TypeOK
<1> QED
  BY <1>4, <1>7, <1>9, <1>11
-----------------------------------------------------------------------------
(***************************************************************************)
(* The writer threads.                                                     *)
(***************************************************************************)
\* What a step of the writer may do to the windows: the save it has taken.
LEMMA SaveStep ==
  ASSUME OwnerInv, NEW i \in Games, NEW CONSTANT s, s \in Save, NEW CONSTANT h,
         h = [game[i] EXCEPT !.save = s], Set(i, h), s.step \notin {"none", "sent"},
         granted \subseteq granted', ConfirmedStays,
         Alive(i) => /\ game[i].save # NoSave /\ s.op # None /\ s.op.val.who = i
                     /\ s.op.val.srev = game[i].srev /\ s.op.val.epoch = game[i].epoch
                     /\ s.step = "committed"
                          => <<s.op.val.who, s.op.val.epoch>> \in granted'
  PROVE  /\ game' \in [Games -> AGame] /\ game'[i].save = s /\ ~Sent(i)' /\ SameWindows
         /\ GamesFit' /\ \A j \in Games : j # i => game'[j] = game[j]
<1>1. TypeOK /\ GamesFit /\ game[i] \in AGame
  BY InvParts DEF TypeOK
<1>2. h \in AGame
  <2>1. \A x \in Save : [game[i] EXCEPT !.save = x] \in AGame
    BY <1>1 DEF AGame
  <2> QED
    BY <2>1
<1>3. /\ h.st = game[i].st /\ h.epoch = game[i].epoch /\ h.expect = game[i].expect
      /\ h.board = game[i].board /\ h.seen = game[i].seen /\ h.pending = game[i].pending
      /\ h.wanted = game[i].wanted /\ h.claim = game[i].claim /\ h.proved = game[i].proved
      /\ h.save = s /\ h.srev = game[i].srev /\ h.got = game[i].got
  BY <1>1 DEF AGame
<1>4. /\ game' = [game EXCEPT ![i] = h] /\ game'[i] = h /\ game' \in [Games -> AGame]
      /\ \A j \in Games : j # i => game'[j] = game[j]
  BY <1>1, <1>2 DEF Set, TypeOK
<1>5. ~Sent(i)' /\ SameWindows
  BY <1>3, <1>4 DEF Sent, SameWindows, Alive
<1>6. Alive(i)' => Alive(i)
  BY <1>3, <1>4 DEF Alive
<1>7. ASSUME Alive(i)
      PROVE  Fits(i, h)'
  <2>1. Fits(i, game[i])
    BY <1>1, <1>7 DEF GamesFit
  <2>2. PICK g : g = game[i]
    OBVIOUS
  <2>3. Fits(i, g)'
    BY <2>1, <2>2, FitsGrows DEF ConfirmedStays
  <2>4. /\ h.board \in h.seen /\ 0 \in h.seen
        /\ h.expect # None => Knows(i, h.expect, h.seen)'
        /\ h.wanted # None => h.wanted \in confirmed'[i]
    BY <1>3, <2>2, <2>3 DEF Fits
  <2>5. h.st \in {"claiming", "ready"} /\ ~(h.st = "claiming" /\ h.pending)
    BY <1>3, <1>7, <2>1 DEF Fits
  <2>6. h.st = "claiming" => h.claim # None /\ h.claim.who = i /\ h.claim.epoch = h.epoch
    BY <1>3, <1>7, <2>1 DEF Fits
  <2>7. /\ h.got # None => h.got.who = Past \/ Owned(h.got)'
        /\ h.proved => h.st = "ready" /\ <<i, h.epoch>> \in granted'
    BY <1>3, <2>2, <2>3 DEF Fits
  <2>8. /\ h.save.step # "none" /\ h.save.op # None /\ h.save.op.val.who = i
        /\ h.save.op.val.srev = h.srev /\ h.save.op.val.epoch = h.epoch
        /\ h.save.step = "committed" => Owned(h.save.op.val)'
    BY <1>3, <1>7 DEF Owned
  <2> QED
    BY <2>4, <2>5, <2>6, <2>7, <2>8 DEF Fits, Owned, Knows
<1>8. GamesFit'
  BY <1>1, <1>4, <1>6, <1>7, GamesFitAfter
<1> QED
  BY <1>3, <1>4, <1>5, <1>8

\* The answer to a save, and what it does to the windows.
LEMMA AnsweredStep ==
  ASSUME OwnerInv, NEW i \in Games,
         NEW how \in {"committed", "superseded", "in_use", "pending", "error"},
         Answered(i, how), work[i].op # None, granted \subseteq granted', ConfirmedStays,
         how = "committed" => <<work[i].op.val.who, work[i].op.val.epoch>> \in granted'
  PROVE  /\ game' \in [Games -> AGame] /\ SameWindows /\ GamesFit'
         /\ \A j \in Games : j # i => game'[j] = game[j]
         /\ \A j \in Games : Sent(j)' => SentBefore(j)
<1>1. TypeOK /\ GamesFit /\ WorkFits(i) /\ game[i] \in AGame
  BY InvParts DEF TypeOK, WorksFit
<1>2. CASE work[i].mine /\ Alive(i)
  <2>1. PICK op : op = work[i].op
    OBVIOUS
  <2>2. game[i].save = [step |-> "taken", op |-> op]
    BY <1>1, <1>2, <2>1 DEF WorkFits
  <2>3. PICK s : s = [step |-> how, op |-> op]
    OBVIOUS
  <2>4. PICK h : h = [game[i] EXCEPT !.save = s]
    OBVIOUS
  <2>5. op \in Operation
    BY <1>1, <2>1 DEF TypeOK, Work
  <2>6. s \in Save
    BY <2>3, <2>5 DEF Save
  <2>7. Set(i, h)
    <3>1. Set(i, [game[i] EXCEPT !.save.step = how])
      BY <1>2 DEF Answered
    <3>2. [game[i] EXCEPT !.save.step = how] = [game[i] EXCEPT !.save = s]
      BY <1>1, <2>2, <2>3 DEF AGame
    <3> QED
      BY <2>4, <3>1, <3>2
  <2>8. /\ game[i].save # NoSave /\ s.op # None /\ s.op.val.who = i
        /\ s.op.val.srev = game[i].srev /\ s.op.val.epoch = game[i].epoch
        /\ s.step = "committed" => <<s.op.val.who, s.op.val.epoch>> \in granted'
    <3>1. Fits(i, game[i])
      BY <1>1, <1>2 DEF GamesFit
    <3>2. game[i].save # NoSave /\ game[i].save.op = op
      BY <2>2 DEF NoSave
    <3>3. op.val.who = i /\ op.val.srev = game[i].srev /\ op.val.epoch = game[i].epoch
      BY <3>1, <3>2 DEF Fits
    <3> QED
      BY <2>1, <2>3, <3>2, <3>3
  <2>9. s.step \notin {"none", "sent"}
    BY <2>3
  <2>10. /\ game' \in [Games -> AGame] /\ ~Sent(i)' /\ SameWindows
         /\ GamesFit' /\ \A j \in Games : j # i => game'[j] = game[j]
    BY <2>4, <2>6, <2>7, <2>8, <2>9, SaveStep
  <2>11. \A j \in Games : Sent(j)' => SentBefore(j)
    BY <2>10 DEF Sent, SentBefore
  <2> QED
    BY <2>10, <2>11
<1>3. CASE ~(work[i].mine /\ Alive(i))
  <2>1. game' = game
    BY <1>3 DEF Answered
  <2>2. SameWindows /\ \A j \in Games : Sent(j)' => SentBefore(j)
    BY <2>1 DEF SameWindows, Alive, Sent, SentBefore
  <2>3. PICK h : h = game[i]
    OBVIOUS
  <2>4. game' = [game EXCEPT ![i] = h]
    BY <1>1, <2>1, <2>3 DEF TypeOK
  <2>5. Alive(i)' => Fits(i, h)'
    BY <1>1, <2>1, <2>3, FitsGrows DEF GamesFit, Alive, ConfirmedStays
  <2>6. GamesFit'
    BY <1>1, <2>4, <2>5, GamesFitAfter
  <2> QED
    BY <1>1, <2>1, <2>2, <2>6 DEF TypeOK
<1> QED
  BY <1>2, <1>3

LEMMA EmitStep ==
  ASSUME OwnerInv, NEW i \in Games, NEW rev \in Nat,
         NEW state \in {"pending", "committed", "refused", "nondurable"},
         NEW val \in Saved \cup {None}, Emit(i, rev, state, val),
         granted \subseteq granted',
         state = "committed" /\ val # None => <<val.who, val.epoch>> \in granted'
  PROVE  /\ event' \in [Games -> Event] /\ \A j \in Games : j # i => event'[j] = event[j]
         /\ event'[i].state = "committed" /\ event'[i].val # None => Owned(event[i].val)'
<1>1. TypeOK /\ WorkFits(i)
  BY InvParts DEF WorksFit
<1>2. PICK e : e = [rev |-> rev, state |-> state, val |-> val]
  OBVIOUS
<1>3. e \in Event /\ e.state = state /\ e.val = val
  BY <1>2 DEF Event
<1>4. event' = [event EXCEPT ![i] = e] \/ event' = event
  BY <1>1, <1>2 DEF Emit, TypeOK
<1>5. CASE event' = [event EXCEPT ![i] = e]
  <2>1. event'[i] = e /\ event' \in [Games -> Event]
    BY <1>1, <1>3, <1>5 DEF TypeOK
  <2> QED
    BY <1>1, <1>3, <1>5, <2>1 DEF TypeOK, Owned
<1>6. CASE event' = event
  BY <1>1, <1>6 DEF TypeOK, WorkFits, Owned
<1> QED
  BY <1>4, <1>5, <1>6
LEMMA WriterStep ==
  ASSUME OwnerInv, NEW i \in Games, TypeOK', OpsInv', GamesFit', OthersStay(i),
         granted \subseteq granted', WorkFits(i)'
  PROVE  OwnerInv'
<1>1. WorksFit'
  BY InvParts, WorksFitAfter
<1> QED
  BY <1>1, InvParts

\* The transaction of an operation in play.
LEMMA ApplyTyped ==
  ASSUME OwnerInv, NEW CONSTANT op, op \in InPlay, Apply(op)
  PROVE  /\ row' \in Saved \cup {None} /\ high' \in Nat /\ rowSeen' \subseteq Nat
         /\ granted' \subseteq Games \X Nat /\ granted \subseteq granted' /\ faults' \in Nat
         /\ journal' \in Seq(Operation) /\ Ops(journal)' \subseteq InPlay
         /\ Outcome(op) \in {"committed", "duplicate"}
              => <<op.val.who, op.val.epoch>> \in granted'
<1>1. /\ TypeOK /\ op \in Operation /\ op.val \in Saved /\ op.rev \in Nat /\ op.seen \subseteq Nat
      /\ op.val.who \in Games /\ op.val.epoch \in Nat
  BY InvParts, InPlayTyped DEF Operation, Saved, OpsInv, OperationsKnow
<1>2. /\ row' \in Saved \cup {None} /\ high' \in Nat /\ rowSeen' \subseteq Nat
      /\ granted' \subseteq Games \X Nat /\ granted \subseteq granted'
      /\ Outcome(op) \in {"committed", "duplicate"}
           => <<op.val.who, op.val.epoch>> \in granted'
  <2>1. CASE Outcome(op) = "committed"
    BY <1>1, <2>1 DEF Apply, TypeOK
  <2>2. CASE Outcome(op) # "committed"
    <3>1. UNCHANGED store
      BY <2>2 DEF Apply
    <3>2. Outcome(op) = "duplicate" => op.rev = high
      BY DEF Outcome
    <3>3. op.rev = high => <<op.val.who, op.val.epoch>> \in granted
      BY InvParts DEF OpsInv, RowIsGranted, Owned
    <3> QED
      BY <1>1, <2>2, <3>1, <3>2, <3>3 DEF store, TypeOK
  <2> QED
    BY <2>1, <2>2
<1>3. faults' \in Nat
  BY <1>1, FaultCounts DEF Apply, TypeOK
<1>4. journal' \in Seq(Operation) /\ Ops(journal)' \subseteq InPlay
  <2>1. journal \in Seq(Operation)
    BY <1>1 DEF TypeOK
  <2>2. \/ AfterOutcome(op) \in {journal, <<>>}
        \/ journal # <<>> /\ AfterOutcome(op) = Tail(journal)
    BY DEF AfterOutcome
  <2>3. journal' \in {journal, <<>>} \/ (journal # <<>> /\ journal' = Tail(journal))
    BY <2>2 DEF Apply
  <2>4. Ops(journal) \subseteq InPlay /\ Ops(<<>>) = {} /\ <<>> \in Seq(Operation)
    BY <2>1, JournalOps, InPlayIs
  <2>5. CASE journal' \in {journal, <<>>}
    BY <2>1, <2>4, <2>5
  <2>6. CASE journal # <<>> /\ journal' = Tail(journal)
    <3>1. Tail(journal) \in Seq(Operation) /\ Ops(Tail(journal)) \subseteq Ops(journal)
      BY <2>1, <2>6, JournalOps
    <3> QED
      BY <2>4, <2>6, <3>1
  <2> QED
    BY <2>3, <2>5, <2>6
<1> QED
  BY <1>2, <1>3, <1>4

LEMMA ApplyOps ==
  ASSUME OwnerInv, NEW CONSTANT op, op \in InPlay, Apply(op), InPlay' \subseteq InPlay,
         tick' = tick, confirmed' = confirmed, SameWindows, \A j \in Games : Sent(j)' => SentBefore(j)
  PROVE  OpsInv'
<1>1. TypeOK /\ OpsInv /\ ConfirmedStays
  BY InvParts DEF ConfirmedStays
<1>2. CASE Outcome(op) = "committed"
  <2>1. /\ row' = op.val /\ high' = op.rev
        /\ granted' = granted \cup {<<op.val.who, op.val.epoch>>}
    BY <1>2 DEF Apply
  <2>2. high < op.rev
    BY <1>1, <1>2, Orders DEF Outcome
  <2> QED
    BY <1>1, <2>1, <2>2, OpsCommitted
<1>3. CASE Outcome(op) # "committed"
  <2>1. UNCHANGED store
    BY <1>3 DEF Apply
  <2>2. tick' \in Nat /\ tick <= tick'
    BY <1>1 DEF TypeOK
  <2> QED
    BY <1>1, <2>1, <2>2, OpsKept
<1> QED
  BY <1>2, <1>3

LEMMA EmitOutcomeStep ==
  ASSUME OwnerInv, NEW i \in Games, NEW op \in InPlay, Apply(op), EmitOutcome(i, op)
  PROVE  /\ event' \in [Games -> Event] /\ \A j \in Games : j # i => event'[j] = event[j]
         /\ event'[i].state = "committed" /\ event'[i].val # None => Owned(event[i].val)'
<1>1. /\ TypeOK /\ op \in Operation /\ op.val \in Saved /\ op.rev \in Nat /\ high \in Nat
  BY InvParts, Orders
<1>2. /\ granted \subseteq granted'
      /\ Outcome(op) \in {"committed", "duplicate"} => <<op.val.who, op.val.epoch>> \in granted'
  BY ApplyTyped
<1>3. CASE Outcome(op) = "superseded"
  <2>1. Emit(i, high, "committed", None)
    BY <1>3 DEF EmitOutcome
  <2> QED
    BY <1>1, <1>2, <2>1, EmitStep
<1>4. CASE Outcome(op) = "in_use"
  <2>1. Emit(i, op.rev, "refused", None)
    BY <1>4 DEF EmitOutcome
  <2> QED
    BY <1>1, <1>2, <2>1, EmitStep
<1>5. CASE Outcome(op) \in {"committed", "duplicate"}
  <2>1. Emit(i, op.rev, "committed", op.val)
    BY <1>5 DEF EmitOutcome
  <2> QED
    BY <1>1, <1>2, <1>5, <2>1, EmitStep
<1> QED
  BY <1>3, <1>4, <1>5 DEF Outcome

LEMMA ReplayKeeps ==
  ASSUME OwnerInv, NEW i \in Games, Replay(i)
  PROVE  OwnerInv' /\ InPlay' \subseteq InPlay
<1>1. TypeOK /\ OpsInv /\ GamesFit /\ WorkFits(i)
  BY InvParts DEF WorksFit
<1>2. PICK op : op = Head(journal)
  OBVIOUS
<1>3. /\ Apply(op) /\ EmitOutcome(i, op) /\ UNCHANGED <<tick, game, work, held, moves, confirmed>>
      /\ journal # <<>>
  BY <1>2 DEF Replay
<1>4. op \in InPlay
  BY <1>1, <1>2, <1>3, JournalOps, InPlayIs DEF TypeOK
<1>5. /\ row' \in Saved \cup {None} /\ high' \in Nat /\ rowSeen' \subseteq Nat
      /\ granted' \subseteq Games \X Nat /\ granted \subseteq granted' /\ faults' \in Nat
      /\ journal' \in Seq(Operation) /\ Ops(journal)' \subseteq InPlay
  BY <1>3, <1>4, ApplyTyped
<1>6. /\ event' \in [Games -> Event] /\ \A j \in Games : j # i => event'[j] = event[j]
      /\ event'[i].state = "committed" /\ event'[i].val # None => Owned(event[i].val)'
  BY <1>3, <1>4, EmitOutcomeStep
<1>7. TypeOK'
  BY <1>1, <1>3, <1>5, <1>6 DEF TypeOK
<1>8. OthersStay(i)
  BY <1>3, <1>6 DEF OthersStay
<1>9. /\ Waiting(i)' \subseteq InPlay \cup {None} /\ SameWindows
      /\ \A j \in Games : Sent(j)' => SentBefore(j)
  BY <1>3, InPlayIs DEF Waiting, Sent, SentBefore, SameWindows, Alive
<1>10. InPlay' \subseteq InPlay
  <2>1. \A j \in Games : Waiting(j)' \subseteq InPlay \cup {None}
    BY <1>8, <1>9, OthersWait
  <2> QED
    BY <1>5, <2>1 DEF InPlay
<1>11. OpsInv'
  BY <1>3, <1>4, <1>9, <1>10, ApplyOps
<1>12. GamesFit'
  <2>1. PICK h : h = game[i]
    OBVIOUS
  <2>2. game' = [game EXCEPT ![i] = h]
    BY <1>1, <1>3, <2>1 DEF TypeOK
  <2>3. ConfirmedStays
    BY <1>3 DEF ConfirmedStays
  <2>4. Alive(i)' => Fits(i, h)'
    BY <1>1, <1>3, <1>5, <2>1, <2>3, FitsGrows DEF GamesFit, Alive, ConfirmedStays
  <2> QED
    BY <1>1, <1>5, <2>2, <2>3, <2>4, GamesFitAfter
<1>13. WorkFits(i)'
  <2>1. /\ work'[i].step = "idle" => work'[i] = NoWork
        /\ work'[i].step = "write" => work'[i].op # None
    BY <1>1, <1>3 DEF WorkFits
  <2>2. work'[i].mine /\ Alive(i)' => game'[i].save = [step |-> "taken", op |-> work'[i].op]
    <3>1. work[i].mine /\ Alive(i) => game[i].save = [step |-> "taken", op |-> work[i].op]
      BY <1>1 DEF WorkFits
    <3> QED
      BY <1>3, <3>1 DEF Alive
  <2> QED
    BY <1>6, <2>1, <2>2 DEF WorkFits
<1>14. OwnerInv'
  BY <1>5, <1>7, <1>8, <1>11, <1>12, <1>13, WriterStep
<1> QED
  BY <1>10, <1>14
\* A writer that has nothing left to do.
LEMMA RestFits ==
  ASSUME NEW i \in Games, work'[i] = NoWork,
         event'[i].state = "committed" /\ event'[i].val # None => Owned(event[i].val)'
  PROVE  WorkFits(i)'
BY DEF WorkFits, NoWork

LEMMA WriteKeeps ==
  ASSUME OwnerInv, NEW i \in Games, Write(i)
  PROVE  OwnerInv' /\ InPlay' \subseteq InPlay
<1>1. TypeOK /\ OpsInv /\ GamesFit /\ WorkFits(i)
  BY InvParts DEF WorksFit
<1>2. PICK op : op = work[i].op
  OBVIOUS
<1>3. PICK how : how = IF Outcome(op) = "duplicate" THEN "committed" ELSE Outcome(op)
  OBVIOUS
<1>4. /\ Apply(op) /\ EmitOutcome(i, op) /\ work[i].step = "write"
      /\ work' = [work EXCEPT ![i] = NoWork] /\ UNCHANGED <<tick, moves, confirmed>>
  BY <1>2 DEF Write
<1>5. Answered(i, how)
  BY <1>2, <1>3 DEF Write
<1>6. PICK k : k \in {work[i].prev, None} /\ held' = [held EXCEPT ![i] = k]
  BY DEF Write
<1>7. op # None /\ op \in InPlay
  <2>1. op # None
    BY <1>1, <1>2, <1>4 DEF WorkFits
  <2> QED
    BY <1>2, <2>1, InPlayIs DEF Waiting
<1>8. /\ row' \in Saved \cup {None} /\ high' \in Nat /\ rowSeen' \subseteq Nat
      /\ granted' \subseteq Games \X Nat /\ granted \subseteq granted' /\ faults' \in Nat
      /\ journal' \in Seq(Operation) /\ Ops(journal)' \subseteq InPlay
      /\ Outcome(op) \in {"committed", "duplicate"}
           => <<op.val.who, op.val.epoch>> \in granted'
  BY <1>4, <1>7, ApplyTyped
<1>9. /\ event' \in [Games -> Event] /\ \A j \in Games : j # i => event'[j] = event[j]
      /\ event'[i].state = "committed" /\ event'[i].val # None => Owned(event[i].val)'
  BY <1>4, <1>7, EmitOutcomeStep
<1>10. ConfirmedStays
  BY <1>4 DEF ConfirmedStays
<1>11. /\ game' \in [Games -> AGame] /\ SameWindows /\ GamesFit'
       /\ \A j \in Games : j # i => game'[j] = game[j]
       /\ \A j \in Games : Sent(j)' => SentBefore(j)
  <2>1. how \in {"committed", "superseded", "in_use"}
    BY <1>3 DEF Outcome
  <2>2. how = "committed" => <<work[i].op.val.who, work[i].op.val.epoch>> \in granted'
    BY <1>2, <1>3, <1>8
  <2> QED
    BY <1>2, <1>5, <1>7, <1>8, <1>10, <2>1, <2>2, AnsweredStep
<1>12. /\ work' \in [Games -> Work] /\ work'[i] = NoWork
       /\ held' \in [Games -> Operation \cup {None}] /\ held'[i] = k
       /\ \A j \in Games : j # i => work'[j] = work[j] /\ held'[j] = held[j]
  <2>1. NoWork \in Work
    BY DEF NoWork, Work
  <2>2. k \in Operation \cup {None}
    BY <1>1, <1>6 DEF TypeOK, Work
  <2> QED
    BY <1>1, <1>4, <1>6, <2>1, <2>2 DEF TypeOK
<1>13. TypeOK'
  BY <1>1, <1>4, <1>8, <1>9, <1>11, <1>12 DEF TypeOK
<1>14. OthersStay(i)
  BY <1>9, <1>11, <1>12 DEF OthersStay
<1>15. Waiting(i)' \subseteq InPlay \cup {None}
  <2>1. Sent(i)' => SentBefore(i)
    BY <1>11
  <2>2. Waiting(i)' \subseteq Waiting(i) \cup {None}
    BY <1>6, <1>12, <2>1 DEF Waiting, SentBefore, NoWork
  <2> QED
    BY <2>2, InPlayIs
<1>16. InPlay' \subseteq InPlay
  <2>1. \A j \in Games : Waiting(j)' \subseteq InPlay \cup {None}
    BY <1>14, <1>15, OthersWait
  <2> QED
    BY <1>8, <2>1 DEF InPlay
<1>17. OpsInv'
  BY <1>4, <1>7, <1>11, <1>16, ApplyOps
<1>18. WorkFits(i)'
  BY <1>9, <1>12, RestFits
<1>19. OwnerInv'
  BY <1>8, <1>11, <1>13, <1>14, <1>17, <1>18, WriterStep
<1> QED
  BY <1>16, <1>19

LEMMA BusyKeeps ==
  ASSUME OwnerInv, NEW i \in Games, Busy(i)
  PROVE  OwnerInv' /\ InPlay' \subseteq InPlay
<1>1. TypeOK /\ OpsInv /\ GamesFit /\ WorkFits(i)
  BY InvParts DEF WorksFit
<1>2. PICK op : op = work[i].op
  OBVIOUS
<1>3. /\ work[i].step = "write" /\ work' = [work EXCEPT ![i] = NoWork]
      /\ UNCHANGED <<store, journal, tick, moves, confirmed>>
  BY DEF Busy
<1>4. op # None /\ op \in Operation /\ op \in Waiting(i) /\ op.rev \in Nat
  BY <1>1, <1>2, <1>3 DEF WorkFits, TypeOK, Work, Waiting, Operation
<1>5. PICK k : k \in {held[i], op} /\ held' = [held EXCEPT ![i] = k]
  BY <1>1, <1>2 DEF Busy, TypeOK
<1>6. PICK how, state : /\ how \in {"pending", "error"} /\ state \in {"pending", "nondurable"}
                        /\ Answered(i, how) /\ Emit(i, op.rev, state, None)
  BY <1>2 DEF Busy
<1>7. granted' = granted /\ ConfirmedStays
  BY <1>3 DEF store, ConfirmedStays
<1>8. /\ event' \in [Games -> Event] /\ \A j \in Games : j # i => event'[j] = event[j]
      /\ event'[i].state = "committed" /\ event'[i].val # None => Owned(event[i].val)'
  BY <1>4, <1>6, <1>7, EmitStep
<1>9. /\ game' \in [Games -> AGame] /\ SameWindows /\ GamesFit'
      /\ \A j \in Games : j # i => game'[j] = game[j]
      /\ \A j \in Games : Sent(j)' => SentBefore(j)
  BY <1>2, <1>4, <1>6, <1>7, AnsweredStep
<1>10. /\ work' \in [Games -> Work] /\ work'[i] = NoWork
       /\ held' \in [Games -> Operation \cup {None}] /\ held'[i] = k
       /\ \A j \in Games : j # i => work'[j] = work[j] /\ held'[j] = held[j]
  <2>1. NoWork \in Work
    BY DEF NoWork, Work
  <2>2. k \in Operation \cup {None}
    BY <1>1, <1>4, <1>5 DEF TypeOK
  <2> QED
    BY <1>1, <1>3, <1>5, <2>1, <2>2 DEF TypeOK
<1>11. TypeOK'
  <2>1. faults' \in Nat
    BY <1>1, FaultCounts DEF Busy, TypeOK
  <2> QED
    BY <1>1, <1>3, <1>8, <1>9, <1>10, <2>1 DEF TypeOK, store
<1>12. OthersStay(i)
  BY <1>8, <1>9, <1>10 DEF OthersStay
<1>13. Waiting(i)' \subseteq InPlay \cup {None}
  <2>1. Sent(i)' => SentBefore(i)
    BY <1>9
  <2>2. Waiting(i)' \subseteq Waiting(i) \cup {None}
    BY <1>4, <1>5, <1>10, <2>1 DEF Waiting, SentBefore, NoWork
  <2> QED
    BY <2>2, InPlayIs
<1>14. InPlay' \subseteq InPlay
  <2>1. \A j \in Games : Waiting(j)' \subseteq InPlay \cup {None}
    BY <1>12, <1>13, OthersWait
  <2> QED
    BY <1>3, <2>1, InPlayIs DEF InPlay
<1>15. OpsInv'
  <2>1. tick' \in Nat /\ tick <= tick'
    BY <1>1, <1>3 DEF TypeOK
  <2> QED
    BY <1>1, <1>3, <1>7, <1>9, <1>14, <2>1, OpsKept
<1>16. WorkFits(i)'
  BY <1>8, <1>10, RestFits
<1>17. OwnerInv'
  BY <1>7, <1>9, <1>11, <1>12, <1>15, <1>16, WriterStep
<1> QED
  BY <1>14, <1>17

LEMMA RefreshKeeps ==
  ASSUME OwnerInv, NEW i \in Games, Refresh(i)
  PROVE  OwnerInv' /\ InPlay' \subseteq InPlay
<1>1. TypeOK /\ OpsInv /\ GamesFit /\ WorkFits(i)
  BY InvParts DEF WorksFit
<1>2. UNCHANGED <<store, journal, tick, game, work, held, moves, faults, confirmed>>
  BY DEF Refresh
<1>3. granted' = granted /\ ConfirmedStays
  BY <1>2 DEF store, ConfirmedStays
<1>4. /\ event' \in [Games -> Event] /\ \A j \in Games : j # i => event'[j] = event[j]
      /\ event'[i].state = "committed" /\ event'[i].val # None => Owned(event[i].val)'
  <2>1. CASE journal # <<>> /\ Head(journal).rev > high
    <3>1. Head(journal) \in Operation
      BY <1>1, <2>1, HeadTailProperties DEF TypeOK
    <3>2. Head(journal).rev \in Nat
      BY <3>1 DEF Operation
    <3>3. Emit(i, Head(journal).rev, "pending", None)
      BY <2>1 DEF Refresh
    <3> QED
      BY <1>3, <3>2, <3>3, EmitStep
  <2>2. CASE ~(journal # <<>> /\ Head(journal).rev > high)
    <3>1. row # None /\ high > 0 /\ Emit(i, high, "committed", row)
      BY <2>2 DEF Refresh
    <3>2. row \in Saved /\ high \in Nat
      BY <1>1, <3>1 DEF TypeOK
    <3>3. <<row.who, row.epoch>> \in granted
      BY <1>1, <3>1, <3>2 DEF OpsInv, RowIsGranted, Owned
    <3> QED
      BY <1>3, <3>1, <3>2, <3>3, EmitStep
  <2> QED
    BY <2>1, <2>2
<1>5. TypeOK'
  BY <1>1, <1>2, <1>4 DEF TypeOK, store
<1>6. OthersStay(i)
  BY <1>2, <1>4 DEF OthersStay
<1>7. /\ SameWindows /\ \A j \in Games : Sent(j)' => SentBefore(j)
      /\ InPlay' = InPlay
  BY <1>2 DEF Waiting, Sent, SentBefore, SameWindows, Alive, InPlay
<1>8. OpsInv'
  <2>1. tick' \in Nat /\ tick <= tick'
    BY <1>1, <1>2 DEF TypeOK
  <2> QED
    BY <1>1, <1>2, <1>3, <1>7, <2>1, OpsKept
<1>9. GamesFit'
  BY <1>1, <1>2 DEF GamesFit, Fits, Alive, Knows, Owned, store
<1>10. WorkFits(i)'
  <2>1. /\ work'[i].step = "idle" => work'[i] = NoWork
        /\ work'[i].step = "write" => work'[i].op # None
    BY <1>1, <1>2 DEF WorkFits
  <2>2. work'[i].mine /\ Alive(i)' => game'[i].save = [step |-> "taken", op |-> work'[i].op]
    <3>1. work[i].mine /\ Alive(i) => game[i].save = [step |-> "taken", op |-> work[i].op]
      BY <1>1 DEF WorkFits
    <3> QED
      BY <1>2, <3>1 DEF Alive
  <2> QED
    BY <1>4, <2>1, <2>2 DEF WorkFits
<1>11. OwnerInv'
  BY <1>3, <1>5, <1>6, <1>8, <1>9, <1>10, WriterStep
<1> QED
  BY <1>7, <1>11
\* An operation that the writer takes up, in the journal file or not.
LEMMA PutStep ==
  ASSUME OwnerInv, NEW i \in Games, NEW CONSTANT op, op \in Operation, NEW rev \in Nat,
         NEW mine \in BOOLEAN, [op EXCEPT !.rev = rev] = op, Put(i, op, rev, mine)
  PROVE  /\ journal' \in Seq(Operation) /\ Ops(journal)' \subseteq InPlay \cup {op}
         /\ work' \in [Games -> Work] /\ work'[i].step = "write" /\ work'[i].op = op
         /\ work'[i].mine = mine /\ work'[i].prev \in InPlay \cup {None}
         /\ \A j \in Games : j # i => work'[j] = work[j]
<1>1. TypeOK /\ journal \in Seq(Operation)
  BY InvParts DEF TypeOK
<1>2. PICK prev : prev = IF journal = <<>> THEN None ELSE Head(journal)
  OBVIOUS
<1>3. prev \in InPlay \cup {None} /\ prev \in Operation \cup {None}
  <2>1. journal # <<>> => Head(journal) \in Ops(journal)
    BY <1>1, JournalOps
  <2> QED
    BY <1>1, <1>2, <2>1, InPlayIs, InPlayTyped
<1>4. PICK w : w = [step |-> "write", op |-> op, journaled |-> TRUE, mine |-> mine, prev |-> prev]
  OBVIOUS
<1>5. w \in Work
  BY <1>3, <1>4 DEF Work
<1>6. journal' = <<op>> \o journal /\ work' = [work EXCEPT ![i] = w]
  BY <1>2, <1>4 DEF Put
<1>7. <<op>> \o journal \in Seq(Operation) /\ Ops(<<op>> \o journal) \subseteq {op} \cup Ops(journal)
  BY <1>1, PutOps
<1>8. journal' \in Seq(Operation) /\ Ops(journal)' \subseteq InPlay \cup {op}
  BY <1>6, <1>7, InPlayIs
<1>9. work' \in [Games -> Work] /\ work'[i] = w /\ \A j \in Games : j # i => work'[j] = work[j]
  BY <1>1, <1>5, <1>6 DEF TypeOK
<1> QED
  BY <1>3, <1>4, <1>8, <1>9

LEMMA RetryHeldKeeps ==
  ASSUME OwnerInv, NEW i \in Games, RetryHeld(i)
  PROVE  OwnerInv' /\ InPlay' \subseteq InPlay
<1>1. TypeOK /\ OpsInv /\ GamesFit /\ WorkFits(i)
  BY InvParts DEF WorksFit
<1>2. UNCHANGED <<store, tick, game, event, moves, faults, confirmed>>
  BY DEF RetryHeld
<1>3. granted' = granted /\ ConfirmedStays
  BY <1>2 DEF store, ConfirmedStays
<1>4. PICK op : op = held[i]
  OBVIOUS
<1>5. op \in Operation /\ op \in InPlay
  BY <1>1, <1>4, InPlayIs DEF RetryHeld, TypeOK, Waiting
<1>6. /\ work' \in [Games -> Work] /\ held' \in [Games -> Operation \cup {None}]
      /\ \A j \in Games : j # i => work'[j] = work[j] /\ held'[j] = held[j]
      /\ journal' \in Seq(Operation) /\ Ops(journal)' \subseteq InPlay
      /\ {work'[i].op, work'[i].prev, held'[i]} \subseteq InPlay \cup {None}
      /\ work'[i] = NoWork \/ (work'[i].step = "write" /\ ~work'[i].mine /\ work'[i].op # None)
  <2>1. CASE Overtaken(op)
    <3>1. held' = [held EXCEPT ![i] = None] /\ UNCHANGED <<journal, work>>
      BY <1>4, <2>1 DEF RetryHeld
    <3>2. work[i] = NoWork
      BY <1>1 DEF RetryHeld, Idle, WorkFits
    <3>3. journal' \in Seq(Operation) /\ Ops(journal)' \subseteq InPlay
      BY <1>1, <3>1, InPlayIs DEF TypeOK
    <3>4. work' \in [Games -> Work] /\ held' \in [Games -> Operation \cup {None}] /\ held'[i] = None
          /\ \A j \in Games : j # i => work'[j] = work[j] /\ held'[j] = held[j]
      BY <1>1, <3>1 DEF TypeOK
    <3> QED
      BY <3>1, <3>2, <3>3, <3>4 DEF NoWork
  <2>2. CASE ~Overtaken(op)
    <3>1. Put(i, op, op.rev, FALSE) /\ UNCHANGED held
      BY <1>4, <2>2 DEF RetryHeld
    <3>2. [op EXCEPT !.rev = op.rev] = op /\ op.rev \in Nat
      BY <1>5 DEF Operation
    <3>3. FALSE \in BOOLEAN
      OBVIOUS
    <3>4. /\ journal' \in Seq(Operation) /\ Ops(journal)' \subseteq InPlay \cup {op}
          /\ work' \in [Games -> Work] /\ work'[i].step = "write" /\ work'[i].op = op
          /\ work'[i].mine = FALSE /\ work'[i].prev \in InPlay \cup {None}
          /\ \A j \in Games : j # i => work'[j] = work[j]
      BY <1>5, <3>1, <3>2, <3>3, PutStep
    <3>5. op # None
      BY <1>5, NoneAssumption
    <3>6. held' = held /\ held[i] = op /\ held \in [Games -> Operation \cup {None}]
      BY <1>1, <1>4, <3>1 DEF TypeOK
    <3> QED
      BY <1>5, <3>4, <3>5, <3>6
  <2> QED
    BY <2>1, <2>2
<1>7. TypeOK'
  BY <1>1, <1>2, <1>6 DEF TypeOK, store
<1>8. OthersStay(i)
  BY <1>2, <1>6 DEF OthersStay
<1>9. SameWindows /\ \A j \in Games : Sent(j)' => SentBefore(j)
  BY <1>2 DEF Sent, SentBefore, SameWindows, Alive
<1>10. Waiting(i)' \subseteq InPlay \cup {None}
  <2>1. Sent(i)' => game'[i].save.op \in InPlay \cup {None}
    BY <1>2, InPlayIs DEF Sent, Waiting
  <2> QED
    BY <1>6, <2>1 DEF Waiting
<1>11. InPlay' \subseteq InPlay
  <2>1. \A j \in Games : Waiting(j)' \subseteq InPlay \cup {None}
    BY <1>8, <1>10, OthersWait
  <2> QED
    BY <1>6, <2>1 DEF InPlay
<1>12. OpsInv'
  <2>1. tick' \in Nat /\ tick <= tick'
    BY <1>1, <1>2 DEF TypeOK
  <2> QED
    BY <1>1, <1>2, <1>3, <1>9, <1>11, <2>1, OpsKept
<1>13. GamesFit'
  BY <1>1, <1>2 DEF GamesFit, Fits, Alive, Knows, Owned, store
<1>14. WorkFits(i)'
  <2>1. event'[i].state = "committed" /\ event'[i].val # None => Owned(event[i].val)'
    BY <1>1, <1>2, <1>3 DEF WorkFits, Owned
  <2>2. CASE work'[i] = NoWork
    BY <2>1, <2>2, RestFits
  <2>3. CASE work'[i].step = "write" /\ ~work'[i].mine /\ work'[i].op # None
    BY <2>1, <2>3 DEF WorkFits
  <2> QED
    BY <1>6, <2>2, <2>3
<1>15. OwnerInv'
  BY <1>3, <1>7, <1>8, <1>12, <1>13, <1>14, WriterStep
<1> QED
  BY <1>11, <1>15
\* A state that waits for the writer is taken up, overtaken, or tried in vain.
LEMMA PublishTakes ==
  ASSUME OwnerInv, NEW i \in Games, NEW CONSTANT op, op = game[i].save.op,
         Idle(i), Sent(i), tick' = tick + 1, Put(i, op, tick', TRUE),
         Set(i, [game[i] EXCEPT !.save = [step |-> "taken", op |-> work'[i].op]]),
         UNCHANGED <<event, faults, store, held, moves, confirmed>>
  PROVE  OwnerInv' /\ \E new \in Operation : /\ InPlay' \subseteq InPlay \cup {new}
                                             /\ new.val = op.val
<1>1. TypeOK /\ OpsInv /\ WorkFits(i) /\ tick \in Nat /\ SentIsNewest(i) /\ game[i] \in AGame
  BY InvParts DEF WorksFit, OpsInv, NewestSent, TypeOK
<1>2. op # None /\ op.val.who = i /\ op \in InPlay /\ op \in Operation
  <2>1. op # None /\ op.val.who = i /\ op \in Waiting(i)
    BY <1>1 DEF SentIsNewest, Waiting
  <2> QED
    BY <1>1, <2>1, InPlayIs, InPlayTyped
<1>3. PICK new : new = [op EXCEPT !.rev = tick + 1]
  OBVIOUS
<1>4. /\ new \in Operation /\ new.rev = tick + 1 /\ new.val = op.val
      /\ new.expect = op.expect /\ new.seen = op.seen /\ new # None
  <2>1. tick + 1 \in Nat
    BY <1>1
  <2> QED
    BY <1>2, <1>3, <2>1, NoneAssumption DEF Operation
<1>5. Put(i, new, tick + 1, TRUE)
  <2>1. [new EXCEPT !.rev = tick + 1] = new /\ [op EXCEPT !.rev = tick'] = new
    BY <1>2, <1>3 DEF Operation
  <2> QED
    BY <2>1 DEF Put
<1>6. /\ journal' \in Seq(Operation) /\ Ops(journal)' \subseteq InPlay \cup {new}
      /\ work' \in [Games -> Work] /\ work'[i].step = "write" /\ work'[i].op = new
      /\ work'[i].mine = TRUE /\ work'[i].prev \in InPlay \cup {None}
      /\ \A j \in Games : j # i => work'[j] = work[j]
  <2>1. [new EXCEPT !.rev = tick + 1] = new /\ tick + 1 \in Nat /\ TRUE \in BOOLEAN
    BY <1>1, <1>4 DEF Operation
  <2> QED
    BY <1>4, <1>5, <2>1, PutStep
<1>7. PICK s : s = [step |-> "taken", op |-> new]
  OBVIOUS
<1>8. PICK h : h = [game[i] EXCEPT !.save = s]
  OBVIOUS
<1>9. s \in Save /\ Set(i, h) /\ s.step \notin {"none", "sent"}
  BY <1>4, <1>6, <1>7, <1>8 DEF Save
<1>10. granted' = granted /\ ConfirmedStays
  BY DEF store, ConfirmedStays
<1>11. ASSUME Alive(i)
       PROVE  /\ game[i].save # NoSave /\ s.op # None /\ s.op.val.who = i
              /\ s.op.val.srev = game[i].srev /\ s.op.val.epoch = game[i].epoch
              /\ s.step = "committed" => <<s.op.val.who, s.op.val.epoch>> \in granted'
  <2>1. game[i].save # NoSave
    BY DEF Sent, NoSave
  <2>2. /\ game[i].save.op.val.srev = game[i].srev
        /\ game[i].save.op.val.epoch = game[i].epoch
    BY <1>11, <2>1, Typed DEF Fits
  <2> QED
    BY <1>2, <1>4, <1>7, <2>1, <2>2
<1>12. /\ game' \in [Games -> AGame] /\ game'[i].save = s /\ ~Sent(i)' /\ SameWindows
       /\ GamesFit' /\ \A j \in Games : j # i => game'[j] = game[j]
  BY <1>8, <1>9, <1>10, <1>11, SaveStep
<1>13. TypeOK'
  BY <1>1, <1>6, <1>12 DEF TypeOK, store
<1>14. OthersStay(i)
  BY <1>6, <1>12 DEF OthersStay
<1>15. InPlay' \subseteq InPlay \cup {new}
  <2>1. held'[i] \in InPlay \cup {None}
    BY InPlayIs DEF Waiting
  <2>2. Waiting(i)' \subseteq InPlay \cup {new} \cup {None}
    BY <1>6, <1>12, <2>1 DEF Waiting
  <2>3. \A j \in Games : Waiting(j)' \subseteq InPlay \cup {new} \cup {None}
    BY <1>14, <2>2, OthersWait
  <2> QED
    BY <1>6, <2>3, InPlayAfter
<1>16. OpsInv'
  <2>1. /\ new.val.who \in Games /\ new.val.form = "good" /\ new.val.board \in new.seen
        /\ new.expect # None => Knows(new.val.who, new.expect, new.seen)
    BY <1>1, <1>2, <1>4 DEF OpsInv, OperationsKnow
  <2>2. /\ \A other \in InPlay : BuiltOn(new, other.val)
        /\ row # None => BuiltOn(new, row)
    BY <1>1, <1>4 DEF SentIsNewest, BuiltOn
  <2>3. Alive(new.val.who)' => new.val.board \in game'[new.val.who].seen
    <3>1. ASSUME Alive(i)'
          PROVE  op.val.board \in game'[i].seen
      BY <1>1, <1>2, <1>12, <3>1 DEF SameWindows, OpsInv, BoardsKnown, BoardsAreKnown
    <3>2. new.val.who = i /\ new.val.board = op.val.board
      BY <1>2, <1>4
    <3> QED
      BY <3>1, <3>2 DEF Alive
  <2>4. \A j \in Games : Sent(j)' => SentBefore(j) /\ BuiltOn(game[j].save.op, new.val)
    <3> SUFFICES ASSUME NEW j \in Games, Sent(j)'
                 PROVE  SentBefore(j) /\ BuiltOn(game[j].save.op, new.val)
      OBVIOUS
    <3>1. j # i
      BY <1>12 DEF Sent
    <3>2. SentBefore(j)
      BY <1>14, <3>1, OthersWait
    <3>3. game[j].save.op.val.who = j
      BY <1>1, <3>2 DEF SentBefore, OpsInv, NewestSent, SentIsNewest
    <3> QED
      BY <1>2, <1>4, <3>1, <3>2, <3>3 DEF BuiltOn
  <2> QED
    BY <1>1, <1>4, <1>10, <1>12, <1>15, <2>1, <2>2, <2>3, <2>4, OpsGrown
<1>17. WorkFits(i)'
  <2>1. event'[i].state = "committed" /\ event'[i].val # None => Owned(event[i].val)'
    BY <1>1, <1>10 DEF WorkFits, Owned
  <2>2. work'[i].op # None /\ game'[i].save = [step |-> "taken", op |-> work'[i].op]
    BY <1>4, <1>6, <1>7, <1>12
  <2> QED
    BY <1>6, <2>1, <2>2 DEF WorkFits
<1>18. OwnerInv'
  BY <1>10, <1>12, <1>13, <1>14, <1>16, <1>17, WriterStep
<1> QED
  BY <1>4, <1>15, <1>18

LEMMA PublishStays ==
  ASSUME OwnerInv, NEW i \in Games, NEW CONSTANT op, op = game[i].save.op,
         Idle(i), Sent(i), NEW CONSTANT step, step \in {"taken", "superseded"},
         Set(i, [game[i] EXCEPT !.save.step = step]), event' \in [Games -> Event],
         \A j \in Games : j # i => event'[j] = event[j],
         event'[i].state = "committed" /\ event'[i].val # None => Owned(event[i].val)',
         work' = work \/ (step = "taken" /\ work' = [work EXCEPT ![i] =
                            [NoWork EXCEPT !.step = "write", !.op = op, !.mine = TRUE]]),
         faults' \in Nat, UNCHANGED <<journal, tick, store, held, moves, confirmed>>
  PROVE  OwnerInv' /\ InPlay' \subseteq InPlay
<1>1. TypeOK /\ OpsInv /\ WorkFits(i) /\ SentIsNewest(i) /\ game[i] \in AGame /\ work[i] = NoWork
  BY InvParts DEF WorksFit, OpsInv, NewestSent, TypeOK, Idle, WorkFits
<1>2. op # None /\ op.val.who = i /\ op \in Waiting(i) /\ op \in Operation
  <2>1. op # None /\ op.val.who = i /\ op \in Waiting(i)
    BY <1>1 DEF SentIsNewest, Waiting
  <2> QED
    BY <1>1, <2>1, InPlayIs, InPlayTyped
<1>3. PICK w : w = [NoWork EXCEPT !.step = "write", !.op = op, !.mine = TRUE]
  OBVIOUS
<1>4. /\ w \in Work /\ w.step = "write" /\ w.op = op /\ w.prev = None /\ w.mine = TRUE
      /\ NoWork.op = None /\ NoWork.prev = None /\ ~NoWork.mine /\ NoWork.step = "idle"
  BY <1>2, <1>3 DEF NoWork, Work
<1>5. /\ work' \in [Games -> Work] /\ \A j \in Games : j # i => work'[j] = work[j]
      /\ work'[i] = NoWork \/ (step = "taken" /\ work'[i] = w)
  BY <1>1, <1>3, <1>4 DEF TypeOK
<1>6. PICK s : s = [step |-> step, op |-> op]
  OBVIOUS
<1>7. PICK h : h = [game[i] EXCEPT !.save = s]
  OBVIOUS
<1>8. s \in Save /\ s.step \notin {"none", "sent"}
  BY <1>2, <1>6 DEF Save
<1>9. Set(i, h)
  <2>1. [game[i] EXCEPT !.save.step = step] = [game[i] EXCEPT !.save = s]
    BY <1>1, <1>6 DEF AGame, Save
  <2> QED
    BY <1>7, <2>1
<1>10. granted' = granted /\ ConfirmedStays
  BY DEF store, ConfirmedStays
<1>11. ASSUME Alive(i)
       PROVE  /\ game[i].save # NoSave /\ s.op # None /\ s.op.val.who = i
              /\ s.op.val.srev = game[i].srev /\ s.op.val.epoch = game[i].epoch
              /\ s.step = "committed" => <<s.op.val.who, s.op.val.epoch>> \in granted'
  <2>1. game[i].save # NoSave
    BY DEF Sent, NoSave
  <2>2. /\ game[i].save.op.val.srev = game[i].srev
        /\ game[i].save.op.val.epoch = game[i].epoch
    BY <1>11, <2>1, Typed DEF Fits
  <2> QED
    BY <1>2, <1>6, <2>1, <2>2
<1>12. /\ game' \in [Games -> AGame] /\ game'[i].save = s /\ ~Sent(i)' /\ SameWindows
       /\ GamesFit' /\ \A j \in Games : j # i => game'[j] = game[j]
  BY <1>7, <1>8, <1>9, <1>10, <1>11, SaveStep
<1>13. TypeOK'
  BY <1>1, <1>5, <1>12 DEF TypeOK, store
<1>14. OthersStay(i)
  BY <1>5, <1>12 DEF OthersStay
<1>15. InPlay' \subseteq InPlay
  <2>1. {work'[i].op, work'[i].prev} \subseteq Waiting(i) \cup {None}
    BY <1>2, <1>4, <1>5
  <2>2. Waiting(i)' \subseteq Waiting(i) \cup {None}
    BY <1>12, <2>1 DEF Waiting
  <2>3. \A j \in Games : Waiting(j)' \subseteq InPlay \cup {None}
    BY <1>14, <2>2, OthersWait, InPlayIs
  <2> QED
    BY <2>3, InPlayIs DEF InPlay
<1>16. OpsInv'
  <2>1. tick' \in Nat /\ tick <= tick'
    BY <1>1 DEF TypeOK
  <2>2. \A j \in Games : Sent(j)' => SentBefore(j)
    BY <1>12, <1>14, OthersWait
  <2> QED
    BY <1>1, <1>10, <1>12, <1>15, <2>1, <2>2, OpsKept
<1>17. WorkFits(i)'
  <2>1. CASE work'[i] = NoWork
    BY <2>1, RestFits
  <2>2. CASE step = "taken" /\ work'[i] = w
    <3>1. game'[i].save = [step |-> "taken", op |-> work'[i].op]
      BY <1>4, <1>6, <1>12, <2>2
    <3> QED
      BY <1>2, <1>4, <2>2, <3>1 DEF WorkFits
  <2> QED
    BY <1>5, <2>1, <2>2
<1>18. OwnerInv'
  BY <1>10, <1>12, <1>13, <1>14, <1>16, <1>17, WriterStep
<1> QED
  BY <1>15, <1>18

LEMMA PublishKeeps ==
  ASSUME OwnerInv, NEW i \in Games, Publish(i)
  PROVE  /\ OwnerInv'
         /\ \/ InPlay' \subseteq InPlay
            \/ /\ Sent(i) /\ ~Overtaken(game[i].save.op)
               /\ \E new \in Operation : /\ InPlay' \subseteq InPlay \cup {new}
                                         /\ new.val = game[i].save.op.val
<1>1. PICK op : op = game[i].save.op
  OBVIOUS
<1>2. TypeOK /\ WorkFits(i) /\ Idle(i) /\ Sent(i) /\ UNCHANGED <<store, held, moves, confirmed>>
  BY InvParts DEF Publish, Sent, WorksFit
<1>3. granted' = granted
  BY <1>2 DEF store
<1>4. CASE /\ Overtaken(op)
           /\ Set(i, [game[i] EXCEPT !.save.step = "superseded"])
           /\ Emit(i, Head(journal).rev, "pending", None)
           /\ UNCHANGED <<journal, tick, work, faults>>
  <2>1. Head(journal).rev \in Nat
    <3>1. Head(journal) \in Operation
      BY <1>2, <1>4, HeadTailProperties DEF Overtaken, TypeOK
    <3> QED
      BY <3>1 DEF Operation
  <2>2. /\ event' \in [Games -> Event] /\ \A j \in Games : j # i => event'[j] = event[j]
        /\ event'[i].state = "committed" /\ event'[i].val # None => Owned(event[i].val)'
    BY <1>3, <1>4, <2>1, EmitStep
  <2>3. faults' \in Nat
    BY <1>2, <1>4 DEF TypeOK
  <2> QED
    BY <1>1, <1>2, <1>4, <2>2, <2>3, PublishStays
<1>5. CASE /\ ~Overtaken(op) /\ tick' = tick + 1 /\ Put(i, op, tick', TRUE)
           /\ Set(i, [game[i] EXCEPT !.save = [step |-> "taken", op |-> work'[i].op]])
           /\ UNCHANGED <<event, faults>>
  BY <1>1, <1>2, <1>5, PublishTakes
<1>6. CASE /\ Fault
           /\ work' = [work EXCEPT ![i] = [NoWork EXCEPT !.step = "write", !.op = op,
                                                         !.mine = TRUE]]
           /\ Set(i, [game[i] EXCEPT !.save.step = "taken"])
           /\ UNCHANGED <<journal, tick, event>>
  <2>1. /\ event' \in [Games -> Event] /\ \A j \in Games : j # i => event'[j] = event[j]
        /\ event'[i].state = "committed" /\ event'[i].val # None => Owned(event[i].val)'
    BY <1>2, <1>3, <1>6 DEF TypeOK, WorkFits, Owned
  <2>2. faults' \in Nat
    BY <1>2, <1>6, FaultCounts DEF TypeOK
  <2> QED
    BY <1>1, <1>2, <1>6, <2>1, <2>2, PublishStays
<1> QED
  BY <1>1, <1>4, <1>5, <1>6 DEF Publish
LEMMA RunQuarantineKeeps ==
  ASSUME OwnerInv, NEW i \in Games, RunQuarantine(i)
  PROVE  OwnerInv'
<1>1. TypeOK /\ OpsInv /\ GamesFit /\ WorkFits(i) /\ game[i] \in AGame
  BY InvParts DEF WorksFit, TypeOK
<1>2. PICK how \in {"changed", "done", "failed"} : Set(i, [game[i] EXCEPT !.quarantine = how])
  BY DEF RunQuarantine
<1>3. PICK h : h = [game[i] EXCEPT !.quarantine = how]
  OBVIOUS
<1>4. UNCHANGED <<journal, work, held, event, moves, confirmed>> /\ faults' \in Nat
  BY <1>1, FaultCounts DEF RunQuarantine, TypeOK
<1>5. \/ UNCHANGED <<store, tick>>
      \/ /\ row' = None /\ rowSeen' = {} /\ granted' = granted
         /\ tick' = tick + 1 /\ high' = tick + 1
  BY DEF RunQuarantine
<1>6. granted' = granted /\ ConfirmedStays
  BY <1>4, <1>5 DEF store, ConfirmedStays
<1>7. h \in AGame
  BY <1>1, <1>3 DEF AGame
<1>8. /\ h.st = game[i].st /\ h.epoch = game[i].epoch /\ h.expect = game[i].expect
      /\ h.board = game[i].board /\ h.seen = game[i].seen /\ h.pending = game[i].pending
      /\ h.wanted = game[i].wanted /\ h.claim = game[i].claim /\ h.proved = game[i].proved
      /\ h.save = game[i].save /\ h.srev = game[i].srev /\ h.got = game[i].got
  BY <1>1, <1>3 DEF AGame
<1>9. /\ game' = [game EXCEPT ![i] = h] /\ game'[i] = h /\ game' \in [Games -> AGame]
      /\ \A j \in Games : j # i => game'[j] = game[j]
  BY <1>1, <1>2, <1>3, <1>7 DEF Set, TypeOK
<1>10. TypeOK'
  <2>1. CASE UNCHANGED <<store, tick>>
    BY <1>1, <1>4, <1>9, <2>1 DEF TypeOK, store
  <2>2. CASE /\ row' = None /\ rowSeen' = {} /\ granted' = granted
             /\ tick' = tick + 1 /\ high' = tick + 1
    BY <1>1, <1>4, <1>9, <2>2 DEF TypeOK
  <2> QED
    BY <1>5, <2>1, <2>2
<1>11. OthersStay(i)
  BY <1>4, <1>9 DEF OthersStay
<1>12. SameWindows /\ \A j \in Games : Sent(j)' => SentBefore(j)
  BY <1>8, <1>9 DEF SameWindows, Alive, Sent, SentBefore
<1>13. InPlay' \subseteq InPlay
  <2>1. Waiting(i)' = Waiting(i)
    BY <1>4, <1>8, <1>9 DEF Waiting, Sent
  <2>2. \A j \in Games : Waiting(j)' \subseteq InPlay \cup {None}
    BY <1>11, <2>1, OthersWait, InPlayIs
  <2> QED
    BY <1>4, <2>2, InPlayIs DEF InPlay
<1>14. OpsInv'
  <2>1. CASE UNCHANGED <<store, tick>>
    <3>1. tick' \in Nat /\ tick <= tick'
      BY <1>1, <2>1 DEF TypeOK
    <3> QED
      BY <1>1, <1>6, <1>12, <1>13, <2>1, <3>1, OpsKept
  <2>2. CASE /\ row' = None /\ rowSeen' = {} /\ granted' = granted
             /\ tick' = tick + 1 /\ high' = tick + 1
    BY <1>1, <1>6, <1>12, <1>13, <2>2, OpsQuarantined
  <2> QED
    BY <1>5, <2>1, <2>2
<1>15. GamesFit'
  <2>1. Alive(i)' => Alive(i)
    BY <1>8, <1>9 DEF Alive
  <2>2. ASSUME Alive(i)
        PROVE  Fits(i, h)'
    <3>1. Fits(i, game[i])
      BY <1>1, <2>2 DEF GamesFit
    <3>2. Fits(i, h)
      BY <1>8, <3>1 DEF Fits
    <3> QED
      BY <1>6, <3>2, FitsGrows DEF ConfirmedStays
  <2> QED
    BY <1>1, <1>6, <1>9, <2>1, <2>2, GamesFitAfter
<1>16. WorkFits(i)'
  <2>1. work'[i] = NoWork
    BY <1>1, <1>4 DEF RunQuarantine, Idle, WorkFits
  <2>2. event'[i].state = "committed" /\ event'[i].val # None => Owned(event[i].val)'
    BY <1>1, <1>4, <1>6 DEF WorkFits, Owned
  <2> QED
    BY <2>1, <2>2, RestFits
<1> QED
  BY <1>6, <1>10, <1>11, <1>14, <1>15, <1>16, WriterStep

-----------------------------------------------------------------------------
(***************************************************************************)
(* The invariant, and what follows from it.                                *)
(***************************************************************************)
LEMMA InitHolds ==
  ASSUME SlotBounds, Init
  PROVE  OwnerInv
<1>1. TypeOK
  <2>1. NewGame \in AGame
    BY DEF NewGame, AGame, States, NoSave, Save
  <2>2. NoWork \in Work /\ NoEvent \in Event /\ <<>> \in Seq(Operation)
    BY DEF NoWork, Work, NoEvent, Event
  <2>3. row \in Saved \cup {None}
    BY DEF Init, SlotBounds
  <2> QED
    BY <2>1, <2>2, <2>3 DEF Init, TypeOK
<1>2. \A i \in Games : game[i] = NewGame /\ work[i] = NoWork /\ held[i] = None /\ event[i] = NoEvent
  BY DEF Init
<1>3. InPlay = {}
  <2>1. \A i \in Games : Waiting(i) = {None}
    BY <1>2 DEF Waiting, Sent, NewGame, NoSave, NoWork
  <2>2. Ops(journal) = {}
    <3>1. journal \in Seq(Operation) /\ journal = <<>>
      BY <1>1 DEF Init, TypeOK
    <3> QED
      BY <3>1, JournalOps
  <2> QED
    BY <2>1, <2>2 DEF InPlay
<1>4. row # None => row \in Saved /\ row.who = Past /\ row.who \notin Games
  BY SlotAssumption DEF Init, SlotBounds
<1>5. OpsInv
  <2>1. OperationsKnow /\ OperationsAgree
    BY <1>3 DEF OperationsKnow, OperationsAgree
  <2>2. RowAgrees
    BY <1>3 DEF RowAgrees, Init
  <2>3. RowIsGranted
    BY <1>3, <1>4 DEF RowIsGranted, Init
  <2>4. NewestSent
    BY <1>2 DEF NewestSent, Sent, NewGame, NoSave
  <2>5. BoardsKnown
    BY <1>3, <1>4 DEF BoardsKnown, BoardsAreKnown
  <2> QED
    BY <2>1, <2>2, <2>3, <2>4, <2>5 DEF OpsInv
<1>6. GamesFit
  <2>1. \A i \in Games : Fits(i, NewGame)
    BY DEF Fits, NewGame, NoSave
  <2> QED
    BY <1>2, <2>1 DEF GamesFit
<1>7. WorksFit
  <2> SUFFICES ASSUME NEW i \in Games
               PROVE  WorkFits(i)
    BY DEF WorksFit
  <2>1. ~work[i].mine /\ work[i].step = "idle" /\ event[i].state = "none"
    BY <1>2 DEF NoWork, NoEvent
  <2> QED
    BY <1>2, <2>1 DEF WorkFits
<1> QED
  BY <1>1, <1>5, <1>6, <1>7, InvParts

LEMMA NextHolds ==
  ASSUME OwnerInv, NEW i \in Games, Player(i) \/ Poll(i) \/ Writer(i) \/ Reader(i) \/ Fails(i)
  PROVE  OwnerInv'
<1>1. moves \in Nat /\ faults \in Nat
  BY DEF OwnerInv, TypeOK
<1>2. CASE Player(i)
  <2>1. CASE Move(i)
    BY <1>1, <2>1, MoveSteps, MethodKeeps DEF Move, backend
  <2>2. CASE Restart(i)
    BY <1>1, <2>2, RestartSteps, MethodKeeps DEF Restart
  <2>3. CASE RetryLoad(i)
    BY <1>1, <2>3, RetryLoadSteps, MethodKeeps DEF RetryLoad, backend
  <2>4. CASE ConfirmNewGame(i)
    BY <1>1, <2>4, ConfirmNewGameSteps, MethodKeeps DEF ConfirmNewGame
  <2>5. CASE TakeOver(i)
    BY <2>5, TakeOverKeeps
  <2>6. CASE Close(i)
    BY <2>6, CloseKeeps
  <2>7. CASE CloseUnowned(i) \/ CloseOutdone(i)
    BY <2>7, CloseUnownedKeeps
  <2>8. CASE CloseSlowly(i)
    BY <1>1, <2>8, CloseSlowlySteps, MethodKeeps, FaultCounts DEF CloseSlowly, backend
  <2>9. CASE EndClose(i)
    BY <2>9, EndCloseKeeps
  <2> QED
    BY <1>2, <2>1, <2>2, <2>3, <2>4, <2>5, <2>6, <2>7, <2>8, <2>9 DEF Player
<1>3. CASE Poll(i)
  <2>1. CASE PollLoad(i)
    BY <1>1, <2>1, PollLoadSteps, MethodKeeps DEF PollLoad
  <2>2. CASE PollSave(i)
    BY <2>2, PollSaveKeeps
  <2>3. CASE PollStatus(i)
    BY <1>1, <2>3, PollStatusSteps, MethodKeeps DEF PollStatus, backend
  <2>4. CASE PollQuarantine(i)
    BY <1>1, <2>4, PollQuarantineSteps, MethodKeeps DEF PollQuarantine
  <2>5. CASE Flush(i)
    BY <1>1, <2>5, FlushSteps, MethodKeeps DEF Flush
  <2> QED
    BY <1>3, <2>1, <2>2, <2>3, <2>4, <2>5 DEF Poll
<1>4. CASE Writer(i)
  BY <1>4, PublishKeeps, RetryHeldKeeps, WriteKeeps, ReplayKeeps, RunQuarantineKeeps DEF Writer
<1>5. CASE Reader(i)
  BY <1>5, ReadRowKeeps, RefreshKeeps DEF Reader
<1>6. CASE Fails(i)
  <2>1. CASE ReadFails(i)
    BY <1>1, <2>1, ReadFailsSteps, MethodKeeps, FaultCounts DEF ReadFails, backend
  <2> QED
    BY <1>6, <2>1, BusyKeeps, CrashKeeps DEF Fails
<1> QED
  BY <1>2, <1>3, <1>4, <1>5, <1>6
LEMMA StutterHolds ==
  ASSUME OwnerInv, UNCHANGED vars
  PROVE  OwnerInv'
<1>1. /\ UNCHANGED <<row, high, rowSeen, granted, journal, tick, game, work, held, event,
                     moves, faults, confirmed>>
  BY DEF vars, store
<1>2. TypeOK /\ OpsInv /\ GamesFit /\ WorksFit
  BY InvParts
<1>3. TypeOK'
  BY <1>1, <1>2 DEF TypeOK
<1>4. OpsInv'
  <2>1. /\ SameWindows /\ ConfirmedStays /\ \A j \in Games : Sent(j)' => SentBefore(j)
        /\ InPlay' = InPlay
    BY <1>1 DEF Waiting, Sent, SentBefore, SameWindows, Alive, InPlay, ConfirmedStays
  <2>2. tick' \in Nat /\ tick <= tick' /\ UNCHANGED store
    BY <1>1, <1>2 DEF TypeOK, store
  <2> QED
    BY <1>2, <2>1, <2>2, OpsKept
<1>5. GamesFit'
  BY <1>1, <1>2 DEF GamesFit, Fits, Alive, Knows, Owned
<1>6. WorksFit'
  BY <1>1, <1>2 DEF WorksFit, WorkFits, Alive, Owned
<1> QED
  BY <1>3, <1>4, <1>5, <1>6, InvParts

\* What may happen to the row in a step.
Committed(op) ==
  /\ high < op.rev /\ OwnerMatches(op) /\ row' = op.val /\ rowSeen' = op.seen
  /\ granted' = granted \cup {<<op.val.who, op.val.epoch>>} /\ confirmed' = confirmed

LEMMA ApplyRow ==
  ASSUME OwnerInv, NEW CONSTANT op, op \in InPlay, Apply(op), confirmed' = confirmed
  PROVE  UNCHANGED store \/ Committed(op)
<1>1. op.rev \in Nat /\ high \in Nat
  BY InvParts, Orders
<1>2. CASE Outcome(op) = "committed"
  <2>1. high < op.rev /\ OwnerMatches(op)
    BY <1>1, <1>2 DEF Outcome
  <2> QED
    BY <1>2, <2>1 DEF Apply, Committed
<1>3. CASE Outcome(op) # "committed"
  BY <1>3 DEF Apply
<1> QED
  BY <1>2, <1>3

LEMMA RowMoves ==
  ASSUME OwnerInv, NEW i \in Games, Player(i) \/ Poll(i) \/ Writer(i) \/ Reader(i) \/ Fails(i)
  PROVE  \/ UNCHANGED store
         \/ game[i].quarantine = "asked" /\ row' = None
         \/ \E op \in InPlay : Committed(op)
<1>1. CASE Player(i) \/ Poll(i) \/ Reader(i) \/ Fails(i)
  BY <1>1 DEF Player, Move, Restart, RetryLoad, ConfirmNewGame, TakeOver, Close, CloseOutdone,
              CloseUnowned, CloseSlowly, EndClose, Poll, PollLoad, PollSave, PollStatus,
              PollQuarantine, Flush, Reader, ReadRow, Refresh, Fails, ReadFails, Busy,
              Crash, backend, writing, window
<1>2. CASE Publish(i) \/ RetryHeld(i)
  BY <1>2 DEF Publish, RetryHeld
<1>3. CASE RunQuarantine(i)
  BY <1>3 DEF RunQuarantine
<1>4. CASE Write(i)
  <2>1. PICK op : op = work[i].op
    OBVIOUS
  <2>2. op \in InPlay
    BY <1>4, <2>1, InvParts, InPlayIs DEF Write, WorksFit, WorkFits, Waiting
  <2>3. Apply(op) /\ confirmed' = confirmed
    BY <1>4, <2>1 DEF Write
  <2> QED
    BY <2>2, <2>3, ApplyRow
<1>5. CASE Replay(i)
  <2>1. PICK op : op = Head(journal)
    OBVIOUS
  <2>2. op \in InPlay
    BY <1>5, <2>1, JournalOps, InPlayIs DEF Replay, OwnerInv, TypeOK
  <2>3. Apply(op) /\ confirmed' = confirmed
    BY <1>5, <2>1 DEF Replay
  <2> QED
    BY <2>2, <2>3, ApplyRow
<1> QED
  BY <1>1, <1>2, <1>3, <1>4, <1>5 DEF Writer

LEMMA CommittedKnows ==
  ASSUME OwnerInv, NEW op \in InPlay, Committed(op), row # None
  PROVE  /\ row.board \in rowSeen'
         /\ row.status = "active" /\ row.form = "good" /\ row'.who # row.who
              => row \in confirmed[row'.who]
<1>1. /\ op.expect # None => Knows(op.val.who, op.expect, op.seen)
      /\ BuiltOn(op, row)
  BY InvParts DEF OpsInv, OperationsKnow, RowAgrees, Committed
<1>2. CASE op.expect = row
  BY <1>1, <1>2 DEF Committed, Knows
<1>3. CASE op.expect # row
  <2>1. row.who = op.val.who /\ op.val.srev > row.srev
    BY <1>3 DEF Committed, OwnerMatches
  <2>2. row.srev \in Nat /\ op.val.srev \in Nat
    BY InvParts, Orders
  <2> QED
    BY <1>1, <2>1, <2>2 DEF BuiltOn, Committed
<1> QED
  BY <1>2, <1>3

\* Of every row that follows another, the writer has seen the board, and has the
\* leave of its player where the row was another window's game.
LEMMA RowKnown ==
  ASSUME OwnerInv, [Next]_vars, row' # row, row' # None, row # None
  PROVE  /\ row.board \in rowSeen'
         /\ row.status = "active" /\ row.form = "good" /\ row'.who # row.who
              => row \in confirmed[row'.who]
<1>1. PICK i \in Games : Player(i) \/ Poll(i) \/ Writer(i) \/ Reader(i) \/ Fails(i)
  BY DEF Next, vars, store
<1>2. PICK op \in InPlay : Committed(op)
  BY <1>1, RowMoves DEF store
<1> QED
  BY <1>2, CommittedKnows

\* The types and the invariant of the operations, the row and the windows hold
\* in every state: _apply_state_operation, the writer thread and the game.
THEOREM SlotInductive ==
  ASSUME SlotBounds
  PROVE  Spec => []OwnerInv
<1>1. Init => OwnerInv
  BY InitHolds
<1>2. OwnerInv /\ [Next]_vars => OwnerInv'
  <2> SUFFICES ASSUME OwnerInv, [Next]_vars
               PROVE  OwnerInv'
    OBVIOUS
  <2>1. CASE Next
    BY <2>1, NextHolds DEF Next
  <2>2. CASE UNCHANGED vars
    BY <2>2, StutterHolds
  <2> QED
    BY <2>1, <2>2
<1> QED
  BY <1>1, <1>2, PTL DEF Spec

\* Every state of the slot's machine is well typed.
THEOREM SlotTypeCorrect ==
  ASSUME SlotBounds
  PROVE  Spec => []TypeOK
<1>1. OwnerInv => TypeOK
  BY DEF OwnerInv
<1> QED
  BY <1>1, SlotInductive, PTL

\* A save replaces only a board its game has read or made itself: the ownership
\* check of _apply_state_operation, whatever the journal has reordered.
THEOREM SeenReplaced ==
  ASSUME SlotBounds
  PROVE  Spec => SeenBeforeReplaced
<1>1. OwnerInv /\ [Next]_vars
        => [row' # row /\ row' # None /\ row # None => row.board \in rowSeen']_vars
  BY RowKnown
<1> QED
  BY <1>1, SlotInductive, PTL DEF Spec, SeenBeforeReplaced

\* A row that another window plays on changes hands only with the leave of the
\* new owner's player: _take_over_conflicting_slot and _poll_slot_load.
THEOREM TakeoversConfirmed ==
  ASSUME SlotBounds
  PROVE  Spec => TakeoverIsConfirmed
<1>1. OwnerInv /\ [Next]_vars
        => [row' # row /\ row' # None /\ row # None /\ row.status = "active"
              /\ row.form = "good" /\ row'.who # row.who
            => row \in confirmed[row'.who]]_vars
  BY RowKnown
<1> QED
  BY <1>1, SlotInductive, PTL DEF Spec, TakeoverIsConfirmed
-----------------------------------------------------------------------------
(***************************************************************************)
(* One owner to an epoch, where every row can be read.                     *)
(***************************************************************************)
\* The step leaves a window calm.
LEMMA CalmAfter ==
  ASSUME OwnerInv, EpochsRise, NEW i \in Games, NEW CONSTANT h, Set(i, h),
         \/ Spares(game[i], h)
         \/ h.quarantine = "none" /\ ~h.old /\ (h.got # None => h.got.form = "good")
  PROVE  \A j \in Games : Calm(j)'
<1>1. \A j \in Games : Calm(j)
  BY DEF EpochsRise
<1>2. game'[i] = h /\ \A j \in Games : j # i => game'[j] = game[j]
  BY DEF OwnerInv, TypeOK, Set
<1>3. h.quarantine = "none" /\ ~h.old /\ (h.got # None => h.got.form = "good")
  BY <1>1 DEF Calm, Spares
<1>4. Calm(i)'
  BY <1>2, <1>3 DEF Calm
<1>5. ASSUME NEW j \in Games, j # i
      PROVE  Calm(j)'
  BY <1>1, <1>2, <1>5 DEF Calm
<1> QED
  BY <1>4, <1>5

LEMMA MethodCalm ==
  ASSUME OwnerInv, EpochsRise, NEW i \in Games, Method(i)
  PROVE  \A j \in Games : Calm(j)'
<1>1. PICK h \in AGame : Act(i, h) /\ (Calm(i) => Spares(game[i], h))
  BY DEF Method
<1>2. Set(i, h) /\ Spares(game[i], h)
  BY <1>1 DEF Act, EpochsRise
<1> QED
  BY <1>2, CalmAfter

LEMMA SaveCalm ==
  ASSUME OwnerInv, EpochsRise, NEW i \in Games, NEW CONSTANT s,
         Set(i, [game[i] EXCEPT !.save = s])
  PROVE  \A j \in Games : Calm(j)'
<1>1. PICK h : h = [game[i] EXCEPT !.save = s]
  OBVIOUS
<1>2. Spares(game[i], h)
  BY <1>1 DEF OwnerInv, TypeOK, AGame, Spares
<1>3. Set(i, h)
  BY <1>1
<1> QED
  BY <1>2, <1>3, CalmAfter

LEMMA LeaveCalm ==
  ASSUME OwnerInv, EpochsRise, NEW i \in Games, NEW g \in AGame,
         NEW how \in {"released", "closed"}, Leave(i, g, how)
  PROVE  \A j \in Games : Calm(j)'
<1>1. PICK h \in AGame : Set(i, h) /\ h.quarantine = "none" /\ ~h.old /\ h.got = None
  BY LeaveFields
<1> QED
  BY <1>1, CalmAfter

LEMMA UnchangedCalm ==
  ASSUME EpochsRise, game' = game
  PROVE  \A j \in Games : Calm(j)'
BY DEF EpochsRise, Calm

LEMMA AnsweredCalm ==
  ASSUME OwnerInv, EpochsRise, NEW i \in Games, NEW CONSTANT how, Answered(i, how)
  PROVE  \A j \in Games : Calm(j)'
<1>1. CASE Set(i, [game[i] EXCEPT !.save.step = how])
  <2>1. PICK s : s = [game[i].save EXCEPT !.step = how]
    OBVIOUS
  <2>2. [game[i] EXCEPT !.save.step = how] = [game[i] EXCEPT !.save = s]
    BY <2>1 DEF OwnerInv, TypeOK, AGame
  <2>3. Set(i, [game[i] EXCEPT !.save = s])
    BY <1>1, <2>2
  <2> QED
    BY <2>3, SaveCalm
<1>2. CASE game' = game
  BY <1>2, UnchangedCalm
<1> QED
  BY <1>1, <1>2 DEF Answered

LEMMA NextCalm ==
  ASSUME OwnerInv, EpochsRise, NEW i \in Games,
         Player(i) \/ Poll(i) \/ Writer(i) \/ Reader(i) \/ Fails(i)
  PROVE  \A j \in Games : Calm(j)'
<1>1. game[i] \in AGame /\ TypeOK /\ tick \in Nat /\ Calm(i)
  BY Typed DEF EpochsRise
<1>2. CASE Player(i)
  <2>1. CASE Move(i) \/ Restart(i) \/ RetryLoad(i) \/ ConfirmNewGame(i) \/ CloseSlowly(i)
    BY <2>1, MoveSteps, RestartSteps, RetryLoadSteps, ConfirmNewGameSteps, CloseSlowlySteps,
       MethodCalm
  <2>2. CASE TakeOver(i)
    BY <2>2, TakeOverKeeps, CalmAfter DEF Act
  <2>3. CASE Close(i)
    BY <1>1, <2>3, LeaveCalm DEF Close
  <2>4. CASE CloseUnowned(i) \/ CloseOutdone(i)
    BY <1>1, <2>4, LeaveCalm DEF CloseUnowned, CloseOutdone
  <2>5. CASE EndClose(i)
    <3>1. PICK g : /\ g = IF game[i].st = "ready" /\ game[i].save = NoSave
                          THEN Submit(game[i], i, "released") ELSE game[i]
                   /\ Leave(i, g, "closed")
      BY <2>5 DEF EndClose
    <3>2. g \in AGame
      BY <1>1, <3>1, SubmitFields
    <3> QED
      BY <3>1, <3>2, LeaveCalm
  <2> QED
    BY <1>2, <2>1, <2>2, <2>3, <2>4, <2>5 DEF Player
<1>3. CASE Poll(i)
  <2>1. CASE PollLoad(i) \/ PollStatus(i) \/ PollQuarantine(i) \/ Flush(i)
    BY <2>1, PollLoadSteps, PollStatusSteps, PollQuarantineSteps, FlushSteps, MethodCalm
  <2>2. CASE PollSave(i)
    BY <2>2, PollSaveKeeps, CalmAfter DEF Act
  <2> QED
    BY <1>3, <2>1, <2>2 DEF Poll
<1>4. CASE Writer(i)
  <2>1. CASE Publish(i)
    <3>1. PICK s, t : \/ Set(i, [game[i] EXCEPT !.save = s])
                      \/ Set(i, [game[i] EXCEPT !.save.step = t])
      BY <2>1 DEF Publish
    <3>2. PICK r : r = [game[i].save EXCEPT !.step = t]
      OBVIOUS
    <3>3. [game[i] EXCEPT !.save.step = t] = [game[i] EXCEPT !.save = r]
      BY <1>1, <3>2 DEF AGame
    <3>4. Set(i, [game[i] EXCEPT !.save = s]) \/ Set(i, [game[i] EXCEPT !.save = r])
      BY <3>1, <3>3
    <3> QED
      BY <3>4, SaveCalm
  <2>2. CASE Write(i)
    BY <2>2, AnsweredCalm DEF Write
  <2>3. CASE RunQuarantine(i)
    BY <1>1, <2>3 DEF RunQuarantine, Calm
  <2>4. CASE RetryHeld(i) \/ Replay(i)
    BY <2>4, UnchangedCalm DEF RetryHeld, Replay
  <2> QED
    BY <1>4, <2>1, <2>2, <2>3, <2>4 DEF Writer
<1>5. CASE Reader(i)
  <2>1. CASE ReadRow(i)
    <3>1. PICK h : h = [game[i] EXCEPT !.load = "done", !.got = row]
      OBVIOUS
    <3>2. h.quarantine = game[i].quarantine /\ h.old = game[i].old /\ h.got = row
      BY <1>1, <3>1 DEF AGame
    <3>3. row # None => row.form = "good"
      BY DEF EpochsRise
    <3>4. Set(i, h)
      BY <2>1, <3>1 DEF ReadRow
    <3>5. h.quarantine = "none" /\ ~h.old /\ (h.got # None => h.got.form = "good")
      BY <1>1, <3>2, <3>3 DEF Calm
    <3> QED
      BY <3>4, <3>5, CalmAfter
  <2>2. CASE Refresh(i)
    BY <2>2, UnchangedCalm DEF Refresh
  <2> QED
    BY <1>5, <2>1, <2>2 DEF Reader
<1>6. CASE Fails(i)
  <2>1. CASE ReadFails(i)
    BY <2>1, ReadFailsSteps, MethodCalm
  <2>2. CASE Busy(i)
    <3>1. PICK how : Answered(i, how)
      BY <2>2 DEF Busy
    <3> QED
      BY <3>1, AnsweredCalm
  <2>3. CASE Crash(i)
    <3>1. PICK n : n = game[i].built
      OBVIOUS
    <3>2. PICK h : h = [Gone("crashed") EXCEPT !.built = n]
      OBVIOUS
    <3>3. h.quarantine = "none" /\ ~h.old /\ h.got = None
      BY <3>2 DEF Gone, NewGame
    <3>4. Set(i, h)
      BY <2>3, <3>1, <3>2 DEF Crash
    <3> QED
      BY <3>3, <3>4, CalmAfter
  <2> QED
    BY <1>6, <2>1, <2>2, <2>3 DEF Fails
<1> QED
  BY <1>2, <1>3, <1>4, <1>5, <1>6

\* Where every row can be read, epochs only rise, and each has one owner.
LEMMA EpochsStay ==
  ASSUME OwnerInv, EpochsRise, [Next]_vars
  PROVE  EpochsRise'
<1>1. CASE UNCHANGED vars
  BY <1>1 DEF vars, store, EpochsRise, Calm
<1>2. CASE Next
  <2>1. PICK i \in Games : Player(i) \/ Poll(i) \/ Writer(i) \/ Reader(i) \/ Fails(i)
    BY <1>2 DEF Next
  <2>2. \A j \in Games : Calm(j)'
    BY <2>1, NextCalm
  <2>3. UNCHANGED store \/ \E op \in InPlay : Committed(op)
    BY <2>1, RowMoves DEF EpochsRise, Calm
  <2>4. CASE UNCHANGED store
    BY <2>2, <2>4 DEF EpochsRise, store
  <2>5. CASE \E op \in InPlay : Committed(op)
    <3>1. PICK op \in InPlay : Committed(op)
      BY <2>5
    <3>2. PICK who, epoch : who = op.val.who /\ epoch = op.val.epoch
      OBVIOUS
    <3>3. /\ row' = op.val /\ row'.epoch = epoch /\ row'.form = "good" /\ row' # None
          /\ granted' = granted \cup {<<who, epoch>>} /\ OwnerMatches(op)
          /\ who \in Games /\ epoch \in Nat
      BY <3>1, <3>2, InvParts, Orders, NoneAssumption
         DEF Committed, OpsInv, OperationsKnow, Operation, Saved
    <3>4. granted \subseteq Games \X Nat
      BY DEF OwnerInv, TypeOK
    <3>5. CASE row = None
      <4>1. epoch = 0 /\ granted' = {<<who, epoch>>}
        BY <3>2, <3>3, <3>5 DEF OwnerMatches, EpochsRise
      <4> QED
        BY <2>2, <3>3, <4>1 DEF EpochsRise
    <3>6. CASE row # None /\ row.who = who /\ row.epoch = epoch
      <4>1. <<who, epoch>> \in granted
        BY <3>3, <3>6, InvParts, SlotAssumption DEF OpsInv, RowIsGranted, Owned
      <4>2. granted' = granted
        BY <3>3, <4>1
      <4> QED
        BY <2>2, <3>3, <3>6, <4>2 DEF EpochsRise
    <3>7. CASE row # None /\ epoch = row.epoch + 1
      <4>1. row.epoch \in Nat
        BY <3>7, Orders, InvParts DEF Saved
      <4>2. \A g \in granted : g[2] \in Nat /\ g[2] < epoch
        BY <3>4, <3>7, <4>1 DEF EpochsRise
      <4>3. \A g \in granted' : g[2] <= epoch
        BY <3>3, <4>2
      <4>4. \A g, h \in granted' : g[2] = h[2] => g = h
        BY <3>3, <4>2 DEF EpochsRise
      <4> QED
        BY <2>2, <3>3, <4>3, <4>4 DEF EpochsRise
    <3> QED
      BY <3>2, <3>3, <3>5, <3>6, <3>7 DEF OwnerMatches
  <2> QED
    BY <2>3, <2>4, <2>5
<1> QED
  BY <1>1, <1>2

\* A window whose game an acknowledgement opened is the only one that ever owns
\* the row at its epoch: claims swap the whole row, and _poll_slot_save proves
\* one by its own value only.
THEOREM OneOwnerAlways ==
  ASSUME SlotBounds, SlotsReadable
  PROVE  Spec => []OneOwner
<1>1. Init => EpochsRise
  BY DEF Init, EpochsRise, Calm, NewGame, SlotsReadable
<1>2. OwnerInv /\ EpochsRise /\ [Next]_vars => EpochsRise'
  BY EpochsStay
<1>3. OwnerInv /\ EpochsRise => OneOwner
  <2> SUFFICES ASSUME OwnerInv, EpochsRise, NEW i \in Games, game[i].proved, Alive(i)
               PROVE  {g[1] : g \in {h \in granted : h[2] = game[i].epoch}} = {i}
    BY DEF OneOwner
  <2>1. <<i, game[i].epoch>> \in granted
    BY Typed DEF Fits
  <2>2. \A h \in granted : h[2] = game[i].epoch => h = <<i, game[i].epoch>>
    BY <2>1 DEF EpochsRise
  <2>3. {h \in granted : h[2] = game[i].epoch} = {<<i, game[i].epoch>>}
    BY <2>1, <2>2
  <2>4. \A e, o : {g[1] : g \in {<<o, e>>}} = {o}
    <3> SUFFICES ASSUME NEW e, NEW o
                 PROVE  {g[1] : g \in {<<o, e>>}} = {o}
      OBVIOUS
    <3>1. <<o, e>>[1] = o
      OBVIOUS
    <3>2. \A x \in {g[1] : g \in {<<o, e>>}} : x = o
      BY <3>1
    <3>3. o \in {g[1] : g \in {<<o, e>>}}
      BY <3>1
    <3> QED
      BY <3>2, <3>3
  <2>5. {g[1] : g \in {<<i, game[i].epoch>>}} = {i}
    BY <2>4
  <2> QED
    BY <2>3, <2>5, Zenon
<1> QED
  BY <1>1, <1>2, <1>3, SlotInductive, PTL DEF Spec
-----------------------------------------------------------------------------
(***************************************************************************)
(* A release arrives.                                                      *)
(***************************************************************************)
LEMMA SortedHead ==
  ASSUME NEW s \in Seq(Operation), Sorted(s), s # <<>>
  PROVE  /\ Head(s) \in Ops(s) /\ Head(s) \in Operation
         /\ \A op \in Ops(s) : op.rev <= Head(s).rev
<1>1. /\ Len(s) \in Nat \ {0} /\ DOMAIN s = 1 .. Len(s) /\ Head(s) = s[1]
      /\ \A k \in 1 .. Len(s) : s[k] \in Operation
  BY LenProperties, ElementOfSeq, EmptySeq
<1>2. Head(s) \in Ops(s) /\ Head(s) \in Operation
  BY <1>1 DEF Ops
<1>3. ASSUME NEW op \in Ops(s)
      PROVE  op.rev <= Head(s).rev
  <2>1. PICK k \in 1 .. Len(s) : op = s[k]
    BY <1>1 DEF Ops
  <2>2. CASE k = 1
    BY <1>1, <1>2, <2>1, <2>2 DEF Operation
  <2>3. CASE k # 1
    <3>1. 1 \in DOMAIN s /\ k \in DOMAIN s /\ 1 < k
      BY <1>1, <2>3
    <3> QED
      BY <1>1, <2>1, <3>1 DEF Sorted
  <2> QED
    BY <2>2, <2>3
<1> QED
  BY <1>2, <1>3

LEMMA SortedTail ==
  ASSUME NEW s \in Seq(Operation), Sorted(s), s # <<>>
  PROVE  Sorted(Tail(s)) /\ \A op \in Ops(s) : op = Head(s) \/ op \in Ops(Tail(s))
<1>1. /\ Len(s) \in Nat \ {0} /\ DOMAIN s = 1 .. Len(s) /\ Head(s) = s[1]
      /\ Tail(s) \in Seq(Operation) /\ Len(Tail(s)) = Len(s) - 1
      /\ \A k \in 1 .. Len(Tail(s)) : Tail(s)[k] = s[k + 1]
  BY LenProperties, EmptySeq, HeadTailProperties
<1>2. DOMAIN Tail(s) = 1 .. (Len(s) - 1)
  BY <1>1, LenProperties
<1>3. Sorted(Tail(s))
  <2> SUFFICES ASSUME NEW k \in DOMAIN Tail(s), NEW l \in DOMAIN Tail(s), k < l
               PROVE  Tail(s)[l].rev <= Tail(s)[k].rev
    BY DEF Sorted
  <2>1. k + 1 \in DOMAIN s /\ l + 1 \in DOMAIN s /\ k + 1 < l + 1
    BY <1>1, <1>2
  <2>2. s[l + 1].rev <= s[k + 1].rev
    BY <2>1 DEF Sorted
  <2> QED
    BY <1>1, <1>2, <2>2
<1>4. ASSUME NEW op \in Ops(s), op # Head(s)
      PROVE  op \in Ops(Tail(s))
  <2>1. PICK k \in 1 .. Len(s) : op = s[k]
    BY <1>1 DEF Ops
  <2>2. k - 1 \in DOMAIN Tail(s) /\ Tail(s)[k - 1] = op
    BY <1>1, <1>2, <1>4, <2>1
  <2> QED
    BY <2>2 DEF Ops
<1> QED
  BY <1>3, <1>4

LEMMA SortedPut ==
  ASSUME NEW s \in Seq(Operation), Sorted(s), NEW x \in Operation,
         s # <<>> => Head(s).rev <= x.rev
  PROVE  Sorted(<<x>> \o s) /\ x \in Ops(<<x>> \o s) /\ Ops(s) \subseteq Ops(<<x>> \o s)
<1>1. <<x>> \in Seq(Operation) /\ Len(<<x>>) = 1 /\ <<x>>[1] = x
  OBVIOUS
<1>2. PICK t : t = <<x>> \o s
  OBVIOUS
<1>3. /\ t \in Seq(Operation) /\ Len(t) = 1 + Len(s)
      /\ \A k \in 1 .. (1 + Len(s)) : t[k] = IF k <= 1 THEN <<x>>[k] ELSE s[k - 1]
  BY <1>1, <1>2, ConcatProperties
<1>4. Len(s) \in Nat /\ DOMAIN s = 1 .. Len(s) /\ DOMAIN t = 1 .. (1 + Len(s))
  BY <1>3, LenProperties
<1>5. t[1] = x /\ \A k \in 1 .. Len(s) : k + 1 \in DOMAIN t /\ t[k + 1] = s[k]
  BY <1>1, <1>3, <1>4
<1>6. \A k \in 1 .. Len(s) : s[k].rev <= x.rev
  <2> SUFFICES ASSUME NEW k \in 1 .. Len(s)
               PROVE  s[k].rev <= x.rev
    OBVIOUS
  <2>1. s # <<>> /\ s[k] \in Ops(s) /\ s[k] \in Operation
    BY <1>4, ElementOfSeq, EmptySeq DEF Ops
  <2>2. s[k].rev <= Head(s).rev /\ Head(s) \in Operation
    BY <2>1, SortedHead
  <2>3. s[k].rev \in Nat /\ Head(s).rev \in Nat /\ x.rev \in Nat
    BY <2>1, <2>2 DEF Operation
  <2> QED
    BY <2>1, <2>2, <2>3
<1>7. Sorted(t)
  <2> SUFFICES ASSUME NEW k \in DOMAIN t, NEW l \in DOMAIN t, k < l
               PROVE  t[l].rev <= t[k].rev
    BY DEF Sorted
  <2>1. l - 1 \in 1 .. Len(s) /\ t[l] = s[l - 1]
    BY <1>3, <1>4
  <2>2. CASE k = 1
    BY <1>5, <1>6, <2>1, <2>2
  <2>3. CASE k # 1
    <3>1. k - 1 \in DOMAIN s /\ l - 1 \in DOMAIN s /\ k - 1 < l - 1 /\ t[k] = s[k - 1]
      BY <1>3, <1>4, <2>1, <2>3
    <3> QED
      BY <2>1, <3>1 DEF Sorted
  <2> QED
    BY <2>2, <2>3
<1>8. x \in Ops(t) /\ Ops(s) \subseteq Ops(t)
  <2>1. 1 \in DOMAIN t
    BY <1>4
  <2> QED
    BY <1>4, <1>5, <2>1 DEF Ops
<1> QED
  BY <1>2, <1>7, <1>8

\* What the transaction leaves of the journal: all of it, or what is behind the
\* operation it was made for.
LEMMA ApplyFile ==
  ASSUME NEW op, Apply(op)
  PROVE  \/ journal' = journal
         \/ /\ journal # <<>> /\ op = Head(journal)
            /\ journal' = IF Outcome(op) = "in_use" THEN Tail(journal) ELSE <<>>
BY DEF Apply, AfterOutcome

LEMMA ApplySorted ==
  ASSUME OwnerInv, Sorted(journal), NEW op, Apply(op)
  PROVE  Sorted(journal)'
<1>1. journal \in Seq(Operation)
  BY DEF OwnerInv, TypeOK
<1>2. PICK file : file = journal'
  OBVIOUS
<1>3. file = journal \/ (journal # <<>> /\ file = Tail(journal)) \/ file = <<>>
  BY <1>2, ApplyFile
<1>4. Sorted(<<>>)
  BY DEF Sorted
<1>5. Sorted(file)
  BY <1>1, <1>3, <1>4, SortedTail
<1> QED
  BY <1>2, <1>5

\* The head of the journal is no newer than the clock.
LEMMA HeadKnown ==
  ASSUME OwnerInv, journal # <<>>
  PROVE  Head(journal) \in InPlay /\ Head(journal).rev <= tick
<1>1. Head(journal) \in InPlay
  BY JournalOps, InPlayIs DEF OwnerInv, TypeOK
<1> QED
  BY <1>1, InvParts DEF OpsInv, OperationsKnow

LEMMA PutSorted ==
  ASSUME OwnerInv, Sorted(journal), NEW CONSTANT x, x \in Operation,
         journal # <<>> => Head(journal).rev <= x.rev, journal' = <<x>> \o journal
  PROVE  Sorted(journal)' /\ x \in Ops(journal)' /\ Ops(journal) \subseteq Ops(journal)'
<1>1. journal \in Seq(Operation)
  BY DEF OwnerInv, TypeOK
<1>2. PICK file : file = journal'
  OBVIOUS
<1>3. Sorted(file) /\ x \in Ops(file) /\ Ops(journal) \subseteq Ops(file)
  BY <1>1, <1>2, SortedPut
<1> QED
  BY <1>2, <1>3

\* What a step does to the journal: nothing, a transaction that may remove its
\* own operation, or an operation put before the others that is no older.
FileMoves ==
  \/ UNCHANGED <<store, journal>>
  \/ \E op \in InPlay : Apply(op) /\ confirmed' = confirmed /\ InPlay' \subseteq InPlay
  \/ /\ UNCHANGED store
     /\ \E op \in Operation : /\ journal' = <<op>> \o journal
                              /\ journal # <<>> => Head(journal).rev <= op.rev

LEMMA FileKeeps ==
  ASSUME OwnerInv, Sorted(journal), FileMoves
  PROVE  Sorted(journal)'
<1>1. CASE UNCHANGED <<store, journal>>
  BY <1>1 DEF Sorted
<1>2. CASE \E op \in InPlay : Apply(op) /\ confirmed' = confirmed /\ InPlay' \subseteq InPlay
  BY <1>2, ApplySorted
<1>3. CASE \E op \in Operation : /\ journal' = <<op>> \o journal
                                 /\ journal # <<>> => Head(journal).rev <= op.rev
  BY <1>3, PutSorted
<1> QED
  BY <1>1, <1>2, <1>3 DEF FileMoves

LEMMA PutIsNewer ==
  ASSUME OwnerInv, NEW op \in Operation, ~Overtaken(op), journal # <<>>
  PROVE  Head(journal).rev <= op.rev
<1>1. Head(journal).rev \in Nat /\ op.rev \in Nat
  BY HeadKnown, InvParts, Orders DEF Operation
<1> QED
  BY <1>1 DEF Overtaken

LEMMA NextFile ==
  ASSUME OwnerInv, EpochsRise, NEW i \in Games,
         Player(i) \/ Poll(i) \/ Writer(i) \/ Reader(i) \/ Fails(i)
  PROVE  FileMoves
<1>1. TypeOK /\ OpsInv /\ WorkFits(i) /\ Calm(i) /\ tick \in Nat
  BY InvParts DEF WorksFit, EpochsRise, TypeOK
<1>2. CASE Player(i)
  <2>1. CASE Close(i)
    <3>1. PICK op \in Operation : Closes(i, op)
      BY <2>1, CloseKeeps
    <3>2. journal # <<>> => Head(journal).rev <= tick /\ Head(journal).rev \in Nat
      BY HeadKnown, Orders, <1>1
    <3>3. UNCHANGED store /\ journal' = <<op>> \o journal /\ op.rev = tick + 1
      BY <3>1 DEF Closes
    <3>4. journal # <<>> => Head(journal).rev <= op.rev
      BY <1>1, <3>2, <3>3
    <3> QED
      BY <3>3, <3>4 DEF FileMoves
  <2>2. CASE ~Close(i)
    BY <1>2, <2>2 DEF Player, Move, Restart, RetryLoad, ConfirmNewGame, TakeOver, CloseOutdone,
                      CloseUnowned, CloseSlowly, EndClose, backend, writing, window, FileMoves
  <2> QED
    BY <2>1, <2>2
<1>3. CASE Poll(i) \/ Reader(i) \/ Fails(i)
  BY <1>3 DEF Poll, PollLoad, PollSave, PollStatus, PollQuarantine, Flush, Reader, ReadRow,
              Refresh, Fails, ReadFails, Busy, Crash, backend, writing, FileMoves
<1>4. CASE Publish(i)
  <2>1. PICK op : op = game[i].save.op
    OBVIOUS
  <2>2. CASE UNCHANGED journal
    BY <1>4, <2>2 DEF Publish, FileMoves
  <2>3. CASE Put(i, op, tick + 1, TRUE)
    <3>1. PICK new : new = [op EXCEPT !.rev = tick + 1]
      OBVIOUS
    <3>2. op \in Operation
      BY <1>1, <1>4, <2>1, InPlayIs, InPlayTyped
         DEF Publish, Sent, Waiting, OpsInv, NewestSent, SentIsNewest
    <3>3. new \in Operation /\ new.rev = tick + 1
      BY <1>1, <3>1, <3>2 DEF Operation
    <3>4. journal' = <<new>> \o journal /\ UNCHANGED store
      BY <1>4, <2>3, <3>1 DEF Put, Publish
    <3>5. journal # <<>> => Head(journal).rev <= tick /\ Head(journal).rev \in Nat
      BY HeadKnown, Orders, <1>1
    <3>6. journal # <<>> => Head(journal).rev <= new.rev
      BY <1>1, <3>3, <3>5
    <3> QED
      BY <3>3, <3>4, <3>6 DEF FileMoves
  <2> QED
    BY <1>4, <2>1, <2>2, <2>3 DEF Publish
<1>5. CASE RetryHeld(i)
  <2>1. PICK op : op = held[i]
    OBVIOUS
  <2>2. op \in Operation
    BY <1>1, <1>5, <2>1 DEF RetryHeld, TypeOK
  <2>3. CASE Overtaken(op)
    BY <1>5, <2>1, <2>3 DEF RetryHeld, FileMoves
  <2>4. CASE ~Overtaken(op)
    <3>1. Put(i, op, op.rev, FALSE) /\ UNCHANGED store
      BY <1>5, <2>1, <2>4 DEF RetryHeld
    <3>2. [op EXCEPT !.rev = op.rev] = op
      BY <2>2 DEF Operation
    <3>3. journal' = <<op>> \o journal
      BY <3>1, <3>2 DEF Put
    <3>4. journal # <<>> => Head(journal).rev <= op.rev
      BY <2>2, <2>4, PutIsNewer
    <3> QED
      BY <2>2, <3>1, <3>3, <3>4 DEF FileMoves
  <2> QED
    BY <2>3, <2>4
<1>6. CASE Write(i)
  <2>1. PICK op : op = work[i].op
    OBVIOUS
  <2>2. op \in InPlay
    BY <1>1, <1>6, <2>1, InPlayIs DEF Write, WorkFits, Waiting
  <2>3. Apply(op) /\ confirmed' = confirmed
    BY <1>6, <2>1 DEF Write
  <2> QED
    BY <1>6, <2>2, <2>3, WriteKeeps DEF FileMoves
<1>7. CASE Replay(i)
  <2>1. PICK op : op = Head(journal)
    OBVIOUS
  <2>2. op \in InPlay
    BY <1>7, <2>1, HeadKnown DEF Replay
  <2>3. Apply(op) /\ confirmed' = confirmed
    BY <1>7, <2>1 DEF Replay
  <2> QED
    BY <1>7, <2>2, <2>3, ReplayKeeps DEF FileMoves
<1>8. ~RunQuarantine(i)
  BY <1>1 DEF Calm, RunQuarantine
<1> QED
  BY <1>2, <1>3, <1>4, <1>5, <1>6, <1>7, <1>8 DEF Writer

-----------------------------------------------------------------------------
\* What a step of a window does to its own game, and to what it has in play: it
\* is gone, a method runs, another thread or a read works for it, or it closes.
Goes(i) ==
  /\ game'[i].st \in {"closed", "crashed"}
  /\ \A op \in InPlay' : op \in InPlay \/ op.val.who = i

Plays(i) ==
  /\ Alive(i) /\ UNCHANGED store /\ Turns(i, game[i], game'[i])
  /\ game'[i].got \in {None, game[i].got}
  /\ game'[i].proved => game'[i].st = "ready"
  /\ \A op \in InPlay' : \/ op \in InPlay
                         \/ op.val.who = i /\ (Alive(i)' => op.val.epoch = game'[i].epoch)

Restamped(i, op) ==
  /\ Sent(i) /\ ~Overtaken(game[i].save.op) /\ op.val = game[i].save.op.val
  /\ UNCHANGED store

Waits(i) ==
  /\ game'[i].st = game[i].st /\ game'[i].epoch = game[i].epoch
  /\ game'[i].srev = game[i].srev /\ game'[i].proved = game[i].proved
  /\ Sent(i)' => SentBefore(i)
  /\ game'[i].got = game[i].got \/ (game'[i].got = row /\ UNCHANGED store)
  /\ \A op \in InPlay' : op \in InPlay \/ Restamped(i, op)

GameMoves(i) ==
  /\ \A j \in Games : j # i => game'[j] = game[j]
  /\ Goes(i) \/ Plays(i) \/ Waits(i) \/ \E op \in Operation : Closes(i, op)

LEMMA OthersPlay ==
  ASSUME OwnerInv, NEW i \in Games, NEW CONSTANT h, Set(i, h)
  PROVE  game'[i] = h /\ \A j \in Games : j # i => game'[j] = game[j]
BY DEF OwnerInv, TypeOK, Set

\* A step that only changes the fields of a window takes what it sends into play.
LEMMA WindowPlay ==
  ASSUME OwnerInv, OwnerInv', NEW i \in Games, NEW CONSTANT h, Set(i, h),
         UNCHANGED <<journal, work, held>>, NEW op \in InPlay'
  PROVE  \/ op \in InPlay
         \/ /\ Sent(i)' /\ op = game'[i].save.op /\ op.val.who = i /\ op # None
            /\ Alive(i)' => op.val.epoch = game'[i].epoch
<1>1. \A j \in Games : j # i => game'[j] = game[j]
  BY OthersPlay
<1>2. CASE op \in Ops(journal)'
  BY <1>2, InPlayIs
<1>3. CASE \E j \in Games : op \in Waiting(j)' \ {None}
  <2>1. PICK j \in Games : op \in Waiting(j)' \ {None}
    BY <1>3
  <2>2. CASE op \in Waiting(j)
    BY <2>1, <2>2, InPlayIs
  <2>3. CASE op \notin Waiting(j)
    <3>1. j = i
      BY <1>1, <2>1, <2>3 DEF Waiting, Sent
    <3>2. Sent(i)' /\ op = game'[i].save.op
      BY <2>1, <2>3, <3>1 DEF Waiting
    <3>3. op.val.who = i
      BY <3>2, InvParts DEF OpsInv, NewestSent, SentIsNewest
    <3>4. Alive(i)' => op.val.epoch = game'[i].epoch
      <4>1. Alive(i)' => Fits(i, game[i])'
        BY InvParts DEF GamesFit
      <4>2. game'[i].save # NoSave
        BY <3>2 DEF Sent, NoSave
      <4> QED
        BY <3>2, <4>1, <4>2 DEF Fits
    <3> QED
      BY <2>1, <3>2, <3>3, <3>4
  <2> QED
    BY <2>2, <2>3
<1> QED
  BY <1>2, <1>3 DEF InPlay

LEMMA SetPlays ==
  ASSUME OwnerInv, OwnerInv', NEW i \in Games, NEW CONSTANT h, Set(i, h), Alive(i),
         Spares(game[i], h), Turns(i, game[i], h), h.proved => h.st = "ready",
         UNCHANGED writing
  PROVE  GameMoves(i)
<1>1. game'[i] = h /\ \A j \in Games : j # i => game'[j] = game[j]
  BY OthersPlay
<1>2. UNCHANGED <<journal, work, held>> /\ UNCHANGED store
  BY DEF writing
<1>3. \A op \in InPlay' : \/ op \in InPlay
                          \/ op.val.who = i /\ (Alive(i)' => op.val.epoch = game'[i].epoch)
  BY <1>2, WindowPlay
<1>4. Turns(i, game[i], game'[i]) /\ game'[i].got \in {None, game[i].got}
      /\ (game'[i].proved => game'[i].st = "ready")
  BY <1>1 DEF Spares
<1>5. Plays(i)
  BY <1>2, <1>3, <1>4 DEF Plays
<1> QED
  BY <1>1, <1>5 DEF GameMoves

LEMMA MethodMoves ==
  ASSUME OwnerInv, OwnerInv', EpochsRise, NEW i \in Games, Method(i), UNCHANGED writing
  PROVE  GameMoves(i)
<1>1. PICK h \in AGame : /\ Act(i, h) /\ Steps(i, game[i], h)
                         /\ Calm(i) => Spares(game[i], h) /\ Turns(i, game[i], h)
  BY DEF Method
<1>2. Set(i, h) /\ Spares(game[i], h) /\ Turns(i, game[i], h) /\ Alive(i)
  BY <1>1 DEF Act, EpochsRise, Method
<1>3. h.proved => h.st = "ready"
  BY <1>1 DEF Steps, Fits
<1> QED
  BY <1>2, <1>3, SetPlays

\* The fields of a window that waits for a thread.
LEMMA SaveWaits ==
  ASSUME OwnerInv, NEW i \in Games, NEW CONSTANT s, s.step # "sent",
         Set(i, [game[i] EXCEPT !.save = s]),
         \A op \in InPlay' : op \in InPlay \/ Restamped(i, op)
  PROVE  GameMoves(i)
<1>1. PICK h : h = [game[i] EXCEPT !.save = s]
  OBVIOUS
<1>2. game'[i] = h /\ \A j \in Games : j # i => game'[j] = game[j]
  BY <1>1, OthersPlay
<1>3. /\ h.st = game[i].st /\ h.epoch = game[i].epoch /\ h.srev = game[i].srev
      /\ h.proved = game[i].proved /\ h.got = game[i].got /\ h.save = s
  BY <1>1 DEF OwnerInv, TypeOK, AGame
<1>4. ~Sent(i)'
  BY <1>2, <1>3 DEF Sent
<1>5. Waits(i)
  BY <1>2, <1>3, <1>4 DEF Waits
<1> QED
  BY <1>2, <1>5 DEF GameMoves

LEMMA StillWaits ==
  ASSUME NEW i \in Games, game' = game, InPlay' \subseteq InPlay
  PROVE  GameMoves(i)
BY DEF GameMoves, Waits, Sent, SentBefore

LEMMA AnsweredWaits ==
  ASSUME OwnerInv, NEW i \in Games, NEW CONSTANT how, how # "sent", Answered(i, how),
         InPlay' \subseteq InPlay
  PROVE  GameMoves(i)
<1>1. CASE Set(i, [game[i] EXCEPT !.save.step = how])
  <2>1. PICK s : s = [game[i].save EXCEPT !.step = how]
    OBVIOUS
  <2>2. [game[i] EXCEPT !.save.step = how] = [game[i] EXCEPT !.save = s]
    BY <2>1 DEF OwnerInv, TypeOK, AGame
  <2>3. game[i].save \in Save
    BY DEF OwnerInv, TypeOK, AGame
  <2>4. s.step = how
    BY <2>1, <2>3 DEF Save
  <2>5. Set(i, [game[i] EXCEPT !.save = s])
    BY <1>1, <2>2
  <2> QED
    BY <2>4, <2>5, SaveWaits
<1>2. CASE game' = game
  BY <1>2, StillWaits
<1> QED
  BY <1>1, <1>2 DEF Answered

LEMMA PublishMoves ==
  ASSUME OwnerInv, NEW i \in Games, Publish(i)
  PROVE  GameMoves(i)
<1>1. PICK op : op = game[i].save.op
  OBVIOUS
<1>2. \A new \in InPlay' : new \in InPlay \/ Restamped(i, new)
  BY PublishKeeps DEF Publish, Restamped
<1>3. ASSUME NEW CONSTANT how, how # "sent", Set(i, [game[i] EXCEPT !.save.step = how])
      PROVE  GameMoves(i)
  <2>1. PICK s : s = [game[i].save EXCEPT !.step = how]
    OBVIOUS
  <2>2. [game[i] EXCEPT !.save.step = how] = [game[i] EXCEPT !.save = s]
    BY <2>1 DEF OwnerInv, TypeOK, AGame
  <2>3. game[i].save \in Save
    BY DEF OwnerInv, TypeOK, AGame
  <2>4. s.step = how
    BY <2>1, <2>3 DEF Save
  <2>5. Set(i, [game[i] EXCEPT !.save = s])
    BY <1>3, <2>2
  <2> QED
    BY <1>2, <1>3, <2>4, <2>5, SaveWaits
<1>4. ASSUME Set(i, [game[i] EXCEPT !.save = [step |-> "taken", op |-> work'[i].op]])
      PROVE  GameMoves(i)
  <2>1. PICK s : s = [step |-> "taken", op |-> work'[i].op]
    OBVIOUS
  <2>2. s.step # "sent" /\ Set(i, [game[i] EXCEPT !.save = s])
    BY <1>4, <2>1
  <2> QED
    BY <1>2, <2>2, SaveWaits
<1>5. \/ Set(i, [game[i] EXCEPT !.save.step = "superseded"])
      \/ Set(i, [game[i] EXCEPT !.save.step = "taken"])
      \/ Set(i, [game[i] EXCEPT !.save = [step |-> "taken", op |-> work'[i].op]])
  BY DEF Publish
<1>6. "superseded" # "sent" /\ "taken" # "sent"
  OBVIOUS
<1> QED
  BY <1>3, <1>4, <1>5, <1>6

LEMMA ReadMoves ==
  ASSUME OwnerInv, OwnerInv', NEW i \in Games, ReadRow(i)
  PROVE  GameMoves(i)
<1>1. PICK h : h = [game[i] EXCEPT !.load = "done", !.got = row]
  OBVIOUS
<1>2. Set(i, h) /\ UNCHANGED <<journal, work, held>> /\ UNCHANGED store
  BY <1>1 DEF ReadRow, backend, writing
<1>3. game'[i] = h /\ \A j \in Games : j # i => game'[j] = game[j]
  BY <1>2, OthersPlay
<1>4. /\ h.st = game[i].st /\ h.epoch = game[i].epoch /\ h.srev = game[i].srev
      /\ h.proved = game[i].proved /\ h.got = row /\ h.save = game[i].save
  BY <1>1 DEF OwnerInv, TypeOK, AGame
<1>5. Sent(i)' => SentBefore(i)
  BY <1>3, <1>4 DEF Sent, SentBefore
<1>6. ASSUME NEW op \in InPlay'
      PROVE  op \in InPlay
  <2>1. op \in InPlay \/ (Sent(i)' /\ op = game'[i].save.op /\ op # None)
    BY <1>2, WindowPlay
  <2>2. Sent(i)' /\ op = game'[i].save.op => op \in Waiting(i)
    BY <1>5 DEF SentBefore, Waiting
  <2> QED
    BY <2>1, <2>2, InPlayIs
<1>7. Waits(i)
  BY <1>2, <1>3, <1>4, <1>5, <1>6 DEF Waits
<1> QED
  BY <1>3, <1>7 DEF GameMoves

LEMMA GoneMoves ==
  ASSUME OwnerInv, NEW i \in Games, NEW CONSTANT h, Set(i, h),
         game'[i].st \in {"closed", "crashed"},
         \A op \in InPlay' : op \in InPlay \/ op.val.who = i
  PROVE  GameMoves(i)
BY OthersPlay DEF GameMoves, Goes

LEMMA NextMoves ==
  ASSUME OwnerInv, OwnerInv', EpochsRise, NEW i \in Games,
         Player(i) \/ Poll(i) \/ Writer(i) \/ Reader(i) \/ Fails(i)
  PROVE  GameMoves(i)
<1>1. TypeOK /\ game[i] \in AGame /\ Calm(i)
  BY Typed DEF EpochsRise
<1>2. CASE Player(i)
  <2>1. CASE Move(i) \/ Restart(i) \/ RetryLoad(i) \/ ConfirmNewGame(i) \/ CloseSlowly(i)
    <3>1. UNCHANGED writing
      BY <2>1 DEF Move, Restart, RetryLoad, ConfirmNewGame, CloseSlowly, backend
    <3> QED
      BY <2>1, <3>1, MoveSteps, RestartSteps, RetryLoadSteps, ConfirmNewGameSteps,
         CloseSlowlySteps, MethodMoves
  <2>2. CASE TakeOver(i)
    <3>1. PICK h \in AGame : /\ Act(i, h) /\ Spares(game[i], h) /\ h.epoch = game[i].epoch
                             /\ h.proved => h.st = "ready"
      BY <2>2, TakeOverKeeps
    <3>2. UNCHANGED writing /\ Alive(i) /\ Set(i, h) /\ Turns(i, game[i], h)
      BY <2>2, <3>1 DEF TakeOver, backend, Alive, Act, Turns
    <3> QED
      BY <3>1, <3>2, SetPlays
  <2>3. CASE Close(i)
    <3>1. PICK op \in Operation : Closes(i, op)
      BY <2>3, CloseKeeps
    <3>2. PICK h \in AGame : Set(i, h)
      BY <1>1, <2>3, LeaveFields DEF Close
    <3> QED
      BY <3>1, <3>2, OthersPlay DEF GameMoves
  <2>4. CASE CloseUnowned(i) \/ CloseOutdone(i)
    <3>1. PICK h \in AGame : Set(i, h)
      BY <1>1, <2>4, LeaveFields DEF CloseUnowned, CloseOutdone
    <3> QED
      BY <2>4, <3>1, CloseUnownedKeeps, GoneMoves
  <2>5. CASE EndClose(i)
    <3>1. PICK k : /\ k = IF game[i].st = "ready" /\ game[i].save = NoSave
                          THEN Submit(game[i], i, "released") ELSE game[i]
                   /\ Leave(i, k, "closed")
      BY <2>5 DEF EndClose
    <3>2. k \in AGame
      BY <1>1, <3>1, SubmitFields DEF TypeOK
    <3>3. PICK f \in AGame : Set(i, f)
      BY <3>1, <3>2, LeaveFields
    <3> QED
      BY <2>5, <3>3, EndCloseKeeps, GoneMoves
  <2> QED
    BY <1>2, <2>1, <2>2, <2>3, <2>4, <2>5 DEF Player
<1>3. CASE Poll(i)
  <2>1. CASE PollLoad(i) \/ PollStatus(i) \/ PollQuarantine(i) \/ Flush(i)
    <3>1. UNCHANGED writing
      BY <2>1 DEF PollLoad, PollStatus, PollQuarantine, Flush, backend
    <3> QED
      BY <2>1, <3>1, PollLoadSteps, PollStatusSteps, PollQuarantineSteps, FlushSteps, MethodMoves
  <2>2. CASE PollSave(i)
    <3>1. PICK h \in AGame : /\ Act(i, h) /\ Spares(game[i], h) /\ h.epoch = game[i].epoch
                             /\ h.proved => h.st = "ready"
      BY <2>2, PollSaveKeeps
    <3>2. UNCHANGED writing /\ Alive(i) /\ Set(i, h) /\ Turns(i, game[i], h)
      BY <2>2, <3>1 DEF PollSave, Act, Turns
    <3> QED
      BY <3>1, <3>2, SetPlays
  <2> QED
    BY <1>3, <2>1, <2>2 DEF Poll
<1>4. CASE Writer(i)
  <2>1. CASE Publish(i)
    BY <2>1, PublishMoves
  <2>2. CASE Write(i)
    <3>1. PICK how : how = IF Outcome(work[i].op) = "duplicate" THEN "committed"
                           ELSE Outcome(work[i].op)
      OBVIOUS
    <3>2. Answered(i, how) /\ how # "sent"
      BY <2>2, <3>1 DEF Write, Outcome
    <3> QED
      BY <2>2, <3>2, WriteKeeps, AnsweredWaits
  <2>3. CASE RetryHeld(i) \/ Replay(i)
    <3>1. game' = game
      BY <2>3 DEF RetryHeld, Replay
    <3> QED
      BY <2>3, <3>1, RetryHeldKeeps, ReplayKeeps, StillWaits
  <2>4. ~RunQuarantine(i)
    BY <1>1 DEF Calm, RunQuarantine
  <2> QED
    BY <1>4, <2>1, <2>2, <2>3, <2>4 DEF Writer
<1>5. CASE Reader(i)
  <2>1. CASE Refresh(i)
    <3>1. game' = game
      BY <2>1 DEF Refresh
    <3> QED
      BY <2>1, <3>1, RefreshKeeps, StillWaits
  <2> QED
    BY <1>5, <2>1, ReadMoves DEF Reader
<1>6. CASE Fails(i)
  <2>1. CASE ReadFails(i)
    <3>1. UNCHANGED writing
      BY <2>1 DEF ReadFails, backend
    <3> QED
      BY <2>1, <3>1, ReadFailsSteps, MethodMoves
  <2>2. CASE Busy(i)
    <3>1. PICK how : how \in {"pending", "error"} /\ Answered(i, how)
      BY <2>2 DEF Busy
    <3> QED
      BY <2>2, <3>1, BusyKeeps, AnsweredWaits
  <2>3. CASE Crash(i)
    <3>1. PICK h : h = [Gone("crashed") EXCEPT !.built = game[i].built]
      OBVIOUS
    <3>2. Set(i, h)
      BY <2>3, <3>1 DEF Crash
    <3> QED
      BY <2>3, <3>2, CrashKeeps, GoneMoves
  <2> QED
    BY <1>6, <2>1, <2>2, <2>3 DEF Fails
<1> QED
  BY <1>2, <1>3, <1>4, <1>5, <1>6

-----------------------------------------------------------------------------
\* What a window that runs knows of the epochs.
RowMovesOn == UNCHANGED store \/ \E op \in InPlay : Committed(op)

LEMMA EpochNumbers ==
  ASSUME OwnerInv
  PROVE  /\ row # None => row \in Saved /\ row.epoch \in Nat /\ row.srev \in Nat
         /\ \A op \in InPlay : /\ op \in Operation /\ op.val \in Saved /\ op.rev \in Nat
                               /\ op.val.epoch \in Nat /\ op.val.srev \in Nat
         /\ \A j \in Games : /\ game[j] \in AGame /\ game[j].epoch \in Nat
                             /\ game[j].srev \in Nat
                             /\ game[j].got # None => game[j].got.epoch \in Nat
         /\ high \in Nat /\ tick \in Nat
BY InvParts, Orders DEF TypeOK, Saved, AGame

\* A row that follows another is of its epoch or the next, and of its epoch
\* only by the window that had it.
LEMMA EpochFollows ==
  ASSUME OwnerInv, NEW op \in InPlay, Committed(op), row # None
  PROVE  /\ row' = op.val /\ row' # None
         /\ \/ /\ row.status = "active" /\ row.who = op.val.who
               /\ row.epoch = op.val.epoch /\ row.srev < op.val.srev
            \/ op.val.epoch = row.epoch + 1
<1>1. op.val # None
  BY EpochNumbers, NoneAssumption
<1> QED
  BY <1>1, EpochNumbers DEF Committed, OwnerMatches

LEMMA LeadsKept ==
  ASSUME OwnerInv, RowMovesOn, NEW j \in Games, EpochLeads(j, game[j]),
         NEW CONSTANT h, h.epoch = game[j].epoch, h.got \in {None, game[j].got},
         \A op \in InPlay' : op.val.who = j => op.val.epoch <= h.epoch
  PROVE  EpochLeads(j, h)'
<1>1. PICK e, got : e = game[j].epoch /\ got = h.got
  OBVIOUS
<1>2. /\ \A op \in InPlay : op.val.who = j => op.val.epoch <= e
      /\ row # None /\ row.who = j => row.epoch <= e
      /\ row # None => e <= row.epoch
                       \/ (e = row.epoch + 1 /\ ~(row.who = j /\ row.status = "active"))
      /\ Leads(j, h, got) /\ ReadIsBehind(j, got) /\ (row = None => e = 0)
  BY <1>1 DEF EpochLeads, Leads, ReadIsBehind
<1>3. e \in Nat /\ (got # None => got.epoch \in Nat) /\ (row # None => row.epoch \in Nat)
  BY <1>1, EpochNumbers
<1>4. Leads(j, h, got)'
  BY <1>2 DEF Leads
<1>5. CASE UNCHANGED store
  <2>1. row' = row
    BY <1>5 DEF store
  <2>2. /\ row' # None /\ row'.who = j => row'.epoch <= e
        /\ Leads(j, h, row)' /\ ReadIsBehind(j, got)' /\ (row' = None => e = 0)
    BY <1>1, <1>2, <2>1 DEF Leads, ReadIsBehind
  <2> QED
    BY <1>1, <1>4, <2>2 DEF EpochLeads, Leads, ReadIsBehind
<1>6. CASE \E op \in InPlay : Committed(op)
  <2>1. PICK op \in InPlay : Committed(op)
    BY <1>6
  <2>2. row' = op.val /\ row' # None /\ OwnerMatches(op) /\ op.val.epoch \in Nat
    BY <2>1, EpochNumbers, NoneAssumption DEF Committed
  <2>3. row'.who = j => row'.epoch <= e
    BY <1>2, <2>1, <2>2
  <2>4. Leads(j, h, row)'
    <3>1. CASE row = None
      BY <1>1, <1>2, <1>3, <2>2, <3>1 DEF Leads
    <3>2. CASE row # None
      BY <1>1, <1>2, <1>3, <2>1, <2>2, <3>2, EpochFollows DEF Leads
    <3> QED
      BY <3>1, <3>2
  <2>5. ReadIsBehind(j, got)'
    <3> SUFFICES ASSUME got # None
                 PROVE  /\ row' # None
                        /\ \/ got.epoch < row'.epoch
                           \/ /\ got.epoch = row'.epoch
                              /\ row'.who = j /\ row'.status = "active"
                                   => got.who = j /\ got.status = "active"
      BY DEF ReadIsBehind
    <3>1. /\ row # None
          /\ \/ got.epoch < row.epoch
             \/ /\ got.epoch = row.epoch
                /\ row.who = j /\ row.status = "active"
                     => got.who = j /\ got.status = "active"
      BY <1>2 DEF ReadIsBehind
    <3> QED
      BY <1>3, <2>1, <2>2, <3>1, EpochFollows
  <2> QED
    BY <1>1, <1>4, <2>2, <2>3, <2>4, <2>5 DEF EpochLeads, Leads, ReadIsBehind
<1> QED
  BY <1>5, <1>6 DEF RowMovesOn

\* A method may go on with the epoch that follows from what was read.
LEMMA LeadsTurn ==
  ASSUME OwnerInv, UNCHANGED store, NEW j \in Games, EpochLeads(j, game[j]),
         NEW CONSTANT h, Turns(j, game[j], h), h.got \in {None, game[j].got},
         \A op \in InPlay' : \/ op \in InPlay
                             \/ op.val.who = j /\ op.val.epoch = h.epoch
  PROVE  EpochLeads(j, h)'
<1>1. PICK e, got : e = game[j].epoch /\ got = game[j].got
  OBVIOUS
<1>2. e \in Nat /\ (got # None => got.epoch \in Nat) /\ (row # None => row.epoch \in Nat)
      /\ \A op \in InPlay : op.val.epoch \in Nat
  BY <1>1, EpochNumbers
<1>3. row' = row
  BY DEF store
<1>4. CASE h.epoch = e
  <2>1. \A op \in InPlay' : op.val.who = j => op.val.epoch <= h.epoch
    BY <1>1, <1>2, <1>4 DEF EpochLeads
  <2> QED
    BY <1>1, <1>4, <2>1, LeadsKept DEF RowMovesOn
<1>5. CASE got # None /\ h.got = None /\ h.epoch = NextEpoch(j, got)
  <2>1. h.epoch \in Nat /\ e <= h.epoch
    BY <1>1, <1>2, <1>5 DEF EpochLeads, Leads, NextEpoch
  <2>2. \A op \in InPlay' : op.val.who = j => op.val.epoch <= h.epoch
    BY <1>1, <1>2, <2>1 DEF EpochLeads
  <2>3. row # None /\ row.who = j => row.epoch <= h.epoch
    BY <1>1, <1>2, <2>1 DEF EpochLeads
  <2>4. row # None
    BY <1>1, <1>5 DEF EpochLeads, ReadIsBehind
  <2>5. \/ h.epoch <= row.epoch
        \/ h.epoch = row.epoch + 1 /\ ~(row.who = j /\ row.status = "active")
    BY <1>1, <1>2, <1>5, <2>4 DEF EpochLeads, ReadIsBehind, NextEpoch
  <2> QED
    BY <1>3, <1>5, <2>2, <2>3, <2>4, <2>5 DEF EpochLeads, Leads, ReadIsBehind
<1> QED
  BY <1>1, <1>4, <1>5 DEF Turns

LEMMA LeadsRead ==
  ASSUME OwnerInv, UNCHANGED store, NEW j \in Games, EpochLeads(j, game[j]),
         NEW CONSTANT h, h.epoch = game[j].epoch, h.got = row,
         \A op \in InPlay' : op.val.who = j => op.val.epoch <= h.epoch
  PROVE  EpochLeads(j, h)'
<1>1. row' = row /\ (row # None => row.epoch \in Nat)
  BY EpochNumbers DEF store
<1>2. Leads(j, h, row) /\ (row = None => h.epoch = 0)
      /\ (row # None /\ row.who = j => row.epoch <= h.epoch)
  BY DEF EpochLeads, Leads
<1>3. Leads(j, h, row)'
  BY <1>1, <1>2 DEF Leads
<1>4. Leads(j, h, h.got)' /\ ReadIsBehind(j, h.got)'
  BY <1>1, <1>2 DEF Leads, ReadIsBehind
<1> QED
  BY <1>1, <1>2, <1>3, <1>4 DEF EpochLeads

\* What a step takes into play is the window's own.
LEMMA SentInPlay ==
  ASSUME OwnerInv, NEW i \in Games, Sent(i)
  PROVE  game[i].save.op \in InPlay /\ game[i].save.op.val.who = i
BY InvParts, InPlayIs DEF OpsInv, NewestSent, SentIsNewest, Waiting

LEMMA OthersOps ==
  ASSUME OwnerInv, NEW i \in Games, GameMoves(i), NEW j \in Games, j # i,
         NEW op \in InPlay', op.val.who = j
  PROVE  op \in InPlay
BY SentInPlay DEF GameMoves, Goes, Plays, Waits, Restamped, Closes

LEMMA LeadsStay ==
  ASSUME OwnerInv, RowMovesOn, NEW i \in Games, GameMoves(i), NEW j \in Games, Alive(j)',
         Alive(j) => EpochLeads(j, game[j])
  PROVE  EpochLeads(j, game[j])'
<1>1. PICK h : h = game'[j]
  OBVIOUS
<1> SUFFICES EpochLeads(j, h)'
  BY <1>1 DEF EpochLeads, Leads, ReadIsBehind
<1>2. CASE j # i
  <2>1. game'[j] = game[j]
    BY <1>2 DEF GameMoves
  <2>2. EpochLeads(j, game[j])
    BY <2>1 DEF Alive
  <2>3. \A op \in InPlay' : op.val.who = j => op.val.epoch <= h.epoch
    BY <1>1, <1>2, <2>1, <2>2, OthersOps DEF EpochLeads
  <2> QED
    BY <1>1, <2>1, <2>2, <2>3, LeadsKept
<1>3. CASE j = i /\ Plays(i)
  <2>1. EpochLeads(j, game[j]) /\ UNCHANGED store /\ Turns(j, game[j], h)
        /\ h.got \in {None, game[j].got}
    BY <1>1, <1>3 DEF Plays
  <2>2. \A op \in InPlay' : op \in InPlay \/ (op.val.who = j /\ op.val.epoch = h.epoch)
    BY <1>1, <1>3 DEF Plays
  <2> QED
    BY <2>1, <2>2, LeadsTurn
<1>4. CASE j = i /\ Waits(i)
  <2>1. h.epoch = game[j].epoch /\ (h.got = game[j].got \/ (h.got = row /\ UNCHANGED store))
    BY <1>1, <1>4 DEF Waits
  <2>2. EpochLeads(j, game[j])
    BY <1>4 DEF Waits, Alive
  <2>3. \A op \in InPlay' : op.val.who = j => op.val.epoch <= h.epoch
    BY <1>4, <2>1, <2>2, SentInPlay DEF Waits, Restamped, EpochLeads
  <2> QED
    BY <2>1, <2>2, <2>3, LeadsKept, LeadsRead
<1>5. ~(j = i /\ Goes(i)) /\ ~(j = i /\ \E op \in Operation : Closes(i, op))
  BY DEF Goes, Closes, Alive
<1> QED
  BY <1>2, <1>3, <1>4, <1>5 DEF GameMoves
-----------------------------------------------------------------------------
\* What is still to come of a window that is released.
LEMMA OlderStays ==
  ASSUME OwnerInv, EpochsRise, RowMovesOn, NEW j \in Games, ReleaseLeads(j), ~OlderRow(j),
         game'[j].srev = game[j].srev
  PROVE  ~OlderRow(j)'
<1>1. PICK e, r : e = game[j].epoch /\ r = game[j].srev
  OBVIOUS
<1>2. <<j, e>> \in granted /\ \A op \in InPlay : op.val.who = j => op.val.epoch <= e
  BY <1>1 DEF ReleaseLeads
<1>3. row # None /\ e <= row.epoch /\ row.epoch \in Nat /\ row.srev \in Nat /\ e \in Nat
      /\ r \in Nat
  <2>1. <<j, e>>[2] = e
    OBVIOUS
  <2>2. row # None /\ e <= row.epoch
    BY <1>2, <2>1 DEF EpochsRise
  <2> QED
    BY <1>1, <2>2, EpochNumbers
<1>4. CASE UNCHANGED store
  BY <1>4 DEF store, OlderRow
<1>5. CASE \E op \in InPlay : Committed(op)
  <2>1. PICK op \in InPlay : Committed(op)
    BY <1>5
  <2>2. /\ row' = op.val
        /\ \/ /\ row.status = "active" /\ row.who = op.val.who
              /\ row.epoch = op.val.epoch /\ row.srev < op.val.srev
           \/ op.val.epoch = row.epoch + 1
    BY <1>3, <2>1, EpochFollows
  <2>3. op.val.epoch \in Nat /\ op.val.srev \in Nat
    BY EpochNumbers
  <2>4. CASE op.val.who # j
    BY <2>2, <2>4 DEF OlderRow
  <2>5. CASE op.val.who = j
    <3>1. op.val.epoch <= e
      BY <1>2, <2>5
    <3>2. row.status = "active" /\ row.who = j /\ row.srev < op.val.srev
      BY <1>3, <2>2, <2>3, <2>5, <3>1
    <3>3. ~(row.srev < r)
      BY <1>1, <1>3, <3>2 DEF OlderRow
    <3>4. ~(op.val.srev < r)
      BY <1>3, <2>3, <3>2, <3>3
    <3> QED
      BY <1>1, <2>2, <3>4 DEF OlderRow
  <2> QED
    BY <2>4, <2>5
<1> QED
  BY <1>4, <1>5 DEF RowMovesOn

\* The owner's release is not refused.
LEMMA ReleaseMatches ==
  ASSUME OwnerInv, EpochsRise, NEW j \in Games, ReleaseLeads(j), OlderRow(j),
         NEW op \in InPlay, Releasing(j, op)
  PROVE  OwnerMatches(op) /\ Outcome(op) = "committed"
<1>1. row.epoch = game[j].epoch
  <2>1. <<j, game[j].epoch>> \in granted /\ <<j, game[j].epoch>>[2] = game[j].epoch
    BY DEF ReleaseLeads
  <2>2. game[j].epoch <= row.epoch
    BY <2>1 DEF EpochsRise
  <2>3. row.epoch <= game[j].epoch
    BY DEF ReleaseLeads, OlderRow
  <2> QED
    BY <2>2, <2>3, EpochNumbers DEF OlderRow
<1>2. OwnerMatches(op)
  BY <1>1, EpochNumbers DEF OwnerMatches, OlderRow, Releasing
<1>3. high < op.rev /\ high \in Nat /\ op.rev \in Nat
  BY EpochNumbers DEF Releasing
<1> QED
  BY <1>2, <1>3 DEF Outcome

\* A transaction leaves it in the journal, or makes it needless.
LEMMA ReleaseApplied ==
  ASSUME OwnerInv, EpochsRise, Sorted(journal), NEW j \in Games, ReleaseLeads(j), OlderRow(j),
         NEW R \in Ops(journal), Releasing(j, R), NEW op \in InPlay, Apply(op),
         confirmed' = confirmed
  PROVE  \/ R \in Ops(journal)' /\ high' < R.rev
         \/ ~(row' # None /\ row'.who = j /\ row'.status = "active")
<1>1. journal \in Seq(Operation) /\ R \in InPlay /\ R.rev \in Nat /\ op.rev \in Nat /\ high \in Nat
  BY InPlayIs, EpochNumbers DEF OwnerInv, TypeOK
<1>2. high < R.rev
  BY DEF Releasing
<1>3. journal # <<>> /\ R.rev <= Head(journal).rev /\ Head(journal).rev \in Nat
  <2>1. journal # <<>>
    BY <1>1, JournalOps
  <2> QED
    BY <1>1, <2>1, SortedHead, HeadKnown, EpochNumbers
<1>4. PICK file : file = journal'
  OBVIOUS
<1>5. \/ file = journal
      \/ op = Head(journal) /\ file = IF Outcome(op) = "in_use" THEN Tail(journal) ELSE <<>>
  BY <1>4, ApplyFile
<1>6. CASE Outcome(op) = "committed"
  <2>1. row' = op.val /\ high' = op.rev
    BY <1>6 DEF Apply
  <2>2. CASE op.val.who # j \/ op = R
    BY <2>1, <2>2 DEF Releasing
  <2>3. CASE op.val.who = j /\ op # R
    <3>1. op.rev < R.rev
      BY <2>3 DEF Releasing
    <3>2. op # Head(journal)
      BY <1>1, <1>3, <3>1
    <3>3. file = journal
      BY <1>5, <3>2
    <3> QED
      BY <1>4, <2>1, <3>1, <3>3 DEF Ops
  <2> QED
    BY <2>2, <2>3
<1>7. CASE Outcome(op) = "in_use"
  <2>1. high' = high
    BY <1>7 DEF Apply, store
  <2>2. op # R
    BY <1>1, <1>7, ReleaseMatches
  <2>3. R \in Ops(file)
    <3>1. CASE file = journal
      BY <3>1
    <3>2. CASE op = Head(journal) /\ file = Tail(journal)
      BY <1>1, <1>3, <2>2, <3>2, SortedTail
    <3> QED
      BY <1>5, <1>7, <3>1, <3>2
  <2> QED
    BY <1>2, <1>4, <2>1, <2>3 DEF Ops
<1>8. CASE Outcome(op) \in {"duplicate", "superseded"}
  <2>1. high' = high
    BY <1>8 DEF Apply, store
  <2>2. op.rev <= high
    BY <1>1, <1>8 DEF Outcome
  <2>3. op # Head(journal)
    BY <1>1, <1>2, <1>3, <2>2
  <2>4. file = journal
    BY <1>5, <2>3
  <2> QED
    BY <1>2, <1>4, <2>1, <2>4 DEF Ops
<1> QED
  BY <1>6, <1>7, <1>8 DEF Outcome

\* Nor is a state of its own published over it.
LEMMA NotRestamped ==
  ASSUME OwnerInv, Sorted(journal), NEW j \in Games, NEW R \in Ops(journal), Releasing(j, R),
         NEW op, Restamped(j, op)
  PROVE  FALSE
<1>1. PICK sent : sent = game[j].save.op
  OBVIOUS
<1>2. sent \in InPlay /\ sent.val.who = j /\ sent # R
  BY <1>1, SentInPlay DEF Restamped, Releasing
<1>3. sent.rev < R.rev
  BY <1>2 DEF Releasing
<1>4. journal \in Seq(Operation) /\ R \in InPlay /\ R.rev \in Nat /\ sent.rev \in Nat
  BY <1>2, InPlayIs, EpochNumbers DEF OwnerInv, TypeOK
<1>5. journal # <<>> /\ R.rev <= Head(journal).rev /\ Head(journal).rev \in Nat
  <2>1. journal # <<>>
    BY <1>4, JournalOps
  <2> QED
    BY <1>4, <2>1, SortedHead, HeadKnown, EpochNumbers
<1>6. Head(journal).rev > sent.rev
  BY <1>3, <1>4, <1>5
<1> QED
  BY <1>1, <1>5, <1>6 DEF Restamped, Overtaken

LEMMA GrantedStay ==
  ASSUME RowMovesOn
  PROVE  granted \subseteq granted'
BY DEF RowMovesOn, Committed, store

LEMMA ReleaseWaits ==
  ASSUME OwnerInv, EpochsRise, RowMovesOn, FileMoves, Sorted(journal), NEW j \in Games,
         ReleaseLeads(j), game'[j].epoch = game[j].epoch, game'[j].srev = game[j].srev,
         Sent(j)' => SentBefore(j),
         \A op \in InPlay' : op.val.who = j => op \in InPlay \/ Restamped(j, op)
  PROVE  ReleaseLeads(j)'
<1>1. PICK e, r : e = game[j].epoch /\ r = game[j].srev
  OBVIOUS
<1>2. game'[j].epoch = e /\ game'[j].srev = r
  BY <1>1
<1>3. /\ <<j, e>> \in granted /\ \A op \in InPlay : op.val.who = j => op.val.epoch <= e
      /\ row # None /\ row.who = j => row.epoch <= e
  BY <1>1 DEF ReleaseLeads
<1>4. <<j, e>> \in granted'
  BY <1>3, GrantedStay
<1>5. \A op \in InPlay' : op.val.who = j => op.val.epoch <= e
  BY <1>3, SentInPlay DEF Restamped
<1>6. row' # None /\ row'.who = j => row'.epoch <= e
  BY <1>3 DEF RowMovesOn, Committed, store
<1>7. ~OlderRow(j)' \/ \E op \in Ops(journal)' : Releasing(j, op)'
  <2>1. CASE ~OlderRow(j)
    BY <2>1, OlderStays
  <2>2. CASE OlderRow(j)
    <3>1. PICK R \in Ops(journal) : Releasing(j, R)
      BY <2>2 DEF ReleaseLeads
    <3>2. \A op \in InPlay' : op.val.who = j => op \in InPlay
      BY <3>1, NotRestamped
    <3>3. ASSUME R \in Ops(journal)', high' < R.rev
          PROVE  \E op \in Ops(journal)' : Releasing(j, op)'
      <4>1. \A op \in InPlay' : op.val.who = j => op = R \/ op.rev < R.rev
        BY <3>1, <3>2 DEF Releasing
      <4>2. R.val.who = j /\ R.val.status = "released" /\ R.val.epoch = e /\ R.val.srev = r
        BY <1>1, <3>1 DEF Releasing
      <4>3. Sent(j)' => game'[j].save.op # R
        BY <3>1 DEF Releasing, SentBefore
      <4>4. Releasing(j, R)'
        BY <1>2, <3>3, <4>1, <4>2, <4>3 DEF Releasing
      <4> QED
        BY <3>3, <4>4
    <3>4. high < R.rev
      BY <3>1 DEF Releasing
    <3>5. CASE UNCHANGED <<store, journal>>
      BY <3>1, <3>3, <3>4, <3>5 DEF store, Ops
    <3>6. CASE \E op \in InPlay : /\ Apply(op) /\ confirmed' = confirmed
                                  /\ InPlay' \subseteq InPlay
      BY <2>2, <3>1, <3>3, <3>6, ReleaseApplied DEF OlderRow
    <3>7. CASE /\ UNCHANGED store
               /\ \E op \in Operation : /\ journal' = <<op>> \o journal
                                        /\ journal # <<>> => Head(journal).rev <= op.rev
      <4>1. Ops(journal) \subseteq Ops(journal)'
        BY <3>7, PutSorted
      <4> QED
        BY <3>1, <3>3, <3>4, <3>7, <4>1 DEF store
    <3> QED
      BY <3>5, <3>6, <3>7 DEF FileMoves
  <2> QED
    BY <2>1, <2>2
<1> QED
  BY <1>2, <1>4, <1>5, <1>6, <1>7 DEF ReleaseLeads

\* The release that a window publishes is ahead of all it has in play.
LEMMA ReleaseStarts ==
  ASSUME OwnerInv, Sorted(journal), NEW i \in Games, EpochLeads(i, game[i]),
         NEW CONSTANT op, op \in Operation, Closes(i, op), game[i].proved
  PROVE  ReleaseLeads(i)'
<1>1. PICK e, r : e = game[i].epoch /\ r = game[i].srev
  OBVIOUS
<1>2. /\ game'[i].epoch = e /\ game'[i].srev = r + 1 /\ op.val.who = i
      /\ op.val.status = "released" /\ op.val.epoch = e /\ op.val.srev = r + 1
      /\ op.rev = tick + 1 /\ InPlay' \subseteq InPlay \cup {op} /\ UNCHANGED store
      /\ Sent(i)' => SentBefore(i)
  BY <1>1 DEF Closes
<1>3. /\ row' = row /\ high' = high /\ granted' = granted
  BY <1>2 DEF store
<1>4. <<i, e>> \in granted
  BY <1>1, Typed DEF Closes, Fits
<1>5. /\ e \in Nat /\ high \in Nat /\ tick \in Nat
      /\ \A other \in InPlay : other.rev \in Nat /\ other.rev <= tick
      /\ high <= tick
  BY <1>1, EpochNumbers, InvParts DEF OpsInv, OperationsKnow, RowAgrees
<1>6. \A other \in InPlay' : other.val.who = i => other.val.epoch <= e
  BY <1>1, <1>2, <1>5 DEF EpochLeads
<1>7. row' # None /\ row'.who = i => row'.epoch <= e
  BY <1>1, <1>3 DEF EpochLeads
<1>8. op \in Ops(journal)'
  <2>1. journal' = <<op>> \o journal
    BY DEF Closes
  <2>2. journal # <<>> => Head(journal).rev <= tick /\ Head(journal).rev \in Nat
    BY HeadKnown, EpochNumbers
  <2>3. journal # <<>> => Head(journal).rev <= op.rev
    BY <1>2, <1>5, <2>2
  <2> QED
    BY <2>1, <2>3, PutSorted
<1>9. Releasing(i, op)'
  <2>1. high' < op.rev
    BY <1>2, <1>3, <1>5
  <2>2. \A other \in InPlay' : other.val.who = i => other = op \/ other.rev < op.rev
    BY <1>2, <1>5
  <2>3. Sent(i)' => game'[i].save.op # op
    <3>1. Sent(i)' => game'[i].save.op \in InPlay
      BY <1>2, SentInPlay DEF SentBefore
    <3>2. op \notin InPlay
      BY <1>2, <1>5
    <3> QED
      BY <3>1, <3>2
  <2> QED
    BY <1>2, <2>1, <2>2, <2>3 DEF Releasing
<1> QED
  BY <1>2, <1>3, <1>4, <1>6, <1>7, <1>8, <1>9 DEF ReleaseLeads

LEMMA ReleaseStays ==
  ASSUME OwnerInv, EpochsRise, ReleaseInv, RowMovesOn, FileMoves, NEW i \in Games,
         GameMoves(i), NEW j \in Games, game'[j].st = "released", game'[j].proved
  PROVE  ReleaseLeads(j)'
<1>1. CASE j # i
  <2>1. game'[j] = game[j]
    BY <1>1 DEF GameMoves
  <2>2. ReleaseLeads(j)
    BY <2>1 DEF ReleaseInv
  <2>3. Sent(j)' => SentBefore(j)
    BY <2>1 DEF Sent, SentBefore
  <2>4. \A op \in InPlay' : op.val.who = j => op \in InPlay
    BY <1>1, OthersOps
  <2> QED
    BY <2>1, <2>2, <2>3, <2>4, ReleaseWaits DEF ReleaseInv
<1>2. CASE j = i /\ Waits(i)
  <2>1. ReleaseLeads(j)
    BY <1>2 DEF Waits, ReleaseInv
  <2> QED
    BY <1>2, <2>1, ReleaseWaits DEF Waits, ReleaseInv
<1>3. CASE j = i /\ \E op \in Operation : Closes(i, op)
  <2>1. PICK op \in Operation : Closes(i, op)
    BY <1>3
  <2>2. Alive(i) /\ game[i].proved
    BY <1>3, <2>1 DEF Closes
  <2>3. EpochLeads(i, game[i]) /\ Sorted(journal)
    BY <2>2 DEF ReleaseInv
  <2> QED
    BY <1>3, <2>1, <2>2, <2>3, ReleaseStarts
<1>4. ~(j = i /\ Goes(i)) /\ ~(j = i /\ Plays(i))
  BY DEF Goes, Plays
<1> QED
  BY <1>1, <1>2, <1>3, <1>4 DEF GameMoves

\* The epochs lead, and releases are ahead, in every state.
LEMMA ReleaseKept ==
  ASSUME OwnerInv, EpochsRise, ReleaseInv, [Next]_vars
  PROVE  ReleaseInv'
<1>1. CASE UNCHANGED vars
  BY <1>1 DEF vars, store, ReleaseInv, Sorted, Alive, EpochLeads, Leads, ReadIsBehind,
              ReleaseLeads, OlderRow, Releasing, InPlay, Waiting, Sent, Ops
<1>2. CASE Next
  <2>1. PICK i \in Games : Player(i) \/ Poll(i) \/ Writer(i) \/ Reader(i) \/ Fails(i)
    BY <1>2 DEF Next
  <2>2. OwnerInv'
    BY <2>1, NextHolds
  <2>3. FileMoves /\ GameMoves(i)
    BY <2>1, <2>2, NextFile, NextMoves
  <2>4. RowMovesOn
    BY <2>1, RowMoves DEF RowMovesOn, EpochsRise, Calm
  <2>5. Sorted(journal)'
    BY <2>3, FileKeeps DEF ReleaseInv
  <2>6. ASSUME NEW j \in Games, Alive(j)'
        PROVE  EpochLeads(j, game[j])'
    BY <2>3, <2>4, <2>6, LeadsStay DEF ReleaseInv
  <2>7. ASSUME NEW j \in Games, game'[j].st = "released", game'[j].proved
        PROVE  ReleaseLeads(j)'
    BY <2>3, <2>4, <2>7, ReleaseStays
  <2> QED
    BY <2>5, <2>6, <2>7 DEF ReleaseInv
<1> QED
  BY <1>1, <1>2

LEMMA ReleaseInit ==
  ASSUME SlotBounds, Init
  PROVE  ReleaseInv
<1>1. \A i \in Games : game[i] = NewGame /\ work[i] = NoWork /\ held[i] = None
  BY DEF Init
<1>2. journal = <<>> /\ Sorted(journal) /\ Ops(journal) = {}
  BY DEF Init, Sorted, Ops
<1>3. \A i \in Games : ~Sent(i) /\ Waiting(i) = {None}
  BY <1>1 DEF Sent, Waiting, NewGame, NoSave, NoWork
<1>4. InPlay = {}
  BY <1>2, <1>3 DEF InPlay
<1>5. \A i \in Games : game[i].st = "loading" /\ game[i].epoch = 0 /\ game[i].got = None
  BY <1>1 DEF NewGame
<1>6. row # None => row.who \notin Games /\ row.epoch \in Nat
  BY SlotAssumption DEF Init, SlotBounds, Saved
<1>7. ASSUME NEW i \in Games
      PROVE  EpochLeads(i, game[i])
  <2>1. Leads(i, game[i], row) /\ Leads(i, game[i], game[i].got) /\ ReadIsBehind(i, game[i].got)
    BY <1>5, <1>6 DEF Leads, ReadIsBehind
  <2> QED
    BY <1>4, <1>5, <1>6, <2>1 DEF EpochLeads
<1>8. \A i \in Games : game[i].st # "released"
  BY <1>5
<1> QED
  BY <1>2, <1>7, <1>8 DEF ReleaseInv

\* Once everything is drained, a window that owned the row and published its
\* release with publish_slot_intent owns it by no older state of its own: in the
\* journal of the key nothing comes before the release but what is newer.
THEOREM ReleasesArrive ==
  ASSUME SlotBounds, SlotsReadable
  PROVE  Spec => []ReleaseArrives
<1>1. Init => EpochsRise /\ ReleaseInv
  BY ReleaseInit DEF Init, EpochsRise, Calm, NewGame, SlotsReadable
<1>2. OwnerInv /\ EpochsRise /\ ReleaseInv /\ [Next]_vars => EpochsRise' /\ ReleaseInv'
  BY EpochsStay, ReleaseKept
<1>3. OwnerInv /\ ReleaseInv => ReleaseArrives
  <2> SUFFICES ASSUME OwnerInv, ReleaseInv, Drained, NEW i \in Games,
                      game[i].st = "released", game[i].proved, StillOwns(i)
               PROVE  row.srev >= game[i].srev
    BY DEF ReleaseArrives
  <2>1. Ops(journal) = {}
    BY DEF Drained, Ops
  <2>2. ~OlderRow(i)
    BY <2>1 DEF ReleaseInv, ReleaseLeads
  <2>3. row.srev \in Nat /\ game[i].srev \in Nat
    BY EpochNumbers DEF StillOwns
  <2> QED
    BY <2>2, <2>3 DEF OlderRow, StillOwns
<1> QED
  BY <1>1, <1>2, <1>3, SlotInductive, PTL DEF Spec

=============================================================================
