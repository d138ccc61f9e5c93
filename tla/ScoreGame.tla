------------------------------ MODULE ScoreGame ------------------------------
(***************************************************************************)
(* A game of 2048 and its scores: milestones and final scores of one       *)
(* attempt are submitted one at a time, a newer one waits in the game; the *)
(* save point that a restored game continues from travels the same writer  *)
(* queue behind the score.  The backend is ScoreOutbox.                    *)
(***************************************************************************)
EXTENDS ScoreOutbox

CONSTANTS Kind, MaxScore

VARIABLES
  game,     \* the open game, or None
  slot,     \* the save point in the store, or None
  made,     \* request ids made so far
  sent      \* history: mutations handed to the backend

gameVars == <<game, slot, made, sent>>
playVars == <<outboxVars, gameVars>>
backend == <<tables, spool, orphans, up, memory, job, ghosts, troubles>>

\* AttemptContext, the score of the board and whether it is settled, and what
\* the overlay knows: confirmed is submitted_score, last the payload shown.
NewGame(a) == [att |-> a, rev |-> 0, score |-> 0, settled |-> FALSE, confirmed |-> None,
               st |-> "idle", last |-> None, queued |-> None, hint |-> None, dirty |-> FALSE]

\* A new game makes a new attempt uuid.
Unused == {a \in Attempts : \A m \in sent : m.att # a}

SavePoint(g) == [att |-> g.att, rev |-> g.rev, score |-> g.score,
                 settled |-> g.settled, confirmed |-> g.confirmed]

GameInit == /\ OutboxInit /\ game = None /\ slot = None /\ made = 0 /\ sent = {}

Payload(g, req, rev, score) ==
  [req |-> req, att |-> g.att, hint |-> g.hint, bare |-> FALSE, rev |-> rev,
   score |-> score, kind |-> Kind]

\* _save_autosave_slot: one save at a time, the next when it is done.
SlotTask(g) == [do |-> "slot", point |-> SavePoint(g)]
SlotsQueued == {i \in DOMAIN queue[Player] : queue[Player][i].do = "slot"}
SlotIsQueued == SlotsQueued # {}
SaveSlot(g) == IF SlotIsQueued THEN <<>> ELSE <<SlotTask(g)>>

\* The game becomes g: the tasks "before" are queued, then the save point of a game
\* unless one is on its way, then "after".
ProceedFrom(point, g, before, after) ==
  /\ game' = [g EXCEPT !.dirty = SlotIsQueued]
  /\ queue' = [queue EXCEPT ![Player] = @ \o before \o SaveSlot(point) \o after]
  /\ sent' = sent \cup {task.m : task \in ToSet(before \o after)}
  /\ answer' = None

\* Mostly the save point is that of the game it becomes.
Proceed(g, before, after) == ProceedFrom(g, g, before, after)

\* _submit_result_score: the game waits for the answer of this payload.
Sending(g, m) == [g EXCEPT !.st = "saving", !.last = m]

\* A slip: a score is not submitted while another one is on its way.
SubmitScoreUnlessSaving(g) ==
  IF g.confirmed = g.score \/ g.st \in {"saving", "pending"}
  THEN Proceed(g, <<>>, <<>>) /\ UNCHANGED made
  ELSE /\ made < MaxRequests /\ made' = made + 1
       /\ LET m == Payload(g, made + 1, g.rev + 1, g.score)
          IN Proceed(Sending([g EXCEPT !.rev = @ + 1], m), <<Save(m)>>, <<>>)

\* _submit_score: what waits in the game is replaced by the newer score.
SubmitScore(g) ==
  IF g.confirmed = g.score THEN Proceed(g, <<>>, <<>>) /\ UNCHANGED made
  ELSE /\ made < MaxRequests /\ made' = made + 1
       /\ LET m == Payload(g, made + 1, g.rev + 1, g.score)
              next == [g EXCEPT !.rev = @ + 1]
          IN IF g.st \in {"saving", "pending"}
             THEN /\ game' = [next EXCEPT !.queued = m, !.dirty = SlotIsQueued]
                  /\ queue' = [queue EXCEPT ![Player] = @ \o SaveSlot(next)]
                  /\ UNCHANGED <<answer, sent>>
             ELSE Proceed(Sending(next, m), <<Save(m)>>, <<>>)

\* The same where the save comes first: the save point has the revision before.
SaveThenSubmit(g) ==
  IF g.confirmed = g.score THEN Proceed(g, <<>>, <<>>) /\ UNCHANGED made
  ELSE /\ made < MaxRequests /\ made' = made + 1
       /\ LET m == Payload(g, made + 1, g.rev + 1, g.score)
              next == [g EXCEPT !.rev = @ + 1]
          IN IF g.st \in {"saving", "pending"}
             THEN /\ game' = [next EXCEPT !.queued = m, !.dirty = SlotIsQueued]
                  /\ queue' = [queue EXCEPT ![Player] = @ \o SaveSlot(g)]
                  /\ UNCHANGED <<answer, sent>>
             ELSE ProceedFrom(g, Sending(next, m), <<>>, <<Save(m)>>)

-----------------------------------------------------------------------------
\* A frame looks at the answers of both saves, and saves again, before it moves.
FrameIsReady == /\ game # None /\ answer = None
                /\ game.dirty => SlotIsQueued

\* The board settles at a score: 2048 is reached, or no move is left.
Settle ==
  /\ FrameIsReady /\ ~game.settled
  /\ \E s \in (game.score + 1) .. MaxScore :
       SubmitScore([game EXCEPT !.score = s, !.settled = TRUE])
  /\ UNCHANGED <<backend, slot>>

\* A first move finds that no move is left on the board that was restored or
\* continued.
MoveIsBlocked ==
  /\ FrameIsReady /\ ~game.settled /\ game.score > 0
  /\ SaveThenSubmit([game EXCEPT !.settled = TRUE])
  /\ UNCHANGED <<backend, slot>>

Continue ==
  /\ FrameIsReady /\ game.settled
  /\ Proceed([game EXCEPT !.settled = FALSE], <<>>, <<>>)
  /\ UNCHANGED <<backend, slot, made>>

\* on_score_save_succeeded: the confirmed score is saved with the game, then the
\* score that waited is sent.
Succeeded(score) ==
  LET confirmed == IF game.confirmed = None \/ game.confirmed < score THEN score
                   ELSE game.confirmed
      g == [game EXCEPT !.st = "saved", !.hint = game.att, !.confirmed = confirmed,
                        !.queued = None]
      m == [game.queued EXCEPT !.hint = game.att]
  IN IF game.queued # None /\ game.queued.score # confirmed
     THEN Proceed(Sending(g, m), <<>>, <<Save(m)>>)
     ELSE Proceed(g, <<>>, <<>>)

Failed(st) ==
  /\ game' = [game EXCEPT !.st = st]
  /\ answer' = None /\ UNCHANGED <<queue, sent>>

\* _poll_score_submission, of the payload of this generation.
Poll ==
  /\ game # None /\ answer # None
  /\ \/ /\ game.st # "saving" \/ answer.m # game.last
        /\ answer' = None /\ UNCHANGED <<game, queue, sent>>
     \/ /\ game.st = "saving" /\ answer.m = game.last
        /\ \/ answer.result = "ok" /\ Succeeded(answer.score)
           \/ answer.result # "ok" /\ Failed(answer.result)
  /\ UNCHANGED <<backend, slot, made>>

\* A slip: what is safe in the journal is shown as recorded.
PollStatusEarly ==
  /\ game # None /\ game.st = "pending"
  /\ Status(game.last.req) # None /\ Succeeded(game.last.score)
  /\ UNCHANGED <<backend, slot, made>>

\* _poll_pending_score_status: only while the overlay says it is pending.
PollStatus ==
  /\ game # None /\ game.st = "pending"
  /\ LET status == Status(game.last.req)
     IN /\ status # None
        /\ \/ status.state = "committed" /\ Succeeded(status.score)
           \/ status.state \in {"aside", "refused"} /\ Failed("refused")
  /\ UNCHANGED <<backend, slot, made>>

Refresh ==
  /\ game # None /\ game.st = "pending" /\ RefreshStatus(game.last.req)
  /\ UNCHANGED gameVars

\* The player asks for another try of what failed: the same request and revision.
TryAgain ==
  /\ game # None /\ game.st = "failed"
  /\ LET m == [game.last EXCEPT !.hint = game.hint]
     IN /\ game' = Sending(game, m)
        /\ queue' = [queue EXCEPT ![Player] = Append(@, Save(m))]
        /\ sent' = sent \cup {m}
  /\ answer' = None
  /\ UNCHANGED <<backend, slot, made>>

\* reset: a score that waits is handed over before the game forgets it.
Reset ==
  /\ game # None
  /\ \E a \in Unused \ {game.att} :
       Proceed(NewGame(a),
               IF game.queued = None THEN <<>>
               ELSE <<Save([game.queued EXCEPT !.hint = game.hint])>>, <<>>)
  /\ UNCHANGED <<backend, slot, made>>

-----------------------------------------------------------------------------
\* What changed while a save point was on its way is saved next.
SaveAgain ==
  /\ game # None /\ game.dirty /\ ~SlotIsQueued
  /\ queue' = [queue EXCEPT ![Player] = Append(@, SlotTask(game))]
  /\ game' = [game EXCEPT !.dirty = FALSE]
  /\ UNCHANGED <<backend, answer, slot, made, sent>>

WriteSlot ==
  /\ job[Player] = Idle /\ queue[Player] # <<>> /\ Head(queue[Player]).do = "slot"
  /\ slot' = Head(queue[Player]).point
  /\ queue' = [queue EXCEPT ![Player] = Tail(@)]
  /\ UNCHANGED <<backend, answer, game, made, sent>>

\* before_close publishes the save point itself, newer than any save on its way.
Leave ==
  /\ game # None /\ game' = None
  /\ slot' = SavePoint(game)
  /\ queue' = [queue EXCEPT ![Player] =
       IF SlotIsQueued THEN RemoveAt(@, CHOOSE i \in SlotsQueued : TRUE) ELSE @]
  /\ answer' = None
  /\ UNCHANGED <<backend, made, sent>>

\* A restored game has its identity from the save point; a settled score that is
\* not confirmed is submitted again, as the next revision, after the slot is claimed.
Open ==
  /\ game = None /\ Player \in up
  /\ \/ slot = None /\ \E a \in Unused : Proceed(NewGame(a), <<>>, <<>>) /\ UNCHANGED made
     \/ /\ slot # None
        /\ LET g == [NewGame(slot.att) EXCEPT
                       !.rev = slot.rev, !.score = slot.score,
                       !.settled = slot.settled, !.confirmed = slot.confirmed]
           IN IF g.settled /\ (g.confirmed = None \/ g.confirmed < g.score)
              THEN SaveThenSubmit(g) ELSE Proceed(g, <<>>, <<>>) /\ UNCHANGED made
  /\ UNCHANGED <<backend, slot>>

GameStep == \/ Settle \/ MoveIsBlocked \/ Continue \/ Poll \/ PollStatus \/ Refresh
            \/ TryAgain \/ Reset \/ SaveAgain \/ WriteSlot \/ Leave \/ Open

BackendStep == (Work(Player) \/ Scan(Player) \/ Start(Player)) /\ UNCHANGED gameVars

DieWithGame == Die(Player) /\ game' = None /\ UNCHANGED <<slot, made, sent>>

GameNext == GameStep \/ BackendStep \/ DieWithGame

GameSpec == GameInit /\ [][GameNext]_playVars

-----------------------------------------------------------------------------
\* What is in the hands of the writer, or kept in its memory alone.
SavesQueued == {task.m : task \in {t \in ToSet(queue[Player]) : t.do = "save"}}
AtWriter == IF job[Player].at \in {"idle", "next"} THEN {} ELSE {job[Player].m}
OnItsWay == SavesQueued \cup AtWriter \cup nondur[Player]

InRow(a, score) == rows[a] # None /\ rows[a].score >= score

\* The attempt has two histories.
Forked(a) == \E m \in sent : m.att = a /\ Overtaken(m)

\* A score the board settled at is recorded, kept, on its way or waiting in the
\* game, whatever fails and whatever the player is told meanwhile.
SettledIsKept ==
  game # None /\ game.settled =>
    \/ InRow(game.att, game.score)
    \/ \E m \in sent : /\ m.att = game.att /\ m.score = game.score
                       /\ Kept(m) \/ m \in OnItsWay
    \/ game.queued # None /\ game.queued.score = game.score
    \/ Forked(game.att)

\* What a game, or the save point it left, takes for confirmed is recorded; a
\* settled score shown as saved is.
ConfirmedIsRecorded ==
  /\ game # None /\ game.confirmed # None => InRow(game.att, game.confirmed)
  /\ slot # None /\ slot.confirmed # None => InRow(slot.att, slot.confirmed)
  /\ game # None /\ game.settled /\ game.st = "saved" =>
       InRow(game.att, game.score) \/ Forked(game.att)

\* What README.md says of an attempt: milestones, final scores and repeats of
\* failed saves have one UUID and rising revisions, so that no older record
\* stands in the way of a newer score.
RevisionsRise == \A a \in Attempts : ~Forked(a)

-----------------------------------------------------------------------------
\* Why the three hold, for any attempts, requests, faults and deaths.
Payloads == [req : Requests, att : Attempts, hint : Attempts \cup {None}, bare : {FALSE},
             rev : Nat \ {0}, score : Nat, kind : {Kind}]

GameBounds ==
  /\ Player \in Procs /\ Kind \in Kinds /\ 1 .. MaxRequests \subseteq Requests
  /\ MaxRequests \in Nat /\ MaxScore \in Nat
  /\ None \notin Nat \cup {Garbled} \cup Payloads /\ Garbled \notin Payloads

AGame ==
  [att : Attempts, rev : Nat, score : Nat, settled : BOOLEAN, confirmed : Nat \cup {None},
   st : {"idle", "saving", "saved", "pending", "failed", "refused"},
   last : Payloads \cup {None}, queued : Payloads \cup {None},
   hint : Attempts \cup {None}, dirty : BOOLEAN]
ASavePoint ==
  [att : Attempts, rev : Nat, score : Nat, settled : BOOLEAN, confirmed : Nat \cup {None}]

\* The table has passed the revision of a mutation, and has this score.
PassedBy(m) == rows[m.att] # None /\ rows[m.att].rev >= m.rev
Told(m, score) == score \in Nat /\ PassedBy(m) /\ InRow(m.att, score)

\* The table has a score of an attempt, or has passed a revision of it.
Met(a, score) ==
  InRow(a, score) \/ \E m \in sent : m.att = a /\ m.score = score /\ PassedBy(m)

Safe(m) == PassedBy(m) \/ spool[m.req] = m \/ m \in orphans \cup refused \cup aside

\* A request is of one mutation, and the next request is new.
SentIsOwn ==
  /\ made \in Nat /\ sent \subseteq Payloads
  /\ \A m \in sent : m.req \in 1 .. made /\ m.hint \in {None, m.att}
  /\ \A m, n \in sent : m.req = n.req => m = n

Confirmed(g) == g.confirmed # None => InRow(g.att, g.confirmed)

ATask == [do : {"save"}, m : sent] \cup [do : {"retry"}, reqs : SUBSET Requests]
         \cup [do : {"slot"}, point : {point \in ASavePoint : Confirmed(point)}]

\* What the backend holds was sent, and what it takes for journaled was.
HeldIsSent ==
  /\ published \subseteq sent /\ orphans \subseteq sent
  /\ spool \in [Requests -> published \cup {None}]
  /\ \A r \in Requests : spool[r] # None => spool[r].req = r
  /\ pend \in [Procs -> SUBSET published] /\ nondur \in [Procs -> SUBSET sent]
  /\ queue \in [Procs -> Seq(ATask)]

\* The writer is at a mutation that was sent, and removes it for a reason.
TodoIsSent(todo) ==
  \A item \in todo : /\ item.m \in sent /\ item.fresh \in BOOLEAN
                     /\ ~item.fresh => item.m \in published

JobFits(now) ==
  /\ now.at \in {"idle", "next", "record", "unlink", "drop"}
  /\ now.at \in {"record", "unlink", "drop"} =>
       now.m \in sent /\ now.durable \in BOOLEAN /\ (now.durable => now.m \in published)
  /\ now.at = "unlink" => Told(now.m, now.score)
  /\ now.at = "drop" => now.m \in refused
  /\ now.at # "idle" => TodoIsSent(now.todo)

JobIsOfSent == DOMAIN job = Procs /\ JobFits(job[Player])

Results == {"ok", "pending", "failed", "refused"}

\* Receipts, events and answers tell a score that is recorded.
AnswersAreTold ==
  /\ \A r \in Requests : receipts[r] # None =>
       receipts[r].of \in sent /\ receipts[r].of.req = r
         /\ Told(receipts[r].of, receipts[r].score)
  /\ DOMAIN event = Requests
  /\ \A r \in Requests : event[r] # None /\ event[r].state = "committed" =>
       \E m \in sent : m.req = r /\ Told(m, event[r].score)
  /\ answer # None =>
       /\ answer.m \in sent /\ answer.result \in Results
       /\ answer.result = "ok" => Told(answer.m, answer.score)

\* What waits in the game has a request of its own; what the game shows as
\* failed is what it sent.
GameFits(g) ==
  /\ g.hint \in {None, g.att} /\ Confirmed(g)
  /\ g.last # None => g.last \in sent /\ g.last.att = g.att
  /\ g.st \notin {"idle", "saved"} => g.last # None /\ g.last.hint = g.hint
  /\ g.queued # None =>
       /\ g.queued.att = g.att /\ g.queued.req \in 1 .. made
       /\ g.queued.hint \in {None, g.att}
       /\ \A m \in sent : m.req # g.queued.req

GameIsOwn ==
  /\ game \in AGame \cup {None} /\ slot \in ASavePoint \cup {None}
  /\ game # None => Player \in up /\ GameFits(game)
  /\ slot # None => Confirmed(slot)

\* The score the board settled at is the newest the game has handed over.
Newest(g) ==
  /\ \/ Met(g.att, g.score)
     \/ g.queued # None /\ g.queued.score = g.score
     \/ g.last # None /\ g.last.score = g.score
  /\ g.st = "saved" => Met(g.att, g.score)

SettledIsNewest == game # None /\ game.settled => Newest(game)

LastIsSafe(g) == g.last # None => Safe(g.last) \/ g.last \in OnItsWay

GameIndInv ==
  /\ SentIsOwn /\ HeldIsSent /\ JobIsOfSent /\ AnswersAreTold /\ GameIsOwn /\ SettledIsNewest
  /\ \A m \in published : Safe(m)
  /\ game # None => LastIsSafe(game)

=============================================================================
