--------------------------- MODULE ProfileControl ---------------------------
(***************************************************************************)
(* The launcher's choice of a profile.  At startup it reads the profile    *)
(* last used and the list of profiles; what the player chooses is saved    *)
(* before a game may start; a click on a game that comes too early is      *)
(* queued.  Answers of the backend arrive when they will, and a generation *)
(* that each choice advances tells which are out of date.  A frame handles *)
(* what has arrived and then starts a queued game.  The names of profiles  *)
(* are left out.  A step makes at most one request of the backend ("out"). *)
(***************************************************************************)
EXTENDS Integers, Sequences

CONSTANTS
  Profiles,        \* ids of profiles, Guest among them
  Guest,           \* the default id, a placeholder until the last one is read
  Stores,          \* tables of profiles to begin with, last used first
  MaxChoices,      \* bound on the player's choices
  Nil

\* The words of requests and answers are no profiles.
ASSUME LauncherAssumption ==
  /\ Guest \in Profiles /\ Stores \subseteq Seq(Profiles) /\ MaxChoices \in Nat
  /\ Profiles \cap {"load", "list", "waiting", "ok", "empty", "failed"} = {}
  /\ Nil \notin Profiles \cup {"load"}

VARIABLES
  ui,              \* the launcher, its controller, and what it asks of the backend
  local,         \* the two executors, the table, and what is known of it
  launched,        \* the game just started: for whom, and whether it was queued
  asked            \* history: the choice in force when a game was queued

launcherVars == <<ui, local, launched, asked>>

NoLaunch == [who |-> Nil, queued |-> FALSE]
Elements(s) == {s[i] : i \in DOMAIN s}

\* A profile is used: it comes before the others.
ToFront(table, p) ==
  LET at == IF p \in Elements(table) THEN CHOOSE i \in DOMAIN table : table[i] = p
            ELSE Len(table) + 1
  IN [i \in DOMAIN table \cup {at} |->
        IF i = 1 THEN p ELSE IF i <= at THEN table[i - 1] ELSE table[i]]

\* bind; "since" is history, the choices made by then.
Bind(u, expected) ==
  [generation |-> u.generation, expected |-> expected, since |-> u.chosen,
   result |-> "waiting", rows |-> <<>>]

Blank ==
  [generation |-> 0, profile |-> Guest, resolved |-> FALSE, startup |-> "loading",
   locked |-> FALSE, ready |-> FALSE, error |-> "none", editing |-> FALSE, cache |-> <<>>,
   queue |-> Nil, load |-> Nil, save |-> Nil, list |-> Nil, out |-> Nil, chosen |-> 0]

LauncherInit ==
  /\ ui = [Blank EXCEPT !.load = Bind(Blank, Nil), !.list = Bind(Blank, Nil)]
  /\ \E table \in Stores :
       local = [reads |-> <<"load", "list">>, writes |-> <<>>, table |-> table,
                  known |-> {}, kept |-> {}]
  /\ launched = NoLaunch /\ asked = Nil

-----------------------------------------------------------------------------
(***************************************************************************)
(* ProfileController.                                                      *)
(***************************************************************************)
Select(u, p) ==
  [u EXCEPT !.generation = @ + 1, !.profile = p, !.resolved = TRUE,
            !.startup = "resolved", !.queue = Nil]

\* A game queued before the profile was known is now for this one.
Resolve(u, p) ==
  [u EXCEPT !.profile = p, !.resolved = TRUE, !.startup = "resolved",
            !.queue = IF @ # Nil /\ @.generation = u.generation /\ @.expected = Nil
                      THEN [@ EXCEPT !.expected = p] ELSE @]

FailLoad(u) == IF u.resolved THEN u ELSE [u EXCEPT !.startup = "load_failed"]

\* A slip: only the profile is compared.
IsOfProfile(u, op) == op.expected \in {Nil, u.profile}

IsCurrent(u, op) == op.generation = u.generation /\ op.expected \in {Nil, u.profile}

HasOperation(u, kind) == u[kind] # Nil /\ IsCurrent(u, u[kind])

Completed(u, kind) == u[kind] # Nil /\ u[kind].result # "waiting"

QueueLaunch(u) ==
  [u EXCEPT !.queue = [generation |-> u.generation,
                       expected |-> IF u.resolved THEN u.profile ELSE Nil]]

-----------------------------------------------------------------------------
(***************************************************************************)
(* What the launcher asks for.                                             *)
(***************************************************************************)
EnsureProfile(u) ==
  [u EXCEPT !.save = Bind(u, u.profile), !.out = u.profile]

LoadAgain(u) ==
  [u EXCEPT !.error = "none", !.resolved = FALSE, !.startup = "loading",
            !.load = Bind(u, Nil), !.out = "load"]

\* A slip: any save on its way will do.
RetryUnlessSaving(u) ==
  IF HasOperation(u, "load") THEN u
  ELSE IF u.startup = "load_failed" THEN LoadAgain(u)
  ELSE IF u.save # Nil THEN u
  ELSE EnsureProfile([u EXCEPT !.error = "none"])

\* retry_profile_save
Retry(u) ==
  IF HasOperation(u, "load") THEN u
  ELSE IF u.startup = "load_failed" THEN LoadAgain(u)
  ELSE IF HasOperation(u, "save") THEN u
  ELSE EnsureProfile([u EXCEPT !.error = "none"])

\* A slip: an edit that need not be saved before a game starts.
FinishEditReady(u) ==
  EnsureProfile([Select(u, u.profile) EXCEPT !.locked = TRUE, !.editing = FALSE,
                                             !.error = "none"])

\* finish_player_edit: the same profile, chosen anew.
FinishEdit(u) ==
  EnsureProfile([Select(u, u.profile) EXCEPT !.locked = TRUE, !.editing = FALSE,
                                             !.ready = FALSE, !.error = "none"])

\* A request goes to an executor: the load to the reader, a save to the writer.
Send(b, request) ==
  IF request = Nil THEN b
  ELSE IF request = "load" THEN [b EXCEPT !.reads = Append(@, request)]
  ELSE [b EXCEPT !.writes = Append(@, request)]

Handle(u) ==
  /\ ui' = [u EXCEPT !.out = Nil]
  /\ local' = Send(local, u.out)

-----------------------------------------------------------------------------
(***************************************************************************)
(* A frame: poll_network, then pop_ready_launch.                           *)
(***************************************************************************)
AnswerLoad(before) ==
  LET op == before.load
      u == [before EXCEPT !.load = Nil]
  IN IF ~Completed(before, "load") THEN before
     ELSE IF ~IsCurrent(u, op) THEN u
     ELSE IF op.result = "failed" THEN [FailLoad(u) EXCEPT !.error = "load"]
     ELSE IF u.locked THEN u
     ELSE IF op.result # "empty"
          THEN [Resolve(u, op.result) EXCEPT !.ready = TRUE, !.error = "none"]
     ELSE IF u.error = "none" THEN EnsureProfile(Resolve(u, u.profile)) ELSE u

AnswerSave(before) ==
  LET op == before.save
      u == [before EXCEPT !.save = Nil]
  IN IF ~Completed(before, "save") THEN before
     ELSE IF ~IsCurrent(u, op) THEN u
     ELSE IF op.result = "failed" THEN [u EXCEPT !.error = "save", !.ready = FALSE]
     ELSE [Resolve(u, u.profile) EXCEPT !.ready = TRUE, !.error = "none",
                                        !.cache = ToFront(@, u.profile)]

AnswerList(before) ==
  LET op == before.list
      u == [before EXCEPT !.list = Nil]
  IN IF ~Completed(before, "list") THEN before
     ELSE IF IsCurrent(u, op) /\ op.result # "failed" THEN [u EXCEPT !.cache = op.rows]
     ELSE u

\* While it is not ready it asks for the state of the profile's key as well,
\* which has it read again in the background.
AnswerStatus(u) ==
  IF ~u.ready /\ u.profile \in local.known
  THEN [u EXCEPT !.ready = TRUE, !.error = "none"] ELSE u

RefreshStatus(b, p) ==
  IF p \in Elements(b.reads) THEN b ELSE [b EXCEPT !.reads = Append(@, p)]

LaunchFits(u) ==
  u.queue.generation = u.generation /\ u.queue.expected \in {Nil, u.profile}

Frame ==
  LET polled == AnswerList(AnswerSave(AnswerLoad(ui)))
      u == AnswerStatus(polled)
      pops == u.queue # Nil /\ u.ready
  IN /\ ui' = [u EXCEPT !.queue = IF pops THEN Nil ELSE @, !.out = Nil]
     /\ launched' = IF pops /\ LaunchFits(u) THEN [who |-> u.profile, queued |-> TRUE]
                    ELSE NoLaunch
     /\ LET sent == Send(local, u.out)
        IN \/ local' = sent
           \/ ~polled.ready /\ local' = RefreshStatus(sent, u.profile)
     /\ UNCHANGED asked

-----------------------------------------------------------------------------
(***************************************************************************)
(* The player.                                                             *)
(***************************************************************************)
\* A click on the name, which may come while the last profile is read.
ClickName ==
  /\ Handle([ui EXCEPT !.editing = TRUE, !.locked = TRUE])
  /\ launched' = NoLaunch /\ UNCHANGED asked

EndEdit ==
  /\ ui.editing /\ ui.chosen < MaxChoices
  /\ Handle(FinishEdit([ui EXCEPT !.chosen = @ + 1]))
  /\ launched' = NoLaunch /\ UNCHANGED asked

\* A click on a game ends an edit, and is queued when the profile is not ready.
ClickGame ==
  /\ ui.editing => ui.chosen < MaxChoices
  /\ LET u == IF ui.editing THEN FinishEdit([ui EXCEPT !.chosen = @ + 1]) ELSE ui
     IN IF u.ready
        THEN /\ Handle(u) /\ UNCHANGED asked
             /\ launched' = [who |-> u.profile, queued |-> FALSE]
        ELSE /\ Handle(Retry(QueueLaunch(u)))
             /\ asked' = [who |-> IF u.resolved THEN u.profile ELSE Nil,
                          chosen |-> u.chosen]
             /\ launched' = NoLaunch

\* choose_profile: a new id, whose name is typed next, or the next of the list.
NewProfile ==
  /\ ui.chosen < MaxChoices
  /\ \E p \in Profiles \ (Elements(local.table) \cup Elements(local.writes)
                           \cup local.kept \cup {Guest, ui.profile}) :
       Handle([Select(ui, p) EXCEPT !.locked = TRUE, !.ready = TRUE, !.error = "none",
                                 !.editing = TRUE, !.chosen = @ + 1])
  /\ launched' = NoLaunch /\ UNCHANGED asked

NextOf(cache, p) ==
  IF \E i \in 1 .. Len(cache) - 1 : cache[i] = p
  THEN cache[(CHOOSE i \in 1 .. Len(cache) - 1 : cache[i] = p) + 1] ELSE Head(cache)

SwitchProfile ==
  /\ ui.chosen < MaxChoices /\ ui.cache # <<>>
  /\ LET u == Select([ui EXCEPT !.chosen = @ + 1], NextOf(ui.cache, ui.profile))
     IN Handle(Retry([u EXCEPT !.locked = TRUE, !.ready = FALSE, !.error = "none"]))
  /\ launched' = NoLaunch /\ UNCHANGED asked

\* use_guest_after_load_failure
UseGuest ==
  /\ ui.startup = "load_failed" /\ ~ui.editing
  /\ LET u == [ui EXCEPT !.locked = TRUE, !.ready = FALSE, !.error = "none"]
     IN Handle(EnsureProfile(Resolve(u, Guest)))
  /\ launched' = NoLaunch /\ UNCHANGED asked

-----------------------------------------------------------------------------
(***************************************************************************)
(* The backend: its reader, its writer, and the replay of what it kept.    *)
(***************************************************************************)
Answer(kind, result) == ui' = [ui EXCEPT ![kind].result = result]

Read ==
  /\ local.reads # <<>>
  /\ LET read == Head(local.reads)
         b == [local EXCEPT !.reads = Tail(@)]
     IN \/ /\ read = "load" /\ local' = b
           /\ \/ Answer("load", IF b.table = <<>> THEN "empty" ELSE Head(b.table))
              \/ Answer("load", "failed")
        \/ /\ read = "list" /\ local' = b
           /\ \/ ui' = [ui EXCEPT !.list.result = "ok", !.list.rows = b.table]
              \/ Answer("list", "failed")
        \/ /\ read \in Profiles /\ UNCHANGED ui
           /\ \/ /\ read \in Elements(b.table) \ b.kept
                 /\ local' = [b EXCEPT !.known = @ \cup {read}]
              \/ /\ b.writes # <<>> /\ read = Head(b.writes)      \* journaled, not stored
                 /\ local' = [b EXCEPT !.known = @ \ {read}]
              \/ local' = b
  /\ launched' = NoLaunch /\ UNCHANGED asked

Stored(b, p) ==
  [b EXCEPT !.table = ToFront(@, p), !.known = @ \cup {p}, !.kept = @ \ {p}]

\* The save the launcher waits for is the last it has asked for.
AnswerIfLast(result) ==
  IF Len(local.writes) = 1 THEN Answer("save", result) ELSE UNCHANGED ui

WriteProfile ==
  /\ local.writes # <<>>
  /\ LET p == Head(local.writes)
         b == [local EXCEPT !.writes = Tail(@)]
     IN \/ local' = Stored(b, p) /\ AnswerIfLast("ok")
        \/ /\ local' = [b EXCEPT !.known = @ \ {p}, !.kept = @ \cup {p}]
           /\ AnswerIfLast("failed")
  /\ launched' = NoLaunch /\ UNCHANGED asked

ReplayKept ==
  /\ \E p \in local.kept : local' = Stored(local, p)
  /\ launched' = NoLaunch /\ UNCHANGED <<ui, asked>>

LauncherNext ==
  \/ Frame
  \/ ClickName \/ EndEdit \/ ClickGame \/ NewProfile \/ SwitchProfile \/ UseGuest
  \/ Read \/ WriteProfile \/ ReplayKept

LauncherSpec == LauncherInit /\ [][LauncherNext]_launcherVars

-----------------------------------------------------------------------------
\* A queued game starts for the profile that was chosen when the player clicked
\* on it, and not after another choice; no game starts for a profile the
\* database does not hold (queue_launch, select, pop_ready_launch, and what
\* makes the launcher ready).
StartsAsAsked ==
  launched' # NoLaunch =>
    /\ launched'.who \in Elements(local.table)
    /\ launched'.queued => /\ asked.chosen = ui.chosen
                           /\ asked.who \in {Nil, launched'.who}

LaunchIsAsAsked == [][StartsAsAsked]_launcherVars

\* An answer to what was asked before the player's last choice changes neither
\* the profile nor what the player is told (is_current, profile_choice_locked).
LateAnswers ==
  \A kind \in {"load", "save"} : Completed(ui, kind) => ui[kind].since < ui.chosen

LateAnswersChangeNothing ==
  [][Frame /\ LateAnswers => /\ ui'.profile = ui.profile
                             /\ ui'.startup = ui.startup
                             /\ ui'.error \in {ui.error, "none"}]_launcherVars

\* A queued game is waited for: an answer that will start it is on its way, or
\* the player has been told why not, or is typing (retry_profile_save).
QueueIsWaitedFor(u) ==
  u.queue # Nil =>
    \/ HasOperation(u, "load") \/ HasOperation(u, "save")
    \/ u.ready \/ u.error # "none" \/ u.editing

LaunchIsWaitedFor == QueueIsWaitedFor(ui)

\* "Games are only queued while the profile is read at startup; after a failure
\* the player retries, or presses G to be the guest" (CHANGELOG.md).
IdentityIsChosen == [][launched' # NoLaunch => ui'.startup = "resolved"]_launcherVars

-----------------------------------------------------------------------------
\* Why it holds, for any profiles, tables and choices.
Operations(results) ==
  [generation : Nat, expected : Profiles \cup {Nil}, since : Nat, result : results,
   rows : Seq(Profiles)]
Launches == [generation : Nat, expected : Profiles \cup {Nil}]

Loads == Operations(Profiles \cup {"waiting", "empty", "failed"})
Saves == Operations({"waiting", "ok", "failed"})

NilIsNoRecord == Nil \notin Loads \cup Saves \cup Launches

UI ==
  [generation : Nat, profile : Profiles, resolved : BOOLEAN,
   startup : {"loading", "load_failed", "resolved"}, locked : BOOLEAN, ready : BOOLEAN,
   error : {"none", "load", "save"}, editing : BOOLEAN, cache : Seq(Profiles),
   queue : Launches \cup {Nil}, load : Loads \cup {Nil}, save : Saves \cup {Nil},
   list : Saves \cup {Nil}, out : Profiles \cup {Nil, "load"}, chosen : Nat]

Backends ==
  [reads : Seq(Profiles \cup {"load", "list"}), writes : Seq(Profiles),
   table : Seq(Profiles), known : SUBSET Profiles, kept : SUBSET Profiles]

\* The generation counts the player's choices.
Counted(u) ==
  /\ u.generation = u.chosen
  /\ \A op \in {u.load, u.save} :
       op # Nil => op.since = op.generation /\ op.generation <= u.generation

\* What an executor has is waited for, the load and the last save asked for.
Expected(u, b) ==
  /\ \A i, j \in DOMAIN b.reads : b.reads[i] = b.reads[j] => i = j
  /\ "load" \in Elements(b.reads) => u.load # Nil /\ u.load.result = "waiting"
  /\ "list" \in Elements(b.reads) => u.list # Nil /\ u.list.result = "waiting"
  /\ b.writes # <<>> => /\ u.save # Nil /\ u.save.result = "waiting"
                        /\ u.save.expected = b.writes[Len(b.writes)]
  /\ u.load # Nil => u.load.expected = Nil
  /\ u.save # Nil => u.save.expected \in Profiles

\* A choice is made only after the load, or is being typed.
LoadIsWanted(u) ==
  /\ u.startup = "load_failed" => u.load = Nil
  /\ HasOperation(u, "load") \/ u.startup = "load_failed" => ~u.locked \/ u.editing

\* What is answered as stored is, and so is the profile of a launcher that is
\* ready, unless its name is being typed and no game is queued.
ReadyIsStored(u, table) ==
  /\ u.load # Nil /\ u.load.result \in Profiles => u.load.result \in Elements(table)
  /\ u.save # Nil /\ u.save.result = "ok" => u.save.expected \in Elements(table)
  /\ u.ready /\ (u.queue # Nil \/ ~u.editing) => u.profile \in Elements(table)

\* The queued launch is the one that was asked for.
QueueIsAsked(u, a) ==
  u.queue # Nil => a.chosen = u.chosen /\ a.who \in {Nil, u.queue.expected}

\* Of the launcher u, a backend b with the requests made of it, and the choice a
\* in force when a game was queued; to be waited for is what a step ends with.
Agree(u, b, a) ==
  /\ u \in UI /\ b \in Backends
  /\ Counted(u) /\ Expected(u, b) /\ LoadIsWanted(u)
  /\ b.known \subseteq Elements(b.table) /\ ReadyIsStored(u, b.table)
  /\ QueueIsAsked(u, a)

Sound(u, b, a) == Agree(u, b, a) /\ QueueIsWaitedFor(u)

LauncherInv == Sound(ui, local, asked) /\ ui.out = Nil

=============================================================================
