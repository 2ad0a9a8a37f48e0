------------------------------- MODULE Bootstrap -------------------------------
(***************************************************************************)
(* The bootstrap command line inside the container: the watcher of          *)
(* `kyoube ensure-plugins --watch`, people's `kyoube setup`, the rules      *)
(* token every `kyoube agent-rules` makes sure of, and the sign-in of       *)
(* `kyoube connect claude`.                                                 *)
(*                                                                         *)
(* The commands are processes that share files and the core and know        *)
(* nothing of each other; every call of the core may fail, done or not; a   *)
(* command may be killed and the container may restart between any two      *)
(* steps.  One plugin stands for the bundled ones, which a pass handles     *)
(* one after the other.  A behaviour is about one of the three (`stage`).   *)
(***************************************************************************)
EXTENDS Integers, FiniteSets

CONSTANTS
    Setups,         \* runs of `kyoube setup`, or of `kyoube agent-rules`
    MaxStarts,      \* bound: restarts of the container
    MaxHands,       \* bound: changes by hand, before the last restarts
    MaxTries        \* attempts of ensureKyoubeSkills

ASSUME BootstrapAssumption ==
    /\ {"watch", "none", "torn", "blank"} \cap Setups = {}
    /\ MaxStarts \in Nat /\ MaxHands \in Nat /\ MaxTries \in Nat \ {0}

VARIABLES
    stage,          \* what this behaviour is about
    bundle,         \* the plugin: the image's, and the core's row of it
    board,          \* the admin, the login challenges, live keys and board-key.json
    library,        \* the company and its skill
    command,        \* the locals of every command
    token,          \* rules-token
    signin,         \* the sign-in: its folder, the copy of the screen, the credentials
    chronicle       \* history

bootVars == <<stage, bundle, board, library, command, token, signin, chronicle>>

-----------------------------------------------------------------------------
NoKey     == "none"
Torn      == "torn"
Absent    == [status |-> "none", version |-> 0]
NoCommand == [at |-> "idle", saw |-> Absent, tries |-> 0, mine |-> NoKey, exit |-> "none"]
Commands  == Setups \cup {"watch"}

\* Where a command has nothing more to do.
Over(c) == command[c].at \in {"idle", "exited"}
OnTo(c, at) == command' = [command EXCEPT ![c].at = at]
Exits(c, code) == command' = [command EXCEPT ![c] = [NoCommand EXCEPT !.at = "exited", !.exit = code]]
\* runEnsurePlugins, catch: the watcher sleeps and tries again.
Failed(c) == IF c = "watch" THEN command' = [command EXCEPT ![c] = [NoCommand EXCEPT !.at = "asleep"]]
             ELSE Exits(c, "failed")
At(c, at) == stage = "plugins" /\ command[c].at = at

-----------------------------------------------------------------------------
(* kyoube setup                                                            *)

SetupStarts(c) ==
    /\ stage = "plugins" /\ command[c].at = "idle"
    /\ IF board.admin
       THEN /\ OnTo(c, "polling")
            /\ board' = [board EXCEPT !.challenge[c] = "pending"]
       ELSE Exits(c, "refused") /\ UNCHANGED board
    /\ UNCHANGED <<stage, bundle, library, token, signin, chronicle>>

PersonSignsUp ==
    /\ stage = "plugins" /\ ~board.admin
    /\ board' = [board EXCEPT !.admin = TRUE]
    /\ UNCHANGED <<stage, bundle, library, command, token, signin, chronicle>>

\* In the browser; the key is live from the moment of the approval.
Answers(c) ==
    /\ board.challenge[c] = "pending"
    /\ \E answer \in {"approved", "cancelled", "expired"} :
         board' = [board EXCEPT !.challenge[c] = answer,
                                !.live = IF answer = "approved" THEN @ \cup {c} ELSE @]
    /\ UNCHANGED <<stage, bundle, library, command, token, signin, chronicle>>

\* A poll; the deadline may have passed by the local clock.
PollsLogin(c) ==
    /\ At(c, "polling")
    /\ CASE board.challenge[c] = "approved" -> OnTo(c, "approved")
         [] board.challenge[c] \in {"cancelled", "expired"} -> Exits(c, "refused")
         [] OTHER -> Exits(c, "expired")
    /\ UNCHANGED <<stage, bundle, board, library, token, signin, chronicle>>

WhoAmIFirst(c) ==           \* mutant: no key without its owner
    /\ At(c, "approved")
    /\ OnTo(c, "opening") \/ Exits(c, "failed")
    /\ chronicle' = [chronicle EXCEPT !.seen = @ \cup {c}]
    /\ UNCHANGED <<stage, bundle, board, library, token, signin>>
\* whoAmI may fail: the key is stored all the same.
WhoAmI(c) ==
    /\ At(c, "approved")
    /\ OnTo(c, "opening")
    /\ chronicle' = [chronicle EXCEPT !.seen = @ \cup {c}]
    /\ UNCHANGED <<stage, bundle, board, library, token, signin>>

\* writeBoardKey: the file is emptied, then written; or cannot be.
OpensKey(c) ==
    /\ At(c, "opening")
    /\ \/ OnTo(c, "writing") /\ board' = [board EXCEPT !.file = Torn] /\ UNCHANGED chronicle
       \/ /\ Exits(c, "failed") /\ UNCHANGED board
          /\ chronicle' = [chronicle EXCEPT !.seen = @ \ {c}]
    /\ UNCHANGED <<stage, bundle, library, token, signin>>
WritesKey(c) ==
    /\ At(c, "writing")
    /\ board' = [board EXCEPT !.file = c]
    /\ OnTo(c, "health")
    /\ UNCHANGED <<stage, bundle, library, token, signin, chronicle>>

-----------------------------------------------------------------------------
(* ensure-plugins, one pass                                                *)

\* waitForHealth, then resolveBoardApiKey: a torn file is no key.
ReadsKey(c) ==
    /\ At(c, "health")
    /\ \/ /\ board.file \in board.live /\ OnTo(c, "listing")
       \/ /\ board.file \notin board.live
          /\ IF c = "watch" THEN OnTo(c, "asleep") ELSE Exits(c, "no_key")
       \/ Failed(c)
    /\ UNCHANGED <<stage, bundle, board, library, token, signin, chronicle>>

\* planPluginInstalls: from the core's row as it is listed.
Plan(row) ==
    CASE row.status \in {"none", "uninstalled"} -> "installing"
      [] row.status \in {"ready", "error"} /\ row.version # bundle.image -> "upgrading"
      [] OTHER -> "skills"
ListsPlugins(c) ==
    LET row == bundle.row IN
    /\ At(c, "listing")
    /\ \/ /\ command' = [command EXCEPT ![c].at = Plan(row), ![c].saw = row, ![c].tries = 0]
          /\ chronicle' = [chronicle EXCEPT !.early = @ \/ (row.status = "installed" /\ row.version # bundle.image)]
       \/ Failed(c) /\ UNCHANGED chronicle
    /\ UNCHANGED <<stage, bundle, board, library, token, signin>>

\* A call that changes the row: refused, or done and answered, or lost before or after.
CallOfCore(c, refused, row, next) ==
    /\ \/ ~refused /\ bundle' = [bundle EXCEPT !.row = row] /\ (OnTo(c, next) \/ Failed(c))
       \/ UNCHANGED bundle /\ Failed(c)
    /\ chronicle' = [chronicle EXCEPT
          !.byHand = @ /\ bundle'.row = bundle.row,
          !.needless = @ \/ (refused /\ command[c].saw = bundle.row /\ bundle.row.status # "error")]
    /\ UNCHANGED <<stage, board, library, token, signin>>

\* upgradeBundledPlugin: the core refuses unless the plugin runs, and refuses new capabilities.
Upgrades(c) ==
    /\ At(c, "upgrading")
    /\ IF bundle.escalates /\ bundle.row.status = "ready" /\ bundle.row.version # bundle.image
       THEN /\ OnTo(c, "uninstalling") \/ Failed(c)
            /\ UNCHANGED <<stage, bundle, board, library, token, signin, chronicle>>
       ELSE CallOfCore(c, bundle.row.status # "ready", [bundle.row EXCEPT !.version = bundle.image], "skills")
\* A soft uninstall, then an install of the same path.
Uninstalls(c) ==
    /\ At(c, "uninstalling")
    /\ CallOfCore(c, bundle.row.status = "none", [bundle.row EXCEPT !.status = "uninstalled"], "installing")
Installs(c) ==
    /\ At(c, "installing")
    /\ CallOfCore(c, bundle.row.status \notin {"none", "uninstalled"},
                  [status |-> "installed", version |-> bundle.image], "skills")

\* ensureKyoubeSkills: a worker that is not up yet is asked again, some times; never a failure.
AsksSkills(c) ==
    LET up == bundle.row.status = "ready"
        last == command[c].tries = MaxTries - 1
        goesOn == IF c = "watch" THEN Exits(c, "ok") ELSE OnTo(c, "reporting") IN
    /\ At(c, "skills")
    /\ \/ library.company /\ up /\ library' = [library EXCEPT !.skill = TRUE] /\ goesOn
       \/ library.company /\ ~last /\ command' = [command EXCEPT ![c].tries = @ + 1] /\ UNCHANGED library
       \/ (~library.company \/ up \/ last) /\ goesOn /\ UNCHANGED library
    /\ UNCHANGED <<stage, bundle, board, token, signin, chronicle>>
\* The company list of the pass cannot be read: the pass fails.
SkillsUnlisted(c) ==
    /\ At(c, "skills") /\ command[c].tries = 0 /\ Failed(c)
    /\ UNCHANGED <<stage, bundle, board, library, token, signin, chronicle>>

\* reportKyoubeSkills.
Reports(c) ==
    /\ At(c, "reporting")
    /\ Exits(c, IF library.company /\ ~library.skill THEN "failed" ELSE "ok")
    /\ UNCHANGED <<stage, bundle, board, library, token, signin, chronicle>>

Wakes ==
    /\ At("watch", "asleep") /\ OnTo("watch", "health")
    /\ UNCHANGED <<stage, bundle, board, library, token, signin, chronicle>>

-----------------------------------------------------------------------------
(* Around the commands                                                     *)

\* The core starts the plugin's worker, which may fail, and which brings the skill along.
Activates ==
    /\ stage = "plugins" /\ bundle.row.status = "installed"
    /\ \/ /\ bundle' = [bundle EXCEPT !.row.status = "ready"]
          /\ \E skill \in {library.skill, library.company} : library' = [library EXCEPT !.skill = skill]
       \/ bundle' = [bundle EXCEPT !.row.status = "error"] /\ UNCHANGED library
    /\ UNCHANGED <<stage, board, command, token, signin, chronicle>>

\* The operator disables, enables or uninstalls the plugin.
OperatorActs ==
    LET row == bundle.row IN
    /\ stage = "plugins" /\ chronicle.hands + chronicle.starts < MaxHands
    /\ \E status \in {"disabled", "ready", "uninstalled"} :
         /\ row.status \in (CASE status = "ready" -> {"disabled"} [] status = "disabled" -> {"ready"}
                               [] OTHER -> {"ready", "disabled", "installed", "error"})
         /\ bundle' = [bundle EXCEPT !.row.status = status]
    /\ chronicle' = [chronicle EXCEPT !.hands = @ + 1, !.byHand = TRUE]
    /\ UNCHANGED <<stage, board, library, command, token, signin>>

SetupIsKilled(c) ==
    /\ stage = "plugins" /\ c \in Setups /\ ~Over(c)
    /\ Exits(c, "failed")
    /\ chronicle' = [chronicle EXCEPT !.seen = @ \ {c}, !.killed = @ \/ command[c].at = "writing"]
    /\ UNCHANGED <<stage, bundle, board, library, token, signin>>

\* entrypoint.sh: a container starts, on this image or the next, with a watcher of its own.
ContainerStarts ==
    /\ stage = "plugins" /\ chronicle.starts < MaxStarts
    /\ \E image \in {bundle.image, 2}, escalates \in {FALSE, bundle.row.version > 0} :
         bundle' = [bundle EXCEPT !.image = image, !.escalates = escalates]
    /\ command' = [c \in Commands |->
          IF c = "watch" THEN [NoCommand EXCEPT !.at = "health"]
          ELSE IF Over(c) THEN command[c] ELSE [NoCommand EXCEPT !.at = "exited", !.exit = "failed"]]
    /\ chronicle' = [chronicle EXCEPT !.starts = @ + 1, !.early = FALSE,
          !.seen = @ \ {c \in Setups : ~Over(c)},
          !.killed = @ \/ \E c \in Setups : command[c].at = "writing"]
    /\ UNCHANGED <<stage, board, library, token, signin>>

-----------------------------------------------------------------------------
(* ensureRulesToken                                                        *)

TokenIs(c, at) == stage = "token" /\ command[c].at = at
ReadsToken(c) ==
    /\ TokenIs(c, "idle")
    /\ command' = [command EXCEPT ![c] = [NoCommand EXCEPT
          !.at = IF token \in {NoKey, "blank"} THEN "placing" ELSE "exited", !.mine = token]]
    /\ UNCHANGED <<stage, bundle, board, library, token, signin, chronicle>>
\* The new one is linked into place, or renamed over a blank file.
PlacesToken(c) ==
    /\ TokenIs(c, "placing")
    /\ token' = IF command[c].mine = "blank" \/ token = NoKey THEN c ELSE token
    /\ chronicle' = [chronicle EXCEPT !.blank = @ \/ command[c].mine = "blank"]
    /\ OnTo(c, "rereading")
    /\ UNCHANGED <<stage, bundle, board, library, signin>>
RereadsToken(c) ==
    /\ TokenIs(c, "rereading")
    /\ command' = [command EXCEPT ![c].at = "exited", ![c].mine = token]
    /\ UNCHANGED <<stage, bundle, board, library, token, signin, chronicle>>

-----------------------------------------------------------------------------
(* kyoube connect claude: runCaptured, runConnect                          *)

Signs(at) == stage = "signin" /\ signin.at = at
SignsOn(next) == signin' = next /\ UNCHANGED <<stage, bundle, board, library, command, token, chronicle>>

\* The folder of the attempt is there, and an empty copy of the screen is made in it.
ConnectStarts ==
    /\ Signs("idle")
    /\ SignsOn(IF signin.folder THEN [signin EXCEPT !.at = "running", !.copy = "empty"]
                                ELSE [signin EXCEPT !.at = "exited"])
\* The screen shows the token; the program ends, well or not.
ClaudePrints == Signs("running") /\ signin.copy = "empty" /\ SignsOn([signin EXCEPT !.copy = "token"])
ClaudeEnds ==
    /\ Signs("running")
    /\ \E well \in BOOLEAN : SignsOn([signin EXCEPT !.at = "reading", !.well = well])
\* done: the copy is read, then removed.
ReadsCopy  == Signs("reading")  /\ SignsOn([signin EXCEPT !.at = "removing", !.read = signin.copy])
RemovesCopy ==
    /\ Signs("removing")
    /\ SignsOn([signin EXCEPT !.copy = "gone",
          !.at = CASE ~signin.well \/ (signin.interrupted /\ signin.read # "token") -> "exited"
                   [] signin.well /\ signin.read = "token" -> "saving"
                   [] OTHER -> "asking"])
\* promptToken: what is typed is a setup-token, or is not.
PersonTypes == Signs("asking") /\ \E good \in BOOLEAN : SignsOn([signin EXCEPT !.at = IF good THEN "saving" ELSE "exited"])
\* writeCredentials: a temporary file and a rename.
SavesCredentials ==
    /\ Signs("saving")
    /\ SignsOn([signin EXCEPT !.at = "exited", !.saved = IF signin.folder THEN "token" ELSE @])
Interrupt == Signs("running") /\ ~signin.interrupted /\ SignsOn([signin EXCEPT !.interrupted = TRUE])
HangsUp ==
    /\ stage = "signin" /\ signin.at \in {"running", "reading", "removing"}
    /\ SignsOn([signin EXCEPT !.at = "exited", !.copy = "gone"])
FolderExpires ==
    /\ stage = "signin" /\ signin.folder
    /\ SignsOn([signin EXCEPT !.folder = FALSE, !.copy = "gone", !.saved = "none"])

-----------------------------------------------------------------------------
BootstrapInit ==
    /\ stage \in {"plugins", "token", "signin"}
    /\ bundle = [image |-> 1, escalates |-> FALSE, row |-> Absent]
    /\ board = [admin |-> FALSE, challenge |-> [c \in Setups |-> "none"], live |-> {}, file |-> NoKey]
    /\ \E company \in IF stage = "plugins" THEN BOOLEAN ELSE {FALSE} :
         library = [company |-> company, skill |-> FALSE]
    /\ command = [c \in Commands |-> IF c = "watch" /\ stage = "plugins" THEN [NoCommand EXCEPT !.at = "health"]
                                     ELSE NoCommand]
    /\ token \in IF stage = "token" THEN {NoKey, "blank"} ELSE {NoKey}
    /\ signin = [at |-> "idle", folder |-> TRUE, copy |-> "none", read |-> "none", well |-> FALSE,
                 interrupted |-> FALSE, saved |-> "none"]
    /\ chronicle = [seen |-> {}, starts |-> 0, hands |-> 0, byHand |-> FALSE, early |-> FALSE,
                    needless |-> FALSE, killed |-> FALSE, blank |-> FALSE]

BootstrapNext ==
    \/ \E c \in Setups : SetupStarts(c) \/ Answers(c) \/ PollsLogin(c) \/ WhoAmI(c) \/ OpensKey(c) \/ WritesKey(c)
                        \/ Reports(c) \/ SetupIsKilled(c)
    \/ \E c \in Commands : \/ ReadsKey(c) \/ ListsPlugins(c) \/ Upgrades(c) \/ Uninstalls(c) \/ Installs(c)
                           \/ AsksSkills(c) \/ SkillsUnlisted(c)
                           \/ ReadsToken(c) \/ PlacesToken(c) \/ RereadsToken(c)
    \/ PersonSignsUp \/ Wakes \/ Activates \/ OperatorActs \/ ContainerStarts
    \/ ConnectStarts \/ ClaudePrints \/ ClaudeEnds \/ ReadsCopy \/ RemovesCopy \/ PersonTypes \/ SavesCredentials
    \/ Interrupt \/ HangsUp \/ FolderExpires

BootstrapSpec == BootstrapInit /\ [][BootstrapNext]_bootVars

-----------------------------------------------------------------------------
BootstrapTypeOK ==
    /\ bundle.row.status \in {"none", "installed", "ready", "disabled", "error", "uninstalled"}
    /\ bundle.row.version \in 0..2 /\ bundle.image \in 1..2
    /\ board.live \subseteq Setups /\ board.file \in Setups \cup {NoKey, Torn}
    /\ \A c \in Commands : command[c].tries \in 0..MaxTries
    /\ token \in Commands \cup {NoKey, "blank"}

\* Once the watcher has ended well and every setup with it, and nobody changed it by hand,
\* the plugin is at the image's version, whatever passes crossed (ensure-plugins.ts).
EndedWellMeansCurrent ==
    stage = "plugins" /\ command["watch"].exit = "ok" /\ (\A c \in Setups : Over(c) /\ command[c].exit # "failed")
    /\ ~chronicle.byHand /\ ~chronicle.early
        => bundle.row.status # "uninstalled" /\ bundle.row.version = bundle.image

\* No pass fails over something the core is sure to refuse (plugins.ts).
PassesFailForACause == ~chronicle.needless

\* A key somebody approved and setup saw is kept: what the file holds is live, unless a
\* setup is writing it, was killed at it, or none could (key-store.ts, setup.ts).
ApprovedKeyIsKept ==
    /\ chronicle.seen # {} => \/ board.file \in board.live \/ chronicle.killed
                             \/ \E c \in Setups : command[c].at \in {"approved", "opening", "writing"}
    /\ board.file \notin {NoKey, Torn} => board.file \in board.live

\* All who made sure of the rules token hold one and the same, unless it was found blank.
OneRulesToken ==
    stage = "token" /\ ~chronicle.blank =>
        \A c, d \in Commands : command[c].at = "exited" /\ command[d].at = "exited"
            => command[c].mine = command[d].mine /\ command[c].mine = token /\ token \notin {NoKey, "blank"}

\* However a sign-in ends, no copy of the screen stays behind (connect.ts).
NoCopyStays == signin.at = "exited" => signin.copy \in {"none", "gone"}
=============================================================================
