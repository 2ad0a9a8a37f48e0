-------------------------- MODULE ServicePartsProofs --------------------------
(***************************************************************************)
(* Theorems about the parts of MCServices.  Bootstrap, for all setups:     *)
(* BootInv is the inductive invariant; it says how the plugin's row, the   *)
(* keys and the token are tied to the place each command has reached.      *)
(* Files, for all requests, names and limits: FilesInv says since when a   *)
(* role that is being listed has been held, what a save may replace, what  *)
(* has come where a new entry goes, and how the file on the page is tied   *)
(* to the file on the disk.                                                *)
(* Notices, for all people, devices, errands and limits: NotifyInv keeps    *)
(* what each request has found out about the lists and the owners, and the *)
(* statuses the task had, so that a notice can be charged to its move.     *)
(***************************************************************************)
EXTENDS MCServices, TerminalSessionsProofs

-----------------------------------------------------------------------------
(* Bootstrap                                                               *)

Statuses  == {"none", "installed", "ready", "disabled", "error", "uninstalled"}
PluginRow == [status: Statuses, version: 0..2]
Places    == {"idle", "exited", "polling", "approved", "opening", "writing", "health", "asleep", "listing",
              "installing", "upgrading", "uninstalling", "skills", "reporting", "placing", "rereading"}
Process   == [at: Places, saw: PluginRow, tries: 0..MaxTries - 1, mine: Commands \cup {NoKey, "blank"},
              exit: {"none", "ok", "failed", "refused", "expired", "no_key"}]

BoardState == [admin: BOOLEAN, live: SUBSET Setups, file: Setups \cup {NoKey, Torn},
               challenge: [Setups -> {"none", "pending", "approved", "cancelled", "expired"}]]
Chronicle == [seen: SUBSET Setups, starts: Nat, hands: Nat, byHand: BOOLEAN, early: BOOLEAN,
              needless: BOOLEAN, killed: BOOLEAN, blank: BOOLEAN]
SignIn == [at: {"idle", "running", "reading", "removing", "asking", "saving", "exited"}, folder: BOOLEAN,
           copy: {"none", "empty", "token", "gone"}, read: {"none", "empty", "token", "gone"},
           well: BOOLEAN, interrupted: BOOLEAN, saved: {"none", "token"}]

BootTypes ==
    /\ stage \in {"plugins", "token", "signin"}
    /\ bundle \in [image: 1..2, escalates: BOOLEAN, row: PluginRow]
    /\ board \in BoardState
    /\ library \in [company: BOOLEAN, skill: BOOLEAN]
    /\ command \in [Commands -> Process]
    /\ token \in Commands \cup {NoKey, "blank"}
    /\ signin \in SignIn
    /\ chronicle \in Chronicle

\* A pass acts on the row it has listed; what it found running it found behind the image.
SawBehind(c) == command[c].saw.status \in {"ready", "error"} /\ command[c].saw.version # bundle.image
PassOK(c) ==
    /\ command[c].exit # "none" => command[c].at = "exited"
    /\ command[c].at \in {"upgrading", "uninstalling"} => SawBehind(c)
    /\ command[c].at = "installing" =>
          \/ command[c].saw.status \in {"none", "uninstalled"}
          \/ /\ SawBehind(c)
             /\ bundle.row.status = "uninstalled" \/ bundle.row.version = bundle.image

\* From where the watcher has the plugin in place, it stays, unless a setup is about to put it back.
InPlace == bundle.row.version = bundle.image /\ bundle.row.status \notin {"none", "uninstalled"}
PutBack == bundle.row.status = "uninstalled" /\ \E c \in Setups : command[c].at = "installing"
Peace == ~chronicle.byHand /\ ~chronicle.early /\ \A c \in Setups : command[c].exit # "failed"
WatcherDone == command["watch"].at = "skills" \/ command["watch"].exit = "ok"
RowsOK ==
    /\ stage = "plugins" /\ WatcherDone /\ Peace => InPlace \/ PutBack
    /\ bundle.row.status = "disabled" => chronicle.byHand
    /\ ~chronicle.needless

\* Who holds an approved key has a live one, and the file is torn only while one is being written.
KeysOK ==
    /\ \A c \in Setups : /\ board.challenge[c] = "approved" => c \in board.live
                         /\ command[c].at \in {"approved", "opening", "writing"} => c \in board.live
    /\ board.file \notin {NoKey, Torn} => board.file \in board.live
    /\ board.file = Torn => chronicle.killed \/ \E c \in Setups : command[c].at = "writing"
    /\ board.file = NoKey => \A c \in chronicle.seen : command[c].at = "opening"

\* Whoever is done with the token holds it; who found none will not meet a blank one.
HasToken == token \notin {NoKey, "blank"}
TokenOK ==
    stage = "token" =>
        \A c \in Commands :
            /\ command[c].at \in {"idle", "placing", "rereading", "exited"}
            /\ command[c].at = "placing" => /\ command[c].mine \in {NoKey, "blank"}
                                            /\ command[c].mine = NoKey => token # "blank"
            /\ ~chronicle.blank /\ command[c].at = "rereading" => HasToken
            /\ ~chronicle.blank /\ command[c].at = "exited" => HasToken /\ command[c].mine = token

SignInOK == signin.at \in {"idle", "asking", "saving", "exited"} => signin.copy \in {"none", "gone"}

BootInv ==
    /\ BootTypes /\ RowsOK /\ KeysOK /\ TokenOK /\ SignInOK
    /\ \A c \in Commands : PassOK(c)

LEMMA BootNames ==
    /\ "watch" \notin Setups /\ "watch" \in Commands /\ Setups \subseteq Commands
    /\ NoKey \notin Commands /\ "blank" \notin Commands /\ Torn \notin Setups /\ NoKey # Torn
    /\ MaxTries \in Nat /\ MaxTries > 0 /\ MaxStarts \in Nat /\ MaxHands \in Nat
BY BootstrapAssumption DEF Commands, NoKey, Torn

LEMMA BootHolds ==
    ASSUME BootInv
    PROVE  BootstrapTypeOK /\ EndedWellMeansCurrent /\ PassesFailForACause
           /\ ApprovedKeyIsKept /\ OneRulesToken /\ NoCopyStays
<1>1. BootstrapTypeOK
  BY BootNames DEF BootInv, BootTypes, Process, BootstrapTypeOK, PluginRow, Statuses,
     BoardState
<1>2. EndedWellMeansCurrent
  <2>1. SUFFICES ASSUME stage = "plugins", command["watch"].exit = "ok",
                        \A c \in Setups : Over(c) /\ command[c].exit # "failed",
                        ~chronicle.byHand, ~chronicle.early
                 PROVE  bundle.row.status # "uninstalled" /\ bundle.row.version = bundle.image
    BY DEF EndedWellMeansCurrent
  <2>2. InPlace \/ PutBack
    BY <2>1 DEF BootInv, RowsOK, Peace, WatcherDone
  <2>3. ~PutBack
    BY <2>1 DEF PutBack, Over
  <2>4. QED
    BY <2>2, <2>3 DEF InPlace
<1>3. ApprovedKeyIsKept
  BY BootNames DEF BootInv, KeysOK, ApprovedKeyIsKept, BootTypes, Chronicle
<1>4. OneRulesToken
  BY DEF BootInv, TokenOK, HasToken, OneRulesToken
<1>5. PassesFailForACause /\ NoCopyStays
  BY DEF BootInv, RowsOK, SignInOK, PassesFailForACause, NoCopyStays
<1>6. QED
  BY <1>1, <1>2, <1>3, <1>4, <1>5

LEMMA BootStarts == BootstrapInit => BootInv
<1>1. SUFFICES ASSUME BootstrapInit
               PROVE  BootInv
  OBVIOUS
<1>2. /\ Absent \in PluginRow /\ NoCommand \in Process /\ NoCommand.at = "idle" /\ NoCommand.exit = "none"
      /\ [NoCommand EXCEPT !.at = "health"] \in Process /\ [NoCommand EXCEPT !.at = "health"].exit = "none"
      /\ [NoCommand EXCEPT !.at = "health"].at = "health"
  BY BootNames DEF Absent, PluginRow, Statuses, NoCommand, Process, Places
<1>01. /\ stage \in {"plugins", "token", "signin"}
       /\ bundle = [image |-> 1, escalates |-> FALSE, row |-> Absent]
       /\ board = [admin |-> FALSE, challenge |-> [c \in Setups |-> "none"], live |-> {}, file |-> NoKey]
       /\ command = [c \in Commands |-> IF c = "watch" /\ stage = "plugins" THEN [NoCommand EXCEPT !.at = "health"]
                                        ELSE NoCommand]
       /\ token \in IF stage = "token" THEN {NoKey, "blank"} ELSE {NoKey}
       /\ signin = [at |-> "idle", folder |-> TRUE, copy |-> "none", read |-> "none", well |-> FALSE,
                    interrupted |-> FALSE, saved |-> "none"]
       /\ chronicle = [seen |-> {}, starts |-> 0, hands |-> 0, byHand |-> FALSE, early |-> FALSE,
                       needless |-> FALSE, killed |-> FALSE, blank |-> FALSE]
  BY <1>1, Zenon DEF BootstrapInit
<1>02. \E company \in IF stage = "plugins" THEN BOOLEAN ELSE {FALSE} :
         library = [company |-> company, skill |-> FALSE]
  BY <1>1, Zenon DEF BootstrapInit
<1>3. /\ stage \in {"plugins", "token", "signin"} /\ token \in {NoKey, "blank"}
      /\ bundle.image = 1 /\ bundle.escalates = FALSE /\ bundle.row = Absent
      /\ bundle \in [image: 1..2, escalates: BOOLEAN, row: PluginRow]
  BY <1>01, <1>2
<1>4. /\ board.file = NoKey /\ board.challenge = [c \in Setups |-> "none"]
      /\ board \in BoardState
  BY <1>01 DEF BoardState
<1>5. library \in [company: BOOLEAN, skill: BOOLEAN]
  <2>1. CASE stage = "plugins"
    BY <1>02, <2>1
  <2>2. CASE stage # "plugins"
    BY <1>02, <2>2
  <2>3. QED
    BY <2>1, <2>2
<1>6. /\ command \in [Commands -> Process]
      /\ \A c \in Commands : command[c].exit = "none" /\ command[c].at \in {"idle", "health"}
      /\ \A c \in Commands : command[c].at = "health" => stage = "plugins"
  BY <1>01, <1>2
<1>7. signin \in SignIn /\ signin.copy = "none"
  BY <1>01 DEF SignIn
<1>8. /\ chronicle \in Chronicle /\ chronicle.seen = {} /\ ~chronicle.needless
  BY <1>01 DEF Chronicle
<1>9. BootTypes
  BY <1>3, <1>4, <1>5, <1>6, <1>7, <1>8 DEF BootTypes
<1>10. RowsOK
  BY <1>3, <1>6, <1>8, BootNames DEF RowsOK, WatcherDone, Absent
<1>11. KeysOK /\ TokenOK /\ SignInOK
  BY <1>4, <1>6, <1>7, <1>8, BootNames DEF KeysOK, TokenOK, SignInOK
<1>12. \A c \in Commands : PassOK(c)
  BY <1>6 DEF PassOK
<1>13. QED
  BY <1>9, <1>10, <1>11, <1>12 DEF BootInv

-----------------------------------------------------------------------------
(* What a command's step leaves alone                                        *)

LEMMA OnToIs ==
    ASSUME BootTypes, NEW c \in Commands, NEW at \in Places, OnTo(c, at)
    PROVE  \E x \in Process : /\ command' = [command EXCEPT ![c] = x] /\ x.at = at
                              /\ x.exit = command[c].exit /\ x.saw = command[c].saw
                              /\ x.mine = command[c].mine
<1>1. command[c] \in Process
  BY DEF BootTypes
<1>2. [command[c] EXCEPT !.at = at] \in Process
  BY <1>1 DEF Process
<1>3. command' = [command EXCEPT ![c] = [command[c] EXCEPT !.at = at]]
  BY DEF OnTo
<1>4. QED
  BY <1>1, <1>2, <1>3 DEF Process

LEMMA NoCommandIs ==
    /\ NoCommand \in Process /\ NoCommand.at = "idle" /\ NoCommand.exit = "none"
    /\ \A at \in Places : /\ [NoCommand EXCEPT !.at = at] \in Process /\ [NoCommand EXCEPT !.at = at].at = at
                          /\ [NoCommand EXCEPT !.at = at].exit = "none"
BY BootNames DEF NoCommand, Process, Places, Absent, PluginRow, Statuses

LEMMA ExitsIs ==
    ASSUME BootTypes, NEW c \in Commands, NEW code \in {"ok", "failed", "refused", "expired", "no_key"}, Exits(c, code)
    PROVE  \E x \in Process : /\ command' = [command EXCEPT ![c] = x] /\ x.at = "exited" /\ x.exit = code
<1>1. NoCommand \in Process /\ "exited" \in Places
  BY NoCommandIs DEF Places
<1>2. PICK x : x = [NoCommand EXCEPT !.at = "exited", !.exit = code]
  OBVIOUS
<1>3. x \in Process /\ x.at = "exited" /\ x.exit = code
  BY <1>1, <1>2 DEF Process
<1>4. QED
  BY <1>2, <1>3 DEF Exits

LEMMA FailedIs ==
    ASSUME BootTypes, NEW c \in Commands, Failed(c)
    PROVE  \E x \in Process : /\ command' = [command EXCEPT ![c] = x]
                              /\ IF c = "watch" THEN x.at = "asleep" /\ x.exit = "none"
                                                ELSE x.at = "exited" /\ x.exit = "failed"
<1>1. CASE c = "watch"
  BY <1>1, NoCommandIs DEF Places, Failed
<1>2. CASE c # "watch"
  BY <1>2, ExitsIs DEF Failed
<1>3. QED
  BY <1>1, <1>2

\* A step of a command that changes neither the row nor what a setup is about to put back.
LEMMA CommandMoves ==
    ASSUME BootInv, stage = "plugins", UNCHANGED <<stage, bundle, token, signin>>,
           NEW c \in Commands, NEW x \in Process, command' = [command EXCEPT ![c] = x],
           command[c].at # "exited",
           x.exit # "none" => x.at = "exited",
           x.at \notin {"upgrading", "uninstalling", "installing"},
           command[c].at = "installing" => c = "watch" \/ x.exit = "failed",
           c = "watch" /\ (x.at = "skills" \/ x.exit = "ok") => command[c].at = "skills",
           chronicle'.byHand = chronicle.byHand, chronicle'.early = chronicle.early,
           chronicle'.needless = chronicle.needless,
           board' \in BoardState, chronicle' \in Chronicle, library' \in [company: BOOLEAN, skill: BOOLEAN],
           KeysOK'
    PROVE  BootInv'
<1>1. /\ command'[c] = x /\ \A d \in Commands \ {c} : command'[d] = command[d]
      /\ command' \in [Commands -> Process]
  BY DEF BootInv, BootTypes
<1>2. BootTypes'
  BY <1>1 DEF BootInv, BootTypes
<1>3. TokenOK' /\ SignInOK'
  BY DEF BootInv, TokenOK, SignInOK
<1>4. \A d \in Commands : PassOK(d)'
  BY <1>1 DEF PassOK, BootInv, SawBehind
<1>5. RowsOK'
  <2>1. ASSUME WatcherDone', Peace'
        PROVE  (InPlace \/ PutBack)'
    BY <1>1, <2>1, BootNames DEF WatcherDone, BootInv, PassOK, Peace, InPlace, PutBack,
       RowsOK
  <2>2. QED
    BY <2>1 DEF BootInv, RowsOK
<1>6. QED
  BY <1>2, <1>3, <1>4, <1>5 DEF BootInv

\* A step of a command that is not writing a key and does not hold one that is not stored.
LEMMA KeysStay ==
    ASSUME BootInv, NEW c \in Commands, NEW x \in Process, command' = [command EXCEPT ![c] = x],
           board' = board, chronicle'.seen = chronicle.seen, chronicle'.killed = chronicle.killed,
           command[c].at \notin {"opening", "writing"}, x.at \notin {"approved", "opening", "writing"}
    PROVE  KeysOK'
BY BootNames DEF BootInv, BootTypes, Chronicle, KeysOK

\* Such a step that changes nothing else.
LEMMA CommandStep ==
    ASSUME BootInv, stage = "plugins", UNCHANGED <<stage, bundle, board, token, signin, chronicle>>,
           NEW c \in Commands, NEW x \in Process, command' = [command EXCEPT ![c] = x],
           library' \in [company: BOOLEAN, skill: BOOLEAN],
           command[c].at \notin {"exited", "opening", "writing"},
           x.exit # "none" => x.at = "exited",
           x.at \notin {"upgrading", "uninstalling", "installing", "approved", "opening", "writing"},
           command[c].at = "installing" => c = "watch" \/ x.exit = "failed",
           c = "watch" /\ (x.at = "skills" \/ x.exit = "ok") => command[c].at = "skills"
    PROVE  BootInv'
BY KeysStay, CommandMoves DEF BootInv, BootTypes

-----------------------------------------------------------------------------
(* kyoube setup                                                              *)

\* A step around the commands.
LEMMA AroundCommands ==
    ASSUME BootInv, UNCHANGED <<stage, bundle, command, token, signin, chronicle>>,
           board' \in BoardState, library' \in [company: BOOLEAN, skill: BOOLEAN], KeysOK'
    PROVE  BootInv'
<1>1. BootTypes' /\ TokenOK' /\ SignInOK'
  BY DEF BootInv, BootTypes, TokenOK, HasToken, SignInOK
<1>2. RowsOK' /\ \A c \in Commands : PassOK(c)'
  BY DEF BootInv, RowsOK, WatcherDone, Peace, InPlace, PutBack, PassOK, SawBehind
<1>3. QED
  BY <1>1, <1>2 DEF BootInv

LEMMA PersonSignsUpKeeps == BootInv /\ PersonSignsUp => BootInv'
<1>1. SUFFICES ASSUME BootInv, PersonSignsUp
               PROVE  BootInv'
  OBVIOUS
<1>2. /\ board' \in BoardState /\ board'.live = board.live /\ board'.file = board.file
      /\ board'.challenge = board.challenge
  BY <1>1 DEF PersonSignsUp, BootInv, BootTypes, BoardState
<1>3. KeysOK'
  BY <1>1, <1>2 DEF BootInv, KeysOK, PersonSignsUp
<1>4. QED
  BY <1>1, <1>2, <1>3, AroundCommands DEF PersonSignsUp, BootInv, BootTypes

LEMMA AnswersKeeps == ASSUME BootInv, NEW c \in Setups, Answers(c) PROVE BootInv'
<1>1. PICK answer \in {"approved", "cancelled", "expired"} :
         board' = [board EXCEPT !.challenge[c] = answer,
                                !.live = IF answer = "approved" THEN @ \cup {c} ELSE @]
  BY DEF Answers
<1>2. board \in BoardState
  BY DEF BootInv, BootTypes
<1>3. /\ board'.challenge = [board.challenge EXCEPT ![c] = answer] /\ board'.file = board.file
      /\ board'.live = IF answer = "approved" THEN board.live \cup {c} ELSE board.live
      /\ board' \in BoardState
  BY <1>1, <1>2 DEF BoardState
<1>4. /\ board'.challenge[c] = answer /\ board.live \subseteq board'.live
      /\ \A d \in Setups \ {c} : board'.challenge[d] = board.challenge[d]
  BY <1>2, <1>3 DEF BoardState
<1>5. KeysOK'
  BY <1>3, <1>4 DEF BootInv, KeysOK, Answers
<1>6. QED
  BY <1>3, <1>5, AroundCommands DEF Answers, BootInv, BootTypes

LEMMA SetupStartsKeeps == ASSUME BootInv, NEW c \in Setups, SetupStarts(c) PROVE BootInv'
<1>1. /\ stage = "plugins" /\ command[c].at = "idle" /\ c \in Commands /\ c # "watch"
      /\ UNCHANGED <<stage, bundle, library, token, signin, chronicle>>
  BY BootNames DEF SetupStarts
<1>2. BootTypes /\ board \in BoardState /\ chronicle \in Chronicle /\ library \in [company: BOOLEAN, skill: BOOLEAN]
  BY DEF BootInv, BootTypes
<1>3. CASE board.admin
  <2>1. PICK x \in Process : command' = [command EXCEPT ![c] = x] /\ x.at = "polling" /\ x.exit = command[c].exit
    BY <1>1, <1>2, <1>3, OnToIs DEF SetupStarts, Places
  <2>2. x.exit = "none"
    BY <1>1, <2>1 DEF BootInv, PassOK
  <2>3. /\ board' = [board EXCEPT !.challenge[c] = "pending"] /\ board' \in BoardState
        /\ board'.live = board.live /\ board'.file = board.file
        /\ \A d \in Setups : board'.challenge[d] \in {board.challenge[d], "pending"}
    BY <1>2, <1>3 DEF SetupStarts, BoardState
  <2>4. command'[c] = x /\ \A d \in Commands \ {c} : command'[d] = command[d]
    BY <1>1, <1>2, <2>1 DEF BootTypes
  <2>5. KeysOK'
    BY <1>1, <1>2, <2>1, <2>3, <2>4, BootNames DEF BootInv, KeysOK, Chronicle
  <2>6. QED
    BY <1>1, <1>2, <2>1, <2>2, <2>3, <2>5, CommandMoves
<1>4. CASE ~board.admin
  BY <1>1, <1>2, <1>4, ExitsIs, CommandStep DEF SetupStarts
<1>5. QED
  BY <1>3, <1>4

LEMMA PollsLoginKeeps == ASSUME BootInv, NEW c \in Setups, PollsLogin(c) PROVE BootInv'
<1>1. /\ stage = "plugins" /\ command[c].at = "polling" /\ c \in Commands /\ c # "watch"
      /\ UNCHANGED <<stage, bundle, board, library, token, signin, chronicle>>
  BY BootNames DEF PollsLogin, At
<1>2. BootTypes /\ board \in BoardState /\ chronicle \in Chronicle /\ library \in [company: BOOLEAN, skill: BOOLEAN]
  BY DEF BootInv, BootTypes
<1>3. CASE board.challenge[c] = "approved"
  BY <1>1, <1>2, <1>3, OnToIs, BootNames, CommandMoves DEF PollsLogin, Places, BootInv,
     PassOK, BootTypes, KeysOK, Chronicle
<1>4. CASE board.challenge[c] # "approved"
  BY <1>4, <1>1, <1>2, ExitsIs, CommandStep DEF PollsLogin
<1>5. QED
  BY <1>3, <1>4

LEMMA WhoAmIKeeps == ASSUME BootInv, NEW c \in Setups, WhoAmI(c) PROVE BootInv'
<1>1. /\ stage = "plugins" /\ command[c].at = "approved" /\ c \in Commands /\ c # "watch"
      /\ chronicle' = [chronicle EXCEPT !.seen = @ \cup {c}]
      /\ UNCHANGED <<stage, bundle, board, library, token, signin>>
  BY BootNames DEF WhoAmI, At
<1>2. BootTypes /\ board \in BoardState /\ chronicle \in Chronicle /\ library \in [company: BOOLEAN, skill: BOOLEAN]
  BY DEF BootInv, BootTypes
<1>3. PICK x \in Process : command' = [command EXCEPT ![c] = x] /\ x.at = "opening" /\ x.exit = command[c].exit
  BY <1>1, <1>2, OnToIs DEF WhoAmI, Places
<1>4. x.exit = "none"
  BY <1>1, <1>3 DEF BootInv, PassOK
<1>5. command'[c] = x /\ \A d \in Commands \ {c} : command'[d] = command[d]
  BY <1>1, <1>2, <1>3 DEF BootTypes
<1>6. /\ chronicle' \in Chronicle /\ chronicle'.seen = chronicle.seen \cup {c} /\ chronicle'.killed = chronicle.killed
      /\ chronicle'.byHand = chronicle.byHand /\ chronicle'.early = chronicle.early
      /\ chronicle'.needless = chronicle.needless
  BY <1>1, <1>2 DEF Chronicle
<1>7. KeysOK'
  BY <1>1, <1>2, <1>3, <1>5, <1>6, BootNames DEF BootInv, KeysOK, Chronicle
<1>8. QED
  BY <1>1, <1>2, <1>3, <1>4, <1>6, <1>7, CommandMoves

LEMMA OpensKeyKeeps == ASSUME BootInv, NEW c \in Setups, OpensKey(c) PROVE BootInv'
<1>1. /\ stage = "plugins" /\ command[c].at = "opening" /\ c \in Commands /\ c # "watch"
      /\ UNCHANGED <<stage, bundle, library, token, signin>>
  BY BootNames DEF OpensKey, At
<1>2. BootTypes /\ board \in BoardState /\ chronicle \in Chronicle /\ library \in [company: BOOLEAN, skill: BOOLEAN]
  BY DEF BootInv, BootTypes
<1>3. CASE OnTo(c, "writing") /\ board' = [board EXCEPT !.file = Torn] /\ UNCHANGED chronicle
  BY <1>1, <1>2, <1>3, OnToIs, BootNames, CommandMoves DEF Places, BootInv, PassOK,
     BootTypes, BoardState, KeysOK
<1>4. CASE /\ Exits(c, "failed") /\ UNCHANGED board
           /\ chronicle' = [chronicle EXCEPT !.seen = @ \ {c}]
  BY <1>1, <1>2, <1>4, ExitsIs, BootNames, CommandMoves DEF BootTypes, Chronicle, BootInv,
     KeysOK
<1>5. QED
  BY <1>3, <1>4 DEF OpensKey

LEMMA WritesKeyKeeps == ASSUME BootInv, NEW c \in Setups, WritesKey(c) PROVE BootInv'
<1>1. /\ stage = "plugins" /\ command[c].at = "writing" /\ c \in Commands /\ c # "watch"
      /\ board' = [board EXCEPT !.file = c]
      /\ UNCHANGED <<stage, bundle, library, token, signin, chronicle>>
  BY BootNames DEF WritesKey, At
<1>2. BootTypes /\ board \in BoardState /\ chronicle \in Chronicle /\ library \in [company: BOOLEAN, skill: BOOLEAN]
  BY DEF BootInv, BootTypes
<1>3. PICK x \in Process : command' = [command EXCEPT ![c] = x] /\ x.at = "health" /\ x.exit = command[c].exit
  BY <1>1, <1>2, OnToIs DEF WritesKey, Places
<1>4. x.exit = "none"
  BY <1>1, <1>3 DEF BootInv, PassOK
<1>5. command'[c] = x /\ \A d \in Commands \ {c} : command'[d] = command[d]
  BY <1>1, <1>2, <1>3 DEF BootTypes
<1>6. /\ board' \in BoardState /\ board'.live = board.live /\ board'.file = c
      /\ board'.challenge = board.challenge
  BY <1>1, <1>2 DEF BoardState
<1>7. KeysOK'
  BY <1>1, <1>2, <1>3, <1>5, <1>6, BootNames DEF BootInv, KeysOK
<1>8. QED
  BY <1>1, <1>2, <1>3, <1>4, <1>6, <1>7, CommandMoves

-----------------------------------------------------------------------------
(* ensure-plugins, one pass                                                  *)

LEMMA ReadsKeyKeeps == ASSUME BootInv, NEW c \in Commands, ReadsKey(c) PROVE BootInv'
BY OnToIs, CommandStep, ExitsIs, FailedIs DEF ReadsKey, At, BootInv, BootTypes, PassOK,
   Places

LEMMA ListsPluginsKeeps == ASSUME BootInv, NEW c \in Commands, ListsPlugins(c) PROVE BootInv'
<1>1. /\ stage = "plugins" /\ command[c].at = "listing"
      /\ UNCHANGED <<stage, bundle, board, library, token, signin>>
  BY DEF ListsPlugins, At
<1>2. /\ BootTypes /\ library \in [company: BOOLEAN, skill: BOOLEAN] /\ command[c].exit = "none"
      /\ command[c] \in Process /\ bundle.row \in PluginRow /\ chronicle \in Chronicle /\ bundle.image \in 1..2
  BY <1>1 DEF BootInv, BootTypes, PassOK
<1>3. CASE Failed(c) /\ UNCHANGED chronicle
  BY <1>2, <1>3, FailedIs, <1>1, CommandStep
<1>4. CASE /\ command' = [command EXCEPT ![c].at = Plan(bundle.row), ![c].saw = bundle.row, ![c].tries = 0]
           /\ chronicle' = [chronicle EXCEPT
                !.early = @ \/ (bundle.row.status = "installed" /\ bundle.row.version # bundle.image)]
  <2>1. Plan(bundle.row) \in {"installing", "skills", "upgrading"} /\ 0 \in 0..MaxTries - 1
    BY BootNames DEF Plan
  <2>0. PICK x : x = [command[c] EXCEPT !.at = Plan(bundle.row), !.saw = bundle.row, !.tries = 0]
    OBVIOUS
  <2>2. /\ x \in Process /\ x.at = Plan(bundle.row) /\ x.saw = bundle.row /\ x.exit = "none"
        /\ x.mine = command[c].mine
    BY <1>2, <2>0, <2>1 DEF Process, Places
  <2>3. command'[c] = x /\ (\A d \in Commands \ {c} : command'[d] = command[d]) /\ command' \in [Commands -> Process]
        /\ command' = [command EXCEPT ![c] = x]
    BY <1>2, <1>4, <2>0, <2>2 DEF BootTypes
  <2>4. /\ chronicle' \in Chronicle /\ chronicle'.seen = chronicle.seen /\ chronicle'.killed = chronicle.killed
        /\ chronicle'.byHand = chronicle.byHand /\ chronicle'.needless = chronicle.needless
        /\ chronicle'.blank = chronicle.blank /\ (chronicle.early => chronicle'.early)
        /\ bundle.row.status = "installed" /\ bundle.row.version # bundle.image => chronicle'.early
    BY <1>2, <1>4 DEF Chronicle
  <2>5. KeysOK'
    BY <1>1, <2>1, <2>2, <2>3, <2>4, KeysStay
  <2>6. TokenOK' /\ SignInOK' /\ BootTypes'
    BY <1>1, <1>2, <2>3, <2>4 DEF BootInv, BootTypes, TokenOK, SignInOK
  <2>7. PassOK(c)'
    BY <1>2, <2>2, <2>1, <1>1, <2>3 DEF Plan, PluginRow, Statuses, PassOK, SawBehind
  <2>8. ASSUME NEW d \in Commands \ {c}
        PROVE  PassOK(d)'
    BY <1>1, <2>3 DEF BootInv, PassOK, SawBehind
  <2>9. RowsOK'
    <3>1. ASSUME WatcherDone', Peace'
          PROVE  (InPlace \/ PutBack)'
      <4>1. Peace
        BY <1>1, <1>2, <2>3, <2>4, <3>1, BootNames DEF Peace
      <4>2. CASE c = "watch"
        <5>1. Plan(bundle.row) = "skills"
          BY <2>2, <2>3, <3>1, <4>2 DEF WatcherDone
        <5>2. bundle.row.status \notin {"none", "uninstalled", "disabled"}
          BY <4>1, <5>1 DEF Plan, BootInv, RowsOK, Peace
        <5>3. bundle.row.version = bundle.image
          BY <1>2, <5>2, <2>4, <3>1, <5>1 DEF PluginRow, Statuses, Peace, Plan
        <5>4. QED
          BY <1>1, <5>2, <5>3 DEF InPlace
      <4>3. CASE c # "watch"
        BY <2>3, <3>1, <4>3, BootNames, <1>1, <4>1 DEF WatcherDone, BootInv, RowsOK,
           InPlace, PutBack
      <4>4. QED
        BY <4>2, <4>3
    <3>2. QED
      BY <1>1, <2>4, <3>1 DEF BootInv, RowsOK
  <2>10. QED
    BY <2>5, <2>6, <2>7, <2>8, <2>9 DEF BootInv
<1>5. QED
  BY <1>3, <1>4 DEF ListsPlugins

\* A call that leaves the plugin in place, or the setup that calls about to put it back.
LEMMA CallKeeps ==
    ASSUME BootInv, stage = "plugins", NEW c \in Commands, NEW refused \in BOOLEAN, NEW r \in PluginRow,
           NEW next \in {"skills", "installing"}, CallOfCore(c, refused, r, next),
           command[c].at \in {"upgrading", "uninstalling", "installing"},
           refused /\ command[c].saw = bundle.row => bundle.row.status = "error",
           ~refused => \/ r.status \notin {"none", "uninstalled", "disabled"} /\ r.version = bundle.image
                       \/ r.status = "uninstalled" /\ next = "installing" /\ SawBehind(c),
           ~refused /\ next = "skills" => r.status \notin {"none", "uninstalled", "disabled"} /\ r.version = bundle.image,
           next = "installing" => SawBehind(c) /\ r.status = "uninstalled"
    PROVE  BootInv'
<1>1. /\ BootTypes /\ library \in [company: BOOLEAN, skill: BOOLEAN] /\ command[c].exit = "none"
      /\ command[c] \in Process /\ chronicle \in Chronicle /\ board \in BoardState
      /\ bundle \in [image: 1..2, escalates: BOOLEAN, row: PluginRow]
  BY DEF BootInv, BootTypes, PassOK
<1>2. /\ UNCHANGED <<stage, board, library, token, signin>>
      /\ chronicle' = [chronicle EXCEPT
           !.byHand = @ /\ bundle'.row = bundle.row,
           !.needless = @ \/ (refused /\ command[c].saw = bundle.row /\ bundle.row.status # "error")]
  BY DEF CallOfCore
<1>3. /\ chronicle' \in Chronicle /\ chronicle'.seen = chronicle.seen /\ chronicle'.killed = chronicle.killed
      /\ chronicle'.blank = chronicle.blank /\ chronicle'.early = chronicle.early
      /\ chronicle'.byHand = (chronicle.byHand /\ bundle'.row = bundle.row)
      /\ chronicle'.needless = chronicle.needless
  BY <1>1, <1>2 DEF Chronicle, BootInv, RowsOK
<1>4. CASE UNCHANGED bundle /\ Failed(c)
  BY <1>1, <1>4, FailedIs, <1>2, <1>3, KeysStay, CommandMoves DEF Chronicle
<1>5. CASE ~refused /\ bundle' = [bundle EXCEPT !.row = r] /\ (OnTo(c, next) \/ Failed(c))
  <2>1. PICK x \in Process : /\ command' = [command EXCEPT ![c] = x]
                             /\ \/ x.at = next /\ x.exit = "none" /\ x.saw = command[c].saw
                                \/ x.at = "asleep" /\ x.exit = "none" /\ c = "watch"
                                \/ x.at = "exited" /\ x.exit = "failed" /\ c # "watch"
    BY <1>1, OnToIs, FailedIs, <1>5 DEF Places
  <2>2. /\ bundle' \in [image: 1..2, escalates: BOOLEAN, row: PluginRow] /\ bundle'.row = r
        /\ bundle'.image = bundle.image
    BY <1>1, <1>5
  <2>3. /\ command'[c] = x /\ \A d \in Commands \ {c} : command'[d] = command[d]
        /\ command' \in [Commands -> Process]
    BY <1>1, <2>1 DEF BootTypes
  <2>4. KeysOK'
    BY <1>2, <1>3, <2>1, KeysStay
  <2>5. BootTypes' /\ TokenOK' /\ SignInOK'
    BY <1>1, <1>2, <1>3, <2>2, <2>3 DEF BootInv, BootTypes, TokenOK, SignInOK
  <2>6. r.status = "uninstalled" \/ r.version = bundle.image
    BY <1>5
  <2>7. ASSUME NEW d \in Commands \ {c}
        PROVE  PassOK(d)'
    BY <2>2, <2>3, <2>6 DEF BootInv, PassOK, SawBehind
  <2>8. PassOK(c)'
    BY <1>5, <2>1, <2>2, <2>3, <2>6 DEF PassOK, SawBehind
  <2>9. RowsOK'
    BY <2>2, <2>1, <2>3, <1>5, <1>2, <1>3 DEF InPlace, WatcherDone, Commands, Peace,
       PutBack, BootInv, RowsOK
  <2>10. QED
    BY <2>4, <2>5, <2>7, <2>8, <2>9 DEF BootInv
<1>6. QED
  BY <1>4, <1>5 DEF CallOfCore

LEMMA UpgradesKeeps == ASSUME BootInv, NEW c \in Commands, Upgrades(c) PROVE BootInv'
<1>1. /\ stage = "plugins" /\ command[c].at = "upgrading" /\ SawBehind(c) /\ command[c].exit = "none"
      /\ BootTypes /\ bundle \in [image: 1..2, escalates: BOOLEAN, row: PluginRow]
      /\ library \in [company: BOOLEAN, skill: BOOLEAN] /\ chronicle \in Chronicle /\ board \in BoardState
  BY DEF Upgrades, At, BootInv, BootTypes, PassOK
<1>2. CASE bundle.escalates /\ bundle.row.status = "ready" /\ bundle.row.version # bundle.image
  <2>1. /\ OnTo(c, "uninstalling") \/ Failed(c)
        /\ UNCHANGED <<stage, bundle, board, library, token, signin, chronicle>>
    BY <1>2 DEF Upgrades
  <2>2. CASE Failed(c)
    BY <1>1, <2>2, FailedIs, <2>1, CommandStep
  <2>3. CASE OnTo(c, "uninstalling")
    <3>1. PICK x \in Process : /\ command' = [command EXCEPT ![c] = x] /\ x.at = "uninstalling"
                               /\ x.exit = "none" /\ x.saw = command[c].saw
      BY <1>1, <2>3, OnToIs DEF Places
    <3>2. /\ command'[c] = x /\ \A d \in Commands \ {c} : command'[d] = command[d]
          /\ command' \in [Commands -> Process]
      BY <1>1, <3>1 DEF BootTypes
    <3>3. KeysOK'
      BY <1>1, <2>1, <3>1, KeysStay
    <3>4. BootTypes' /\ TokenOK' /\ SignInOK'
      BY <1>1, <2>1, <3>2 DEF BootInv, BootTypes, TokenOK, SignInOK
    <3>5. \A d \in Commands : PassOK(d)'
      BY <1>1, <2>1, <3>1, <3>2 DEF PassOK, SawBehind, BootInv
    <3>6. RowsOK'
      BY <1>1, <2>1, <3>1, <3>2, BootNames, <1>2 DEF WatcherDone, Peace, InPlace, PutBack,
         BootInv, RowsOK
    <3>7. QED
      BY <3>3, <3>4, <3>5, <3>6 DEF BootInv
  <2>4. QED
    BY <2>1, <2>2, <2>3
<1>3. CASE ~(bundle.escalates /\ bundle.row.status = "ready" /\ bundle.row.version # bundle.image)
  <2>1. PICK refused \in BOOLEAN : refused = (bundle.row.status # "ready")
    OBVIOUS
  <2>2. PICK r : r = [bundle.row EXCEPT !.version = bundle.image]
    OBVIOUS
  <2>3. r \in PluginRow /\ r.version = bundle.image /\ r.status = bundle.row.status
    BY <1>1, <2>2 DEF PluginRow
  <2>4. CallOfCore(c, refused, r, "skills")
    BY <1>3, <2>1, <2>2, Zenon DEF Upgrades
  <2>5. refused /\ command[c].saw = bundle.row => bundle.row.status = "error"
    BY <1>1, <2>1 DEF SawBehind
  <2>6. QED
    BY <1>1, <2>1, <2>3, <2>4, <2>5, CallKeeps
<1>4. QED
  BY <1>2, <1>3

LEMMA UninstallsKeeps == ASSUME BootInv, NEW c \in Commands, Uninstalls(c) PROVE BootInv'
<1>1. /\ stage = "plugins" /\ command[c].at = "uninstalling" /\ SawBehind(c)
      /\ bundle.row \in PluginRow
  BY DEF Uninstalls, At, BootInv, BootTypes, PassOK
<1>2. PICK refused \in BOOLEAN : refused = (bundle.row.status = "none")
  OBVIOUS
<1>3. PICK r : r = [bundle.row EXCEPT !.status = "uninstalled"]
  OBVIOUS
<1>4. r \in PluginRow /\ r.status = "uninstalled"
  BY <1>1, <1>3 DEF PluginRow, Statuses
<1>5. CallOfCore(c, refused, r, "installing")
  BY <1>2, <1>3, Zenon DEF Uninstalls
<1>6. refused /\ command[c].saw = bundle.row => bundle.row.status = "error"
  BY <1>1, <1>2 DEF SawBehind
<1>7. QED
  BY <1>1, <1>4, <1>5, <1>6, CallKeeps

LEMMA InstallsKeeps == ASSUME BootInv, NEW c \in Commands, Installs(c) PROVE BootInv'
<1>1. /\ stage = "plugins" /\ command[c].at = "installing" /\ PassOK(c) /\ bundle.image \in 1..2
  BY DEF Installs, At, BootInv, BootTypes
<1>2. PICK refused \in BOOLEAN : refused = (bundle.row.status \notin {"none", "uninstalled"})
  OBVIOUS
<1>3. PICK r : r = [status |-> "installed", version |-> bundle.image]
  OBVIOUS
<1>4. r \in PluginRow /\ r.status = "installed" /\ r.version = bundle.image
  BY <1>1, <1>3 DEF PluginRow, Statuses
<1>5. CallOfCore(c, refused, r, "skills")
  BY <1>2, <1>3, Zenon DEF Installs
<1>6. refused /\ command[c].saw = bundle.row => bundle.row.status = "error"
  BY <1>1, <1>2 DEF PassOK, SawBehind
<1>7. QED
  BY <1>1, <1>4, <1>5, <1>6, CallKeeps

LEMMA AsksSkillsKeeps == ASSUME BootInv, NEW c \in Commands, AsksSkills(c) PROVE BootInv'
<1>1. /\ stage = "plugins" /\ command[c].at = "skills" /\ command[c].exit = "none"
      /\ UNCHANGED <<stage, bundle, board, token, signin, chronicle>>
      /\ BootTypes /\ library \in [company: BOOLEAN, skill: BOOLEAN] /\ command[c] \in Process
  BY DEF AsksSkills, At, BootInv, BootTypes, PassOK
<1>2. library' \in [company: BOOLEAN, skill: BOOLEAN]
  BY <1>1 DEF AsksSkills
<1>3. \/ IF c = "watch" THEN Exits(c, "ok") ELSE OnTo(c, "reporting")
      \/ command[c].tries # MaxTries - 1 /\ command' = [command EXCEPT ![c].tries = @ + 1]
  BY Zenon DEF AsksSkills
<1>4. CASE IF c = "watch" THEN Exits(c, "ok") ELSE OnTo(c, "reporting")
  BY <1>1, <1>4, ExitsIs, OnToIs, <1>2, CommandStep DEF Places
<1>5. CASE command[c].tries # MaxTries - 1 /\ command' = [command EXCEPT ![c].tries = @ + 1]
  <2>1. PICK x : x = [command[c] EXCEPT !.tries = @ + 1]
    OBVIOUS
  <2>2. x \in Process /\ x.at = "skills" /\ x.exit = "none"
    BY <1>1, <1>5, <2>1, BootNames DEF Process
  <2>3. command' = [command EXCEPT ![c] = x]
    BY <1>1, <1>5, <2>1 DEF BootTypes
  <2>4. QED
    BY <1>1, <1>2, <2>2, <2>3, CommandStep
<1>6. QED
  BY <1>3, <1>4, <1>5

LEMMA SkillsUnlistedKeeps == ASSUME BootInv, NEW c \in Commands, SkillsUnlisted(c) PROVE BootInv'
BY FailedIs, CommandStep DEF SkillsUnlisted, At, BootInv, BootTypes

LEMMA ReportsKeeps == ASSUME BootInv, NEW c \in Setups, Reports(c) PROVE BootInv'
BY BootNames, ExitsIs, CommandStep DEF Reports, At, BootInv, BootTypes

LEMMA WakesKeeps == BootInv /\ Wakes => BootInv'
<1>1. SUFFICES ASSUME BootInv, Wakes
               PROVE  BootInv'
  OBVIOUS
<1>2. /\ stage = "plugins" /\ command["watch"].at = "asleep" /\ command["watch"].exit = "none"
      /\ "watch" \in Commands
      /\ UNCHANGED <<stage, bundle, board, library, token, signin, chronicle>>
      /\ BootTypes /\ library \in [company: BOOLEAN, skill: BOOLEAN]
  BY <1>1, BootNames DEF Wakes, At, BootInv, BootTypes, PassOK
<1>3. PICK x \in Process : /\ command' = [command EXCEPT !["watch"] = x] /\ x.at = "health"
                           /\ x.exit = command["watch"].exit
  BY <1>1, <1>2, OnToIs DEF Wakes, Places
<1>4. QED
  BY <1>1, <1>2, <1>3, CommandStep

-----------------------------------------------------------------------------
(* Around the commands                                                       *)

\* The core or the operator moves the row, which is not about to be put back.
LEMMA RowMoves ==
    ASSUME BootInv, UNCHANGED <<stage, board, command, token, signin>>,
           library' \in [company: BOOLEAN, skill: BOOLEAN],
           bundle' \in [image: 1..2, escalates: BOOLEAN, row: PluginRow], bundle'.image = bundle.image,
           bundle'.row.version = bundle.row.version, bundle.row.status # "uninstalled",
           chronicle' \in Chronicle, chronicle'.seen = chronicle.seen, chronicle'.killed = chronicle.killed,
           chronicle'.blank = chronicle.blank, chronicle'.needless = chronicle.needless,
           chronicle'.early = chronicle.early,
           \/ chronicle'.byHand
           \/ /\ chronicle'.byHand = chronicle.byHand
              /\ bundle'.row.status \notin {"none", "uninstalled", "disabled"}
    PROVE  BootInv'
<1>1. BootTypes' /\ KeysOK' /\ TokenOK' /\ SignInOK'
  BY DEF BootInv, BootTypes, KeysOK, TokenOK, HasToken, SignInOK
<1>2. RowsOK'
  BY DEF BootInv, RowsOK, WatcherDone, Peace, InPlace, PutBack
<1>3. \A c \in Commands : PassOK(c)'
  BY DEF BootInv, PassOK, SawBehind
<1>4. QED
  BY <1>1, <1>2, <1>3 DEF BootInv

LEMMA ActivatesKeeps == BootInv /\ Activates => BootInv'
<1>1. SUFFICES ASSUME BootInv, Activates
               PROVE  BootInv'
  OBVIOUS
<1>2. /\ UNCHANGED <<stage, board, command, token, signin, chronicle>> /\ bundle.row.status = "installed"
      /\ bundle \in [image: 1..2, escalates: BOOLEAN, row: PluginRow] /\ chronicle \in Chronicle
      /\ library \in [company: BOOLEAN, skill: BOOLEAN]
  BY <1>1 DEF Activates, BootInv, BootTypes
<1>3. PICK status \in {"ready", "error"} : bundle' = [bundle EXCEPT !.row.status = status]
  BY <1>1 DEF Activates
<1>4. /\ bundle' \in [image: 1..2, escalates: BOOLEAN, row: PluginRow] /\ bundle'.image = bundle.image
      /\ bundle'.row.version = bundle.row.version /\ bundle'.row.status = status
  BY <1>2, <1>3 DEF PluginRow, Statuses
<1>5. library' \in [company: BOOLEAN, skill: BOOLEAN]
  BY <1>1, <1>2 DEF Activates
<1>6. QED
  BY <1>1, <1>2, <1>4, <1>5, RowMoves

LEMMA OperatorActsKeeps == BootInv /\ OperatorActs => BootInv'
<1>1. SUFFICES ASSUME BootInv, OperatorActs
               PROVE  BootInv'
  OBVIOUS
<1>2. /\ UNCHANGED <<stage, board, library, command, token, signin>>
      /\ bundle \in [image: 1..2, escalates: BOOLEAN, row: PluginRow] /\ chronicle \in Chronicle
      /\ library \in [company: BOOLEAN, skill: BOOLEAN]
      /\ chronicle' = [chronicle EXCEPT !.hands = @ + 1, !.byHand = TRUE]
  BY <1>1 DEF OperatorActs, BootInv, BootTypes
<1>3. PICK status \in {"disabled", "ready", "uninstalled"} :
         /\ bundle.row.status \in (CASE status = "ready" -> {"disabled"} [] status = "disabled" -> {"ready"}
                                     [] OTHER -> {"ready", "disabled", "installed", "error"})
         /\ bundle' = [bundle EXCEPT !.row.status = status]
  BY <1>1, Zenon DEF OperatorActs
<1>4. bundle.row.status # "uninstalled"
  BY <1>3
<1>5. /\ bundle' \in [image: 1..2, escalates: BOOLEAN, row: PluginRow] /\ bundle'.image = bundle.image
      /\ bundle'.row.version = bundle.row.version
  BY <1>2, <1>3 DEF PluginRow, Statuses
<1>6. /\ chronicle' \in Chronicle /\ chronicle'.seen = chronicle.seen /\ chronicle'.killed = chronicle.killed
      /\ chronicle'.blank = chronicle.blank /\ chronicle'.needless = chronicle.needless
      /\ chronicle'.early = chronicle.early /\ chronicle'.byHand
  <2>1. PICK h : h = chronicle.hands + 1
    OBVIOUS
  <2>2. chronicle.hands \in Nat
    BY <1>2 DEF Chronicle
  <2>3. h \in Nat
    BY <2>1, <2>2
  <2>4. chronicle' = [chronicle EXCEPT !.hands = h, !.byHand = TRUE]
    BY <1>2, <2>1
  <2>5. QED
    BY <1>2, <2>3, <2>4 DEF Chronicle
<1>7. QED
  BY <1>1, <1>2, <1>4, <1>5, <1>6, RowMoves

LEMMA SetupIsKilledKeeps == ASSUME BootInv, NEW c \in Setups, SetupIsKilled(c) PROVE BootInv'
<1>1. /\ stage = "plugins" /\ ~Over(c) /\ c \in Commands /\ c # "watch" /\ Exits(c, "failed")
      /\ chronicle' = [chronicle EXCEPT !.seen = @ \ {c}, !.killed = @ \/ command[c].at = "writing"]
      /\ UNCHANGED <<stage, bundle, board, library, token, signin>>
  BY BootNames DEF SetupIsKilled
<1>2. BootTypes /\ board \in BoardState /\ chronicle \in Chronicle /\ library \in [company: BOOLEAN, skill: BOOLEAN]
  BY DEF BootInv, BootTypes
<1>3. PICK x \in Process : command' = [command EXCEPT ![c] = x] /\ x.at = "exited" /\ x.exit = "failed"
  BY <1>1, <1>2, ExitsIs
<1>4. command'[c] = x /\ \A d \in Commands \ {c} : command'[d] = command[d]
  BY <1>1, <1>2, <1>3 DEF BootTypes
<1>5. /\ chronicle' \in Chronicle /\ chronicle'.seen = chronicle.seen \ {c}
      /\ chronicle'.killed = (chronicle.killed \/ command[c].at = "writing")
      /\ chronicle'.byHand = chronicle.byHand /\ chronicle'.early = chronicle.early
      /\ chronicle'.needless = chronicle.needless
  BY <1>1, <1>2 DEF Chronicle
<1>6. KeysOK'
  BY ZenonT(40), <1>1, <1>2, <1>3, <1>4, <1>5, BootNames DEF BootInv, KeysOK, Chronicle
<1>7. QED
  BY <1>1, <1>2, <1>3, <1>5, <1>6, CommandMoves DEF Over

LEMMA ContainerStartsKeeps == BootInv /\ ContainerStarts => BootInv'
<1>1. SUFFICES ASSUME BootInv, ContainerStarts
               PROVE  BootInv'
  OBVIOUS
<1>2. /\ stage = "plugins" /\ UNCHANGED <<stage, board, library, token, signin>>
      /\ command' = [c \in Commands |->
            IF c = "watch" THEN [NoCommand EXCEPT !.at = "health"]
            ELSE IF Over(c) THEN command[c] ELSE [NoCommand EXCEPT !.at = "exited", !.exit = "failed"]]
      /\ chronicle' = [chronicle EXCEPT !.starts = @ + 1, !.early = FALSE,
            !.seen = @ \ {c \in Setups : ~Over(c)},
            !.killed = @ \/ \E c \in Setups : command[c].at = "writing"]
  BY <1>1 DEF ContainerStarts
<1>3. /\ BootTypes /\ chronicle \in Chronicle /\ command \in [Commands -> Process]
      /\ bundle \in [image: 1..2, escalates: BOOLEAN, row: PluginRow]
  BY <1>1 DEF BootInv, BootTypes
<1>4. PICK image \in {bundle.image, 2}, escalates \in {FALSE, bundle.row.version > 0} :
         bundle' = [bundle EXCEPT !.image = image, !.escalates = escalates]
  BY <1>1 DEF ContainerStarts
<1>5. bundle' \in [image: 1..2, escalates: BOOLEAN, row: PluginRow] /\ bundle'.row = bundle.row
  <2>1. image \in 1..2
    BY <1>3
  <2>2. escalates \in BOOLEAN
    <3>1. (bundle.row.version > 0) \in BOOLEAN
      OBVIOUS
    <3>2. CASE escalates = FALSE
      BY <3>2
    <3>3. CASE escalates = (bundle.row.version > 0)
      BY <3>1, <3>3, Zenon
    <3>4. QED
      BY <3>2, <3>3, Zenon
  <2>3. QED
    BY <1>3, <1>4, <2>1, <2>2
<1>6. PICK x : x = [NoCommand EXCEPT !.at = "exited", !.exit = "failed"]
  OBVIOUS
<1>7. x \in Process /\ x.at = "exited"
  <2>1. NoCommand \in Process /\ "exited" \in Places
    BY NoCommandIs DEF Places
  <2>2. QED
    BY <1>6, <2>1 DEF Process
<1>8. PICK y : y = [NoCommand EXCEPT !.at = "health"]
  OBVIOUS
<1>9. y \in Process /\ y.at = "health" /\ y.exit = "none"
  BY <1>8, NoCommandIs DEF Places
<1>10. command' = [c \in Commands |-> IF c = "watch" THEN y ELSE IF Over(c) THEN command[c] ELSE x]
  BY <1>2, <1>6, <1>8
<1>11. /\ command' \in [Commands -> Process] /\ command'["watch"] = y
       /\ \A c \in Setups : command'[c] = IF Over(c) THEN command[c] ELSE x
       /\ \A c \in Setups : command'[c].at \in {"idle", "exited"}
  BY <1>3, <1>7, <1>9, <1>10, BootNames DEF Over
<1>12. /\ chronicle' \in Chronicle /\ chronicle'.seen = chronicle.seen \ {c \in Setups : ~Over(c)}
       /\ chronicle'.killed = (chronicle.killed \/ \E c \in Setups : command[c].at = "writing")
       /\ chronicle'.byHand = chronicle.byHand /\ chronicle'.needless = chronicle.needless
  <2>1. PICK n : n = chronicle.starts + 1
    OBVIOUS
  <2>2. PICK seen : seen = chronicle.seen \ {c \in Setups : ~Over(c)}
    OBVIOUS
  <2>3. PICK killed \in BOOLEAN : killed = (chronicle.killed \/ \E c \in Setups : command[c].at = "writing")
    BY <1>3 DEF Chronicle
  <2>4. chronicle.starts \in Nat /\ chronicle.seen \subseteq Setups
    BY <1>3 DEF Chronicle
  <2>5. n \in Nat /\ seen \subseteq Setups
    BY <2>1, <2>2, <2>4
  <2>6. chronicle' = [chronicle EXCEPT !.starts = n, !.early = FALSE, !.seen = seen, !.killed = killed]
    BY <1>2, <2>1, <2>2, <2>3, Zenon
  <2>7. /\ chronicle' \in Chronicle /\ chronicle'.seen = seen /\ chronicle'.killed = killed
        /\ chronicle'.byHand = chronicle.byHand /\ chronicle'.needless = chronicle.needless
    BY <1>3, <2>5, <2>6 DEF Chronicle
  <2>8. QED
    BY <2>2, <2>3, <2>7
<1>13. BootTypes' /\ TokenOK' /\ SignInOK'
  BY <1>1, <1>2, <1>5, <1>11, <1>12 DEF BootInv, BootTypes, TokenOK, SignInOK
<1>14. \A c \in Commands : PassOK(c)'
  BY <1>9, <1>11, <1>1, <1>7, BootNames DEF PassOK, BootInv, Commands
<1>15. RowsOK'
  BY <1>1, <1>5, <1>9, <1>11, <1>12 DEF BootInv, RowsOK, WatcherDone
<1>16. KeysOK'
  BY <1>1, <1>3, <1>12, <1>2, <1>11 DEF BootInv, KeysOK, Over, Chronicle
<1>17. QED
  BY <1>13, <1>14, <1>15, <1>16 DEF BootInv

-----------------------------------------------------------------------------
(* The rules token and the sign-in                                           *)

LEMMA TokenMoves ==
    ASSUME BootInv, stage = "token", UNCHANGED <<stage, bundle, board, library, signin>>,
           NEW c \in Commands, NEW x \in Process, command' = [command EXCEPT ![c] = x],
           command[c].at \in {"idle", "placing", "rereading"}, x.at \in {"placing", "rereading", "exited"},
           x.exit = "none", chronicle' \in Chronicle, chronicle'.seen = chronicle.seen,
           chronicle'.killed = chronicle.killed, chronicle'.byHand = chronicle.byHand,
           chronicle'.needless = chronicle.needless, token' \in Commands \cup {NoKey, "blank"}, TokenOK'
    PROVE  BootInv'
<1>1. /\ command'[c] = x /\ \A d \in Commands \ {c} : command'[d] = command[d]
      /\ command' \in [Commands -> Process]
  BY DEF BootInv, BootTypes
<1>2. BootTypes' /\ SignInOK'
  BY <1>1 DEF BootInv, BootTypes, SignInOK
<1>3. KeysOK'
  BY KeysStay
<1>4. RowsOK'
  BY DEF BootInv, RowsOK
<1>5. \A d \in Commands : PassOK(d)'
  BY <1>1 DEF BootInv, PassOK, SawBehind
<1>6. QED
  BY <1>2, <1>3, <1>4, <1>5 DEF BootInv

LEMMA ReadsTokenKeeps == ASSUME BootInv, NEW c \in Commands, ReadsToken(c) PROVE BootInv'
<1>1. /\ stage = "token" /\ command[c].at = "idle" /\ chronicle \in Chronicle
      /\ UNCHANGED <<stage, bundle, board, library, token, signin, chronicle>>
      /\ token \in Commands \cup {NoKey, "blank"}
  BY DEF ReadsToken, TokenIs, BootInv, BootTypes
<1>2. PICK at \in {"placing", "exited"} : at = IF token \in {NoKey, "blank"} THEN "placing" ELSE "exited"
  OBVIOUS
<1>3. PICK x : x = [NoCommand EXCEPT !.at = at, !.mine = token]
  OBVIOUS
<1>4. x \in Process /\ x.at = at /\ x.mine = token /\ x.exit = "none"
  <2>1. NoCommand \in Process /\ NoCommand.exit = "none" /\ at \in Places
    BY NoCommandIs DEF Places
  <2>2. QED
    BY <1>1, <1>3, <2>1 DEF Process
<1>5. command' = [command EXCEPT ![c] = x]
  BY <1>2, <1>3, Zenon DEF ReadsToken
<1>6. command'[c] = x /\ \A d \in Commands \ {c} : command'[d] = command[d]
  BY <1>5 DEF BootInv, BootTypes
<1>7. TokenOK'
  BY <1>1, <1>6, BootNames, <1>2, <1>4 DEF BootInv, TokenOK, HasToken, NoKey
<1>8. QED
  BY <1>1, <1>2, <1>4, <1>5, <1>7, TokenMoves

LEMMA PlacesTokenKeeps == ASSUME BootInv, NEW c \in Commands, PlacesToken(c) PROVE BootInv'
<1>1. /\ stage = "token" /\ command[c].at = "placing" /\ chronicle \in Chronicle /\ command[c].exit = "none"
      /\ UNCHANGED <<stage, bundle, board, library, signin>> /\ BootTypes
      /\ token' = IF command[c].mine = "blank" \/ token = NoKey THEN c ELSE token
      /\ chronicle' = [chronicle EXCEPT !.blank = @ \/ command[c].mine = "blank"]
      /\ token \in Commands \cup {NoKey, "blank"}
  BY DEF PlacesToken, TokenIs, BootInv, BootTypes, PassOK
<1>2. PICK x \in Process : /\ command' = [command EXCEPT ![c] = x] /\ x.at = "rereading"
                           /\ x.exit = command[c].exit /\ x.mine = command[c].mine
  BY <1>1, OnToIs DEF PlacesToken, Places
<1>3. command'[c] = x /\ \A d \in Commands \ {c} : command'[d] = command[d]
  BY <1>2 DEF BootInv, BootTypes
<1>4. /\ chronicle' \in Chronicle /\ chronicle'.seen = chronicle.seen /\ chronicle'.killed = chronicle.killed
      /\ chronicle'.byHand = chronicle.byHand /\ chronicle'.needless = chronicle.needless
      /\ chronicle'.blank = (chronicle.blank \/ command[c].mine = "blank")
  BY <1>1 DEF Chronicle
<1>5. TokenOK'
  <2>1. c \notin {NoKey, "blank"}
    BY BootNames
  <2>2. token' # "blank" \/ (token = "blank" /\ command[c].mine # "blank")
    BY <1>1, <2>1
  <2>3. command[c].mine \in {NoKey, "blank"} /\ (command[c].mine = NoKey => token # "blank")
    BY <1>1 DEF BootInv, TokenOK
  <2>4. token' \notin {"blank", NoKey} /\ (HasToken => token' = token \/ command[c].mine = "blank")
    BY <1>1, <2>1, <2>2, <2>3 DEF HasToken
  <2>5. ASSUME NEW d \in Commands \ {c}
        PROVE  /\ command'[d].at \in {"idle", "placing", "rereading", "exited"}
               /\ command'[d].at = "placing" => /\ command'[d].mine \in {NoKey, "blank"}
                                                /\ command'[d].mine = NoKey => token' # "blank"
               /\ ~chronicle'.blank /\ command'[d].at = "rereading" => HasToken'
               /\ ~chronicle'.blank /\ command'[d].at = "exited" => HasToken' /\ command'[d].mine = token'
    BY <1>1, <1>3, <1>4, <2>4 DEF BootInv, TokenOK, HasToken
  <2>6. QED
    BY <1>2, <1>3, <2>4, <2>5 DEF TokenOK, HasToken
<1>6. token' \in Commands \cup {NoKey, "blank"}
  BY <1>1
<1>7. QED
  BY <1>1, <1>2, <1>4, <1>5, <1>6, TokenMoves

LEMMA RereadsTokenKeeps == ASSUME BootInv, NEW c \in Commands, RereadsToken(c) PROVE BootInv'
<1>1. /\ stage = "token" /\ command[c].at = "rereading" /\ chronicle \in Chronicle /\ command[c].exit = "none"
      /\ UNCHANGED <<stage, bundle, board, library, token, signin, chronicle>>
      /\ command' = [command EXCEPT ![c].at = "exited", ![c].mine = token]
      /\ token \in Commands \cup {NoKey, "blank"} /\ command \in [Commands -> Process]
  BY DEF RereadsToken, TokenIs, BootInv, BootTypes, PassOK
<1>2. PICK x : x = [command[c] EXCEPT !.at = "exited", !.mine = token]
  OBVIOUS
<1>3. x \in Process /\ x.at = "exited" /\ x.mine = token /\ x.exit = "none"
  BY <1>1, <1>2 DEF Process, Places
<1>4. command' = [command EXCEPT ![c] = x]
  BY <1>1, <1>2
<1>5. command'[c] = x /\ \A d \in Commands \ {c} : command'[d] = command[d]
  BY <1>1, <1>4
<1>6. TokenOK'
  BY <1>1, <1>3, <1>5 DEF BootInv, TokenOK, HasToken
<1>7. QED
  BY <1>1, <1>3, <1>4, <1>6, TokenMoves

\* A step of the sign-in that leaves no copy of the screen where none may be.
LEMMA SignsMove ==
    ASSUME BootInv, NEW s \in SignIn, signin' = s,
           s.at \in {"idle", "asking", "saving", "exited"} => s.copy \in {"none", "gone"},
           UNCHANGED <<stage, bundle, board, library, command, token, chronicle>>
    PROVE  BootInv'
<1>1. BootTypes' /\ KeysOK' /\ TokenOK' /\ SignInOK'
  BY DEF BootInv, BootTypes, KeysOK, TokenOK, HasToken, SignInOK
<1>2. RowsOK' /\ \A c \in Commands : PassOK(c)'
  BY DEF BootInv, RowsOK, WatcherDone, Peace, InPlace, PutBack, PassOK, SawBehind
<1>3. QED
  BY <1>1, <1>2 DEF BootInv

SignInSteps ==
    \/ ConnectStarts \/ ClaudePrints \/ ClaudeEnds \/ ReadsCopy \/ RemovesCopy \/ PersonTypes
    \/ SavesCredentials \/ Interrupt \/ HangsUp \/ FolderExpires

LEMMA SignInKeeps == BootInv /\ SignInSteps => BootInv'
<1>1. SUFFICES ASSUME BootInv, SignInSteps
               PROVE  BootInv'
  OBVIOUS
<1>2. signin \in SignIn /\ SignInOK
  BY <1>1 DEF BootInv, BootTypes
<1>3. UNCHANGED <<stage, bundle, board, library, command, token, chronicle>>
  BY <1>1 DEF SignInSteps, ConnectStarts, ClaudePrints, ClaudeEnds, ReadsCopy, RemovesCopy, PersonTypes,
     SavesCredentials, Interrupt, HangsUp, FolderExpires, SignsOn
<1>4. CASE ConnectStarts
  <2>1. PICK at \in {"running", "exited"}, copy \in {"empty", signin.copy} :
           signin' = [signin EXCEPT !.at = at, !.copy = copy] /\ signin.at = "idle"
           /\ (at = "exited" => copy = signin.copy)
    BY <1>4, <1>2 DEF ConnectStarts, Signs, SignsOn, SignIn
  <2>2. PICK s : s = [signin EXCEPT !.at = at, !.copy = copy]
    OBVIOUS
  <2>3. s \in SignIn /\ s.at = at /\ s.copy = copy
    BY <1>2, <2>2 DEF SignIn
  <2>4. QED
    BY <1>1, <1>2, <1>3, <2>1, <2>2, <2>3, SignsMove DEF SignInOK
<1>5. CASE ClaudePrints
  BY <1>5, <1>2, <1>1, <1>3, SignsMove DEF ClaudePrints, Signs, SignsOn, SignIn, SignInOK
<1>6. CASE ClaudeEnds
  <2>1. PICK well \in BOOLEAN : signin' = [signin EXCEPT !.at = "reading", !.well = well]
    BY <1>6 DEF ClaudeEnds, SignsOn
  <2>2. PICK s : s = [signin EXCEPT !.at = "reading", !.well = well]
    OBVIOUS
  <2>3. s \in SignIn /\ s.at = "reading"
    BY <1>2, <2>2 DEF SignIn
  <2>4. QED
    BY <1>1, <1>3, <2>1, <2>2, <2>3, SignsMove
<1>7. CASE ReadsCopy
  <2>1. PICK s : s = [signin EXCEPT !.at = "removing", !.read = signin.copy]
    OBVIOUS
  <2>2. signin' = s
    BY <1>7, <2>1 DEF ReadsCopy, SignsOn
  <2>3. s \in SignIn /\ s.at = "removing"
    BY <1>2, <2>1 DEF SignIn
  <2>4. QED
    BY <1>1, <1>3, <2>2, <2>3, SignsMove
<1>8. CASE RemovesCopy
  <2>0. PICK at : at = CASE ~signin.well \/ (signin.interrupted /\ signin.read # "token") -> "exited"
                         [] signin.well /\ signin.read = "token" -> "saving"
                         [] OTHER -> "asking"
    OBVIOUS
  <2>1. at \in {"exited", "saving", "asking"}
    BY <2>0
  <2>2. PICK s : s = [signin EXCEPT !.copy = "gone", !.at = at]
    OBVIOUS
  <2>3. signin' = s
    BY <1>8, <2>0, <2>2, Zenon DEF RemovesCopy, SignsOn
  <2>4. s \in SignIn /\ s.copy = "gone"
    BY <1>2, <2>1, <2>2 DEF SignIn
  <2>5. QED
    BY <1>1, <1>3, <2>3, <2>4, SignsMove
<1>9. CASE PersonTypes
  BY <1>9, <1>2, <1>1, <1>3, SignsMove DEF PersonTypes, Signs, SignsOn, SignIn, SignInOK
<1>10. CASE SavesCredentials
  <2>1. PICK saved \in {"none", "token"} : saved = IF signin.folder THEN "token" ELSE signin.saved
    BY <1>2 DEF SignIn
  <2>2. PICK s : s = [signin EXCEPT !.at = "exited", !.saved = saved]
    OBVIOUS
  <2>3. s \in SignIn /\ s.copy = signin.copy
    BY <1>2, <2>2 DEF SignIn
  <2>4. signin' = s /\ signin.at = "saving"
    BY <1>10, <2>1, <2>2 DEF SavesCredentials, Signs, SignsOn
  <2>5. QED
    BY <1>1, <1>2, <1>3, <2>3, <2>4, SignsMove DEF SignInOK
<1>11. CASE Interrupt
  <2>1. PICK s : s = [signin EXCEPT !.interrupted = TRUE]
    OBVIOUS
  <2>2. signin' = s /\ signin.at = "running"
    BY <1>11, <2>1 DEF Interrupt, Signs, SignsOn
  <2>3. s \in SignIn /\ s.at = signin.at
    BY <1>2, <2>1 DEF SignIn
  <2>4. QED
    BY <1>1, <1>2, <1>3, <2>2, <2>3, SignsMove DEF SignInOK
<1>12. CASE HangsUp
  <2>1. PICK s : s = [signin EXCEPT !.at = "exited", !.copy = "gone"]
    OBVIOUS
  <2>2. signin' = s /\ signin.at # "idle"
    BY <1>12, <2>1 DEF HangsUp, Signs, SignsOn
  <2>3. s \in SignIn /\ s.copy = "gone"
    BY <1>2, <2>1 DEF SignIn
  <2>4. QED
    BY <1>1, <1>2, <1>3, <2>2, <2>3, SignsMove DEF SignInOK
<1>13. CASE FolderExpires
  <2>1. PICK s : s = [signin EXCEPT !.folder = FALSE, !.copy = "gone", !.saved = "none"]
    OBVIOUS
  <2>2. signin' = s /\ signin.folder
    BY <1>13, <2>1 DEF FolderExpires, Signs, SignsOn
  <2>3. s \in SignIn /\ s.copy = "gone"
    BY <1>2, <2>1 DEF SignIn
  <2>4. QED
    BY <1>1, <1>2, <1>3, <2>2, <2>3, SignsMove DEF SignInOK
<1>14. QED
  BY <1>1, <1>4, <1>5, <1>6, <1>7, <1>8, <1>9, <1>10, <1>11, <1>12, <1>13 DEF SignInSteps

LEMMA BootKeeps == BootInv /\ [BootstrapNext]_bootVars => BootInv'
<1>1. SUFFICES ASSUME BootInv, [BootstrapNext]_bootVars
               PROVE  BootInv'
  OBVIOUS
<1>2. ASSUME NEW c \in Setups,
             \/ SetupStarts(c) \/ Answers(c) \/ PollsLogin(c) \/ WhoAmI(c) \/ OpensKey(c) \/ WritesKey(c)
             \/ Reports(c) \/ SetupIsKilled(c)
      PROVE  BootInv'
  BY <1>1, <1>2, SetupStartsKeeps, AnswersKeeps, PollsLoginKeeps, WhoAmIKeeps, OpensKeyKeeps, WritesKeyKeeps,
     ReportsKeeps, SetupIsKilledKeeps
<1>3. ASSUME NEW c \in Commands,
             \/ ReadsKey(c) \/ ListsPlugins(c) \/ Upgrades(c) \/ Uninstalls(c) \/ Installs(c)
             \/ AsksSkills(c) \/ SkillsUnlisted(c) \/ ReadsToken(c) \/ PlacesToken(c) \/ RereadsToken(c)
      PROVE  BootInv'
  BY <1>1, <1>3, ReadsKeyKeeps, ListsPluginsKeeps, UpgradesKeeps, UninstallsKeeps, InstallsKeeps, AsksSkillsKeeps,
     SkillsUnlistedKeeps, ReadsTokenKeeps, PlacesTokenKeeps, RereadsTokenKeeps
<1>4. CASE PersonSignsUp \/ Wakes \/ Activates \/ OperatorActs \/ ContainerStarts \/ SignInSteps
  BY <1>1, <1>4, PersonSignsUpKeeps, WakesKeeps, ActivatesKeeps, OperatorActsKeeps, ContainerStartsKeeps, SignInKeeps
<1>5. CASE UNCHANGED bootVars
  BY <1>5, <1>1, SignsMove DEF bootVars, BootInv, BootTypes, SignInOK
<1>6. QED
  BY <1>1, <1>2, <1>3, <1>4, <1>5, Zenon DEF BootstrapNext, SignInSteps

-----------------------------------------------------------------------------
(* Files                                                                   *)


RoleSteps == {"settings", "asking", "joined", "answering"}
FileSteps == {"asked", "stated", "answered", "checked", "written"}
Folders   == {"top", "inner"}
Moment    == 0..MaxMoment
VisitState ==
    [at: {"idle"} \cup RoleSteps \cup FileSteps,
     kind: {"none", "read", "stat", "write", "create", "mkdir", "upload", "rename", "delete", "list"},
     need: {"read", "write"}, began: Moment, asked: Moment, role: Roles \cup {"none"},
     joins: Visits \cup {"none"}, path: Paths \cup Folders \cup {"none"}, to: Paths \cup {"none"},
     base: 0..MaxStamp, force: BOOLEAN, text: Nat, mtime: 0..MaxStamp, mount: Int,
     result: {"none", "ok", "refused", "not_found", "conflict"}]
CacheState == [kind: {"none"}] \cup [kind: {"pending"}, by: Visits] \cup [kind: {"entry"}, role: Roles, at: Moment]
MemberState == [role: Roles, now: Moment, cache: CacheState, held: [Roles -> Int]]
EntryState == [kind: {"none", "file", "dir"}, text: Nat, mtime: 0..MaxStamp, born: SUBSET Visits, moved: BOOLEAN]
ViewState == [path: Paths \cup {"none"}, mtime: 0..MaxStamp, text: Nat, draft: Nat, open: BOOLEAN,
              saving: BOOLEAN, conflict: BOOLEAN, changed: BOOLEAN, mount: Nat]
BrowserState == [dir: Folders, listing: Folders \cup {"none"}, error: BOOLEAN, turn: Nat, there: BOOLEAN]
VisitedState == [begun: Nat, stamp: 0..MaxStamp, typed: Nat, stale: BOOLEAN, lost: BOOLEAN, replaced: BOOLEAN,
                 seen: SUBSET Nat]

FilesTypes ==
    /\ surface \in {"roles", "edit", "browse"}
    /\ member \in MemberState /\ disk \in [Paths -> EntryState] /\ viewer \in ViewState
    /\ browser \in BrowserState /\ visit \in [Visits -> VisitState] /\ visited \in VisitedState

\* What a call is about, and where it may be, by what the behaviour is about.
PlaceOK(c) ==
    visit[c].at # "idle" =>
        CASE surface = "roles" -> visit[c].at \in RoleSteps
          [] surface = "edit" -> visit[c].at \in FileSteps
          [] OTHER -> visit[c].at \in {"asked", "answered"} /\ visit[c].kind = "list"

\* The role now has been held until now; a role listed has been held since it was asked for,
\* which is not longer ago than the host waits.
RoleVisitOK(c) ==
    LET v == visit[c] IN
    /\ v.at \in RoleSteps /\ v.need = "write" => v.began <= member.now
    /\ v.at \in {"asking", "answering"} =>
          /\ v.asked <= member.now /\ member.now - v.asked <= RoleTimeout
          /\ v.need = "write" => v.began <= v.asked
    /\ v.at = "answering" => v.role \in Roles /\ member.held[v.role] >= v.asked
    /\ v.at = "joined" => /\ v.need = "read" /\ v.joins \in Visits
                          /\ visit[v.joins].at \in {"asking", "answering"}
RolesHeld ==
    /\ member.held[member.role] = member.now
    /\ member.cache.kind = "pending" => visit[member.cache.by].at \in {"asking", "answering"}
    /\ member.cache.kind = "entry" =>
          member.cache.at <= member.now /\ member.held[member.cache.role] >= member.cache.at - RoleTimeout
    /\ surface # "roles" => member.cache.kind = "none"

\* An entry of that stamp that nobody moved, or wrote within another operation, has that text.
Plain(path) == disk[path].kind = "file" /\ ~disk[path].moved /\ disk[path].born = {}
Says(path, mtime, text) == Plain(path) /\ disk[path].mtime = mtime => disk[path].text = text

\* What a save may replace has been seen, and what it wrote is what it will tell of.
SaveOK(c) ==
    LET v == visit[c] IN
    /\ v.at = "asked" /\ ~v.force =>
          (Plain(v.path) /\ disk[v.path].mtime = v.base => disk[v.path].text \in visited.seen)
    /\ v.at = "checked" /\ ~v.force => (Plain(v.path) => disk[v.path].text \in visited.seen)
    /\ v.at = "written" => v.text \in visited.seen /\ (Plain(v.path) => disk[v.path].text = v.text)
    /\ v.at = "answered" /\ v.result = "ok" => v.text \in visited.seen /\ Says(v.path, v.mtime, v.text)
\* Nothing stands where a new entry goes, but what came there since the look.
NewOK(c, path) == visit[c].at = "checked" /\ ~visit[c].force => disk[path].kind = "none" \/ c \in disk[path].born
FileVisitOK(c) ==
    LET v == visit[c] IN
    surface = "edit" /\ v.at # "idle" =>
        /\ v.path \in Paths /\ v.mtime <= visited.stamp /\ v.base <= visited.stamp
        /\ v.mount <= viewer.mount /\ (v.mount = viewer.mount => v.path = viewer.path)
        /\ v.kind = "read" /\ v.at = "answered" /\ v.result = "ok" => Says(v.path, v.mtime, v.text)
        /\ v.kind = "write" => SaveOK(c)
        /\ v.kind \in {"create", "mkdir", "upload"} => NewOK(c, v.path)
        /\ v.kind = "rename" => v.to \in Paths /\ NewOK(c, v.to)
DiskOK == \A p \in Paths : disk[p].mtime <= visited.stamp
ViewerOK ==
    /\ viewer.mtime <= visited.stamp
    /\ viewer.open => /\ surface = "edit" /\ viewer.path \in Paths /\ viewer.text \in visited.seen
                      /\ Says(viewer.path, viewer.mtime, viewer.text)

\* The listing under way for the folder shown is of that folder.
ListVisitOK(c) ==
    surface = "browse" /\ visit[c].at # "idle" =>
        /\ visit[c].mount <= browser.turn
        /\ visit[c].mount = browser.turn => visit[c].path = browser.dir
BrowserOK == surface # "browse" => browser.listing = "none"
IdleOK(c) == visit[c].at = "idle" => visit[c].kind = "none"

FilesInv ==
    /\ FilesTypes /\ RolesHeld /\ DiskOK /\ ViewerOK /\ BrowserOK /\ ListingIsOfTheFolder
    /\ \A c \in Visits : PlaceOK(c) /\ IdleOK(c) /\ RoleVisitOK(c) /\ FileVisitOK(c) /\ ListVisitOK(c)
    /\ ~visited.stale /\ NothingIsLostUnasked

LEMMA FilesHolds ==
    ASSUME FilesInv
    PROVE  FilesTypeOK /\ RolesAreRecent /\ NothingIsLostUnasked /\ PageShowsTheFile /\ ListingIsOfTheFolder
<1>1. FilesTypeOK
  BY DEF FilesInv, FilesTypes, FilesTypeOK, MemberState, EntryState, ViewState, BrowserState, Moment, Folders
<1>2. RolesAreRecent
  BY DEF FilesInv, RolesHeld, RoleVisitOK, RolesAreRecent
<1>3. PageShowsTheFile
  BY DEF FilesInv, ViewerOK, PageShowsTheFile, Says, Plain
<1>4. QED
  BY <1>1, <1>2, <1>3 DEF FilesInv

LEMMA NoVisitIs ==
    /\ NoVisit \in VisitState /\ NoVisit.at = "idle" /\ NoVisit.kind = "none" /\ NoVisit.mount = 0
    /\ 0 \in Moment /\ 0 \in 0..MaxStamp
BY FilesAssumption DEF NoVisit, VisitState, Moment

LEMMA VisitIs ==
    ASSUME FilesInv, NEW c \in Visits, NEW x \in VisitState, visit' = [visit EXCEPT ![c] = x]
    PROVE  /\ visit'[c] = x /\ \A d \in Visits \ {c} : visit'[d] = visit[d]
           /\ visit' \in [Visits -> VisitState]
BY DEF FilesInv, FilesTypes

LEMMA FilesStart == FilesInit => FilesInv
<1>1. SUFFICES ASSUME FilesInit
               PROVE  FilesInv
  OBVIOUS
<1>2. /\ surface \in {"roles", "edit", "browse"}
      /\ member = [role |-> "member", now |-> 0, cache |-> [kind |-> "none"],
                   held |-> [r \in Roles |-> IF r = "member" THEN 0 ELSE -(RoleCacheMs + RoleTimeout)]]
      /\ disk = [p \in Paths |-> Gone]
      /\ viewer = Unmounted
      /\ visit = [c \in Visits |-> NoVisit]
      /\ browser = [dir |-> "top", listing |-> "none", error |-> FALSE, turn |-> 0, there |-> TRUE]
      /\ visited = [begun |-> 0, stamp |-> 0, typed |-> 0, stale |-> FALSE, lost |-> FALSE, replaced |-> FALSE,
                    seen |-> {}]
  BY <1>1, Zenon DEF FilesInit
<1>3. /\ member.cache.kind = "none" /\ member.held[member.role] = member.now
      /\ member \in MemberState
  BY FilesAssumption, <1>2, NoVisitIs DEF Roles, CacheState, MemberState
<1>4. /\ disk \in [Paths -> EntryState] /\ \A p \in Paths : disk[p].mtime = 0
  BY NoVisitIs, <1>2 DEF Gone, EntryState
<1>5. viewer \in ViewState /\ ~viewer.open /\ viewer.mtime = 0
  BY <1>2, NoVisitIs DEF Unmounted, ViewState
<1>6. visit \in [Visits -> VisitState] /\ \A c \in Visits : visit[c].at = "idle" /\ visit[c].kind = "none"
  BY <1>2, NoVisitIs
<1>7. browser \in BrowserState /\ browser.listing = "none"
  BY <1>2 DEF BrowserState, Folders
<1>8. /\ visited \in VisitedState /\ visited.stamp = 0 /\ ~visited.stale /\ ~visited.lost /\ ~visited.replaced
  BY <1>2, NoVisitIs DEF VisitedState
<1>9. FilesTypes
  BY <1>2, <1>3, <1>4, <1>5, <1>6, <1>7, <1>8 DEF FilesTypes
<1>10. RolesHeld /\ DiskOK /\ ViewerOK /\ BrowserOK /\ ListingIsOfTheFolder /\ NothingIsLostUnasked
  BY <1>3, <1>4, <1>5, <1>7, <1>8 DEF RolesHeld, DiskOK, ViewerOK, BrowserOK, ListingIsOfTheFolder, NothingIsLostUnasked
<1>11. \A c \in Visits : PlaceOK(c) /\ IdleOK(c) /\ RoleVisitOK(c) /\ FileVisitOK(c) /\ ListVisitOK(c)
  BY <1>6 DEF PlaceOK, IdleOK, RoleVisitOK, FileVisitOK, ListVisitOK, RoleSteps
<1>12. QED
  BY <1>8, <1>9, <1>10, <1>11 DEF FilesInv

-----------------------------------------------------------------------------
(* Roles                                                                     *)

\* Steps of the checks change nothing of the files or the folder shown.
LEMMA RolesMove ==
    ASSUME FilesInv, surface = "roles", UNCHANGED <<surface, disk, viewer, browser>>,
           member' \in MemberState, visit' \in [Visits -> VisitState], visited' \in VisitedState,
           visited'.stamp = visited.stamp, visited'.seen = visited.seen, visited'.lost = visited.lost,
           visited'.replaced = visited.replaced, ~visited'.stale, RolesHeld',
           \A c \in Visits : visit'[c].at \in {"idle"} \cup RoleSteps /\ IdleOK(c)' /\ RoleVisitOK(c)'
    PROVE  FilesInv'
<1>1. FilesTypes'
  BY DEF FilesInv, FilesTypes
<1>2. DiskOK' /\ ViewerOK' /\ BrowserOK' /\ NothingIsLostUnasked'
  BY DEF FilesInv, DiskOK, ViewerOK, BrowserOK, NothingIsLostUnasked
<1>3. ListingIsOfTheFolder'
  BY <1>2 DEF ListingIsOfTheFolder, BrowserOK
<1>4. \A c \in Visits : PlaceOK(c)' /\ FileVisitOK(c)' /\ ListVisitOK(c)'
  BY DEF PlaceOK, FileVisitOK, ListVisitOK
<1>5. QED
  BY <1>1, <1>2, <1>3, <1>4 DEF FilesInv

\* A step of one check that asks or has asked goes on asking.
LEMMA RoleStep ==
    ASSUME FilesInv, surface = "roles", UNCHANGED <<surface, disk, viewer, browser>>,
           NEW c \in Visits, NEW x \in VisitState, visit' = [visit EXCEPT ![c] = x],
           member' \in MemberState, member'.now = member.now, member'.held = member.held, member'.role = member.role,
           visited' \in VisitedState,
           visited'.stamp = visited.stamp, visited'.seen = visited.seen, visited'.lost = visited.lost,
           visited'.replaced = visited.replaced, ~visited'.stale,
           x.at \in {"idle"} \cup RoleSteps, x.at = "idle" => x.kind = "none",
           visit[c].at \in {"asking", "answering"} => x.at \in {"asking", "answering"},
           RoleVisitOK(c)',
           \/ member'.cache = member.cache
           \/ member'.cache.kind = "pending" /\ member'.cache.by = c /\ x.at \in {"asking", "answering"}
    PROVE  FilesInv'
<1>1. /\ visit'[c] = x /\ \A d \in Visits \ {c} : visit'[d] = visit[d]
      /\ visit' \in [Visits -> VisitState]
  BY VisitIs
<1>2. ASSUME NEW d \in Visits \ {c}
      PROVE  RoleVisitOK(d)'
  BY <1>1 DEF FilesInv, RoleVisitOK
<1>3. ASSUME NEW d \in Visits
      PROVE  visit'[d].at \in {"idle"} \cup RoleSteps /\ IdleOK(d)'
  BY <1>1 DEF FilesInv, PlaceOK, IdleOK
<1>4. RolesHeld'
  BY <1>1 DEF FilesInv, FilesTypes, MemberState, CacheState, RolesHeld
<1>5. QED
  BY <1>1, <1>2, <1>3, <1>4, RolesMove

\* What the numbers of a check are.
LEMMA MemberIs ==
    ASSUME FilesInv
    PROVE  /\ member.now \in Nat /\ member.now \in Moment /\ member.role \in Roles
           /\ \A r \in Roles : member.held[r] \in Int
           /\ \A c \in Visits : visit[c].asked \in Nat /\ visit[c].began \in Nat
           /\ visited \in VisitedState /\ member \in MemberState /\ visit \in [Visits -> VisitState]
BY FilesAssumption DEF FilesInv, FilesTypes, Moment, MemberState, VisitState

LEMMA BegunIs ==
    ASSUME FilesInv, visited' = [visited EXCEPT !.begun = @ + 1]
    PROVE  /\ visited' \in VisitedState /\ visited'.stamp = visited.stamp /\ visited'.seen = visited.seen
           /\ visited'.lost = visited.lost /\ visited'.replaced = visited.replaced /\ ~visited'.stale
BY MemberIs DEF VisitedState, FilesInv

LEMMA VisitKeeps == ASSUME FilesInv, NEW c \in Visits, NEW need \in {"read", "write"}, Visit(c, need) PROVE FilesInv'
<1>1. /\ surface = "roles" /\ visit[c].at = "idle" /\ UNCHANGED <<surface, member, disk, viewer, browser>>
      /\ visited' = [visited EXCEPT !.begun = @ + 1]
  BY DEF Visit, Begins
<1>2. PICK began \in Moment : began = IF need = "write" THEN member.now ELSE 0
  BY MemberIs, NoVisitIs
<1>3. PICK x : x = [NoVisit EXCEPT !.at = "settings", !.need = need, !.began = began]
  OBVIOUS
<1>4. x \in VisitState /\ x.at = "settings" /\ x.need = need /\ x.began = began
  <2>1. "settings" \in {"idle"} \cup RoleSteps \cup FileSteps
    BY DEF RoleSteps
  <2>2. QED
    BY ZenonT(40), <1>3, <2>1, NoVisitIs DEF VisitState
<1>5. visit' = [visit EXCEPT ![c] = x]
  BY <1>2, <1>3, Zenon DEF Visit, Begins
<1>6. RoleVisitOK(c)'
  BY <1>4, <1>5, VisitIs, <1>1, <1>2, MemberIs DEF RoleVisitOK
<1>7. QED
  BY <1>1, <1>4, <1>5, <1>6, BegunIs, MemberIs, RoleStep DEF RoleSteps

LEMMA ResolveRoleKeeps == ASSUME FilesInv, NEW c \in Visits, ResolveRole(c) PROVE FilesInv'
<1>1. /\ visit[c].at = "settings" /\ UNCHANGED <<surface, disk, viewer, browser>>
      /\ visit[c].need \in {"read", "write"} /\ visit[c] \in VisitState
  BY MemberIs DEF ResolveRole, VisitState
<1>2. surface = "roles"
  BY <1>1 DEF FilesInv, FilesTypes, PlaceOK, FileSteps
<1>3. /\ visited \in VisitedState /\ ~visited.stale /\ member \in MemberState /\ member.now \in Moment
      /\ (visit[c].need = "write" => visit[c].began <= member.now)
  BY <1>1, MemberIs DEF FilesInv, RoleVisitOK, RoleSteps
<1>4. CASE /\ visit' = [visit EXCEPT ![c].at = "asking", ![c].asked = member.now] /\ UNCHANGED visited
           /\ \/ FreshFor(c) /\ UNCHANGED member
              \/ ~FreshFor(c) /\ member' = [member EXCEPT !.cache = [kind |-> "pending", by |-> c]]
  <2>1. PICK x : x = [visit[c] EXCEPT !.at = "asking", !.asked = member.now]
    OBVIOUS
  <2>2. /\ x \in VisitState /\ x.at = "asking" /\ x.asked = member.now /\ x.need = visit[c].need
        /\ x.began = visit[c].began
    BY <1>1, <1>3, <2>1 DEF RoleSteps, VisitState
  <2>3. visit' = [visit EXCEPT ![c] = x]
    BY <1>4, <2>1, MemberIs
  <2>4. visit'[c] = x
    BY <2>2, <2>3, VisitIs
  <2>5. /\ member' \in MemberState /\ member'.now = member.now /\ member'.held = member.held
        /\ member'.role = member.role
        /\ \/ member'.cache = member.cache
           \/ member'.cache.kind = "pending" /\ member'.cache.by = c
    BY <1>3, <1>4 DEF CacheState, MemberState
  <2>6. RoleVisitOK(c)'
    BY MemberIs, FilesAssumption, <1>3, <2>2, <2>4, <2>5 DEF RoleVisitOK
  <2>7. QED
    BY <1>1, <1>2, <1>3, <1>4, <2>2, <2>3, <2>5, <2>6, RoleStep DEF RoleSteps
<1>5. CASE /\ ~FreshFor(c) /\ member.cache.kind = "pending"
           /\ visit' = [visit EXCEPT ![c].at = "joined", ![c].joins = member.cache.by]
           /\ UNCHANGED <<member, visited>>
  <2>1. member.cache.by \in Visits /\ visit[member.cache.by].at \in {"asking", "answering"}
    BY <1>3, <1>5 DEF MemberState, CacheState, FilesInv, RolesHeld
  <2>2. PICK x : x = [visit[c] EXCEPT !.at = "joined", !.joins = member.cache.by]
    OBVIOUS
  <2>3. /\ x \in VisitState /\ x.at = "joined" /\ x.joins = member.cache.by /\ x.need = visit[c].need
    BY <1>1, <2>1, <2>2 DEF RoleSteps, VisitState
  <2>4. visit' = [visit EXCEPT ![c] = x]
    BY <1>5, <2>2, MemberIs
  <2>5. visit'[c] = x /\ \A d \in Visits \ {c} : visit'[d] = visit[d]
    BY <2>3, <2>4, VisitIs
  <2>6. x.need = "read" /\ member.cache.by # c
    BY <1>1, <1>5, <2>1, <2>3 DEF FreshFor
  <2>7. RoleVisitOK(c)'
    BY <2>1, <2>3, <2>5, <2>6 DEF RoleVisitOK
  <2>8. QED
    BY <1>1, <1>2, <1>3, <1>5, <2>3, <2>4, <2>7, RoleStep DEF RoleSteps
<1>6. CASE /\ ~FreshFor(c) /\ member.cache.kind = "entry" /\ member.now - member.cache.at < RoleCacheMs
           /\ visited' = [visited EXCEPT !.stale = @ \/ ~Decided(c, member.cache.role, visit)]
           /\ Finishes(c) /\ UNCHANGED member
  <2>1. /\ member.cache.at \in Nat /\ member.cache.role \in Roles /\ member.held[member.cache.role] \in Int
        /\ member.held[member.cache.role] >= member.cache.at - RoleTimeout
    BY <1>3, <1>6, MemberIs, FilesAssumption DEF MemberState, CacheState, FilesInv,
       RolesHeld, Moment
  <2>2. Decided(c, member.cache.role, visit)
    BY <1>6, <2>1, MemberIs, FilesAssumption DEF Decided, FreshFor
  <2>3. visited' \in VisitedState /\ ~visited'.stale /\ visited'.stamp = visited.stamp /\ visited'.seen = visited.seen
        /\ visited'.lost = visited.lost /\ visited'.replaced = visited.replaced
    BY <1>3, <1>6, <2>2 DEF VisitedState
  <2>4. visit' = [visit EXCEPT ![c] = NoVisit] /\ visit'[c] = NoVisit
    BY <1>6, NoVisitIs, VisitIs DEF Finishes
  <2>5. RoleVisitOK(c)'
    BY <2>4, NoVisitIs DEF RoleVisitOK, RoleSteps
  <2>6. QED
    BY <1>1, <1>2, <1>3, <1>6, <2>3, <2>4, <2>5, NoVisitIs, RoleStep
<1>7. QED
  BY <1>4, <1>5, <1>6 DEF ResolveRole

LEMMA HostReadsKeeps == ASSUME FilesInv, NEW c \in Visits, HostReads(c) PROVE FilesInv'
<1>1. /\ visit[c].at = "asking" /\ UNCHANGED <<surface, member, disk, viewer, browser, visited>>
      /\ visit[c] \in VisitState /\ ~visited.stale /\ visited \in VisitedState /\ member \in MemberState
  BY MemberIs DEF HostReads, FilesInv
<1>2. surface = "roles"
  BY <1>1 DEF FilesInv, FilesTypes, PlaceOK, FileSteps
<1>3. PICK x : x = [visit[c] EXCEPT !.at = "answering", !.role = member.role]
  OBVIOUS
<1>4. /\ x \in VisitState /\ x.at = "answering" /\ x.role = member.role /\ x.need = visit[c].need
      /\ x.began = visit[c].began /\ x.asked = visit[c].asked
  BY <1>1, <1>3, MemberIs DEF RoleSteps, VisitState
<1>5. visit' = [visit EXCEPT ![c] = x]
  BY <1>3, MemberIs DEF HostReads
<1>6. visit'[c] = x
  BY <1>4, <1>5, VisitIs
<1>7. RoleVisitOK(c)'
  BY <1>1, <1>4, <1>6, MemberIs DEF RoleVisitOK, FilesInv, RolesHeld
<1>8. QED
  BY <1>1, <1>2, <1>4, <1>5, <1>7, RoleStep DEF RoleSteps

\* Whoever waited for a listing goes with it, and nobody waits for one of them.
LEMMA JoinedAreLetGo ==
    ASSUME FilesInv, surface = "roles", NEW c \in Visits, visit[c].at \in {"asking", "answering"},
           member'.now = member.now, member'.held = member.held,
           visit' = [d \in Visits |-> IF d \in Joined(c) THEN NoVisit ELSE visit[d]]
    PROVE  /\ visit' \in [Visits -> VisitState]
           /\ \A d \in Visits : visit'[d].at \in {"idle"} \cup RoleSteps /\ IdleOK(d)' /\ RoleVisitOK(d)'
<1>1. visit' \in [Visits -> VisitState]
  BY NoVisitIs, MemberIs
<1>2. ASSUME NEW d \in Visits
      PROVE  visit'[d].at \in {"idle"} \cup RoleSteps /\ IdleOK(d)' /\ RoleVisitOK(d)'
  BY NoVisitIs DEF IdleOK, RoleVisitOK, RoleSteps, FilesInv, PlaceOK, Joined
<1>3. QED
  BY <1>1, <1>2

LEMMA RolesArriveKeeps == ASSUME FilesInv, NEW c \in Visits, RolesArrive(c) PROVE FilesInv'
<1>1. /\ visit[c].at = "answering" /\ UNCHANGED <<surface, disk, viewer, browser>>
      /\ member' = [member EXCEPT !.cache = Fetched(c)]
      /\ visited' = [visited EXCEPT !.stale = @ \/ \E d \in Joined(c) : ~Decided(d, visit[c].role, visit)]
      /\ visit' = [d \in Visits |-> IF d \in Joined(c) THEN NoVisit ELSE visit[d]]
  BY DEF RolesArrive
<1>2. surface = "roles"
  BY <1>1 DEF FilesInv, FilesTypes, PlaceOK, FileSteps
<1>3. /\ visit[c].role \in Roles /\ member.held[visit[c].role] \in Int /\ visit[c].asked \in Nat
      /\ member.held[visit[c].role] >= visit[c].asked /\ visit[c].asked <= member.now
      /\ member.now - visit[c].asked <= RoleTimeout /\ member.now \in Nat
      /\ visit[c].need = "write" => visit[c].began <= visit[c].asked
      /\ visit[c].began \in Nat
  BY <1>1, MemberIs DEF FilesInv, RoleVisitOK
<1>4. ASSUME NEW d \in Joined(c)
      PROVE  Decided(d, visit[c].role, visit)
  BY <1>4, <1>3, FilesAssumption DEF Joined, FilesInv, RoleVisitOK, Decided
<1>5. /\ visited' \in VisitedState /\ ~visited'.stale /\ visited'.stamp = visited.stamp
      /\ visited'.seen = visited.seen /\ visited'.lost = visited.lost /\ visited'.replaced = visited.replaced
  BY MemberIs, <1>1, <1>4 DEF FilesInv, VisitedState
<1>6. PICK k : k = Fetched(c)
  OBVIOUS
<1>7. k \in CacheState /\ k.kind = "entry" /\ k.role = visit[c].role /\ k.at = member.now
  BY <1>3, <1>6, MemberIs DEF Fetched, CacheState
<1>8. /\ member' \in MemberState /\ member'.cache = k /\ member'.now = member.now
      /\ member'.held = member.held /\ member'.role = member.role
  BY <1>1, <1>6, <1>7, MemberIs DEF MemberState
<1>9. RolesHeld'
  BY <1>1, <1>2, <1>3, <1>7, <1>8, FilesAssumption DEF FilesInv, RolesHeld
<1>10. /\ visit' \in [Visits -> VisitState]
       /\ \A d \in Visits : visit'[d].at \in {"idle"} \cup RoleSteps /\ IdleOK(d)' /\ RoleVisitOK(d)'
  BY <1>1, <1>2, <1>8, JoinedAreLetGo
<1>11. QED
  BY <1>1, <1>2, <1>5, <1>8, <1>9, <1>10, RolesMove

LEMMA RolesFailKeeps == ASSUME FilesInv, NEW c \in Visits, RolesFail(c) PROVE FilesInv'
<1>1. /\ visit[c].at \in {"asking", "answering"} /\ UNCHANGED <<surface, disk, viewer, browser, visited>>
      /\ member' = [member EXCEPT !.cache = [kind |-> "none"]]
      /\ visit' = [d \in Visits |-> IF d \in Joined(c) THEN NoVisit ELSE visit[d]]
  BY DEF RolesFail
<1>2. surface = "roles"
  BY <1>1 DEF FilesInv, FilesTypes, PlaceOK, FileSteps
<1>3. PICK k : k = [kind |-> "none"]
  OBVIOUS
<1>4. k \in CacheState /\ k.kind = "none"
  BY <1>3 DEF CacheState
<1>5. /\ member' \in MemberState /\ member'.cache = k /\ member'.now = member.now
      /\ member'.held = member.held /\ member'.role = member.role
  BY <1>1, <1>3, <1>4, MemberIs DEF MemberState
<1>6. RolesHeld'
  BY <1>1, <1>2, <1>4, <1>5 DEF FilesInv, RolesHeld
<1>7. /\ visit' \in [Visits -> VisitState]
      /\ \A d \in Visits : visit'[d].at \in {"idle"} \cup RoleSteps /\ IdleOK(d)' /\ RoleVisitOK(d)'
  BY <1>1, <1>2, <1>5, JoinedAreLetGo
<1>8. visited' \in VisitedState /\ ~visited'.stale
  BY <1>1, MemberIs DEF FilesInv
<1>9. QED
  BY <1>1, <1>2, <1>5, <1>6, <1>7, <1>8, RolesMove

\* The clock goes on, or the role of now is another: what was held stays held as long.
LEMMA HeldGrows ==
    ASSUME FilesInv, surface = "roles", UNCHANGED <<surface, disk, viewer, browser, visit, visited>>,
           member' \in MemberState, member'.cache = member.cache,
           member'.now = member.now \/ member'.now = member.now + 1,
           member'.held[member'.role] = member'.now,
           \A r \in Roles : member'.held[r] = member.held[r] \/ member'.held[r] = member'.now,
           member'.now # member.now =>
               \A c \in Visits : visit[c].at \in {"asking", "answering"} => member.now - visit[c].asked < RoleTimeout
    PROVE  FilesInv'
<1>1. /\ member.now \in Nat /\ member'.now \in Nat
      /\ \A r \in Roles : member'.held[r] \in Int /\ member.held[r] \in Int
  BY MemberIs, FilesAssumption DEF MemberState, Moment
<1>2. ASSUME NEW c \in Visits
      PROVE  visit'[c].at \in {"idle"} \cup RoleSteps /\ IdleOK(c)' /\ RoleVisitOK(c)'
  BY MemberIs, <1>1, FilesAssumption DEF FilesInv, PlaceOK, RoleVisitOK, IdleOK
<1>3. RolesHeld'
  BY MemberIs, FilesAssumption, <1>1 DEF MemberState, CacheState, Moment, FilesInv,
     RolesHeld
<1>4. visited' \in VisitedState /\ ~visited'.stale /\ visit' \in [Visits -> VisitState]
  BY MemberIs DEF FilesInv
<1>5. QED
  BY <1>2, <1>3, <1>4, RolesMove

LEMMA RoleChangesKeeps == FilesInv /\ RoleChanges => FilesInv'
<1>1. SUFFICES ASSUME FilesInv, RoleChanges
               PROVE  FilesInv'
  OBVIOUS
<1>2. PICK role \in Roles : member' = [member EXCEPT !.role = role, !.held[role] = member.now]
  BY <1>1 DEF RoleChanges
<1>3. PICK h : h = [member.held EXCEPT ![role] = member.now]
  OBVIOUS
<1>4. h \in [Roles -> Int] /\ h[role] = member.now /\ \A r \in Roles : h[r] = member.held[r] \/ h[r] = member.now
  BY <1>1, <1>3, MemberIs DEF MemberState
<1>5. /\ member' \in MemberState /\ member'.cache = member.cache /\ member'.now = member.now
      /\ member'.held = h /\ member'.role = role
  BY <1>1, <1>2, <1>3, <1>4, MemberIs DEF MemberState
<1>6. surface = "roles" /\ UNCHANGED <<surface, disk, viewer, browser, visit, visited>>
  BY <1>1 DEF RoleChanges
<1>7. QED
  BY <1>1, <1>4, <1>5, <1>6, HeldGrows

LEMMA MomentPassesKeeps == FilesInv /\ MomentPasses => FilesInv'
<1>1. SUFFICES ASSUME FilesInv, MomentPasses
               PROVE  FilesInv'
  OBVIOUS
<1>2. /\ surface = "roles" /\ UNCHANGED <<surface, disk, viewer, browser, visit, visited>>
      /\ member.now < MaxMoment
      /\ member' = [member EXCEPT !.now = @ + 1, !.held[member.role] = member.now + 1]
      /\ \A c \in Visits : visit[c].at \in {"asking", "answering"} => member.now - visit[c].asked < RoleTimeout
  BY <1>1 DEF MomentPasses
<1>3. PICK n : n = member.now + 1
  OBVIOUS
<1>4. n \in Moment /\ n \in Int
  BY <1>1, <1>2, <1>3, MemberIs, FilesAssumption DEF Moment
<1>5. PICK h : h = [member.held EXCEPT ![member.role] = n]
  OBVIOUS
<1>6. h \in [Roles -> Int] /\ h[member.role] = n /\ \A r \in Roles : h[r] = member.held[r] \/ h[r] = n
  BY <1>1, <1>4, <1>5, MemberIs DEF MemberState
<1>7. member' = [member EXCEPT !.now = n, !.held = h]
  BY <1>1, <1>2, <1>3, <1>5, MemberIs DEF MemberState
<1>8. /\ member' \in MemberState /\ member'.cache = member.cache /\ member'.now = n
      /\ member'.held = h /\ member'.role = member.role
  BY <1>1, <1>4, <1>6, <1>7, MemberIs DEF MemberState
<1>9. QED
  BY <1>1, <1>2, <1>3, <1>6, <1>8, HeldGrows

-----------------------------------------------------------------------------
(* The files                                                                 *)

\* What becomes of an entry: it goes, is another's that was moved, or is new; and what is
\* put there while an operation is between its look and its end bears the operation's mark.
Renewed(p) == disk'[p] = disk[p] \/ disk'[p].kind = "none" \/ disk'[p].moved \/ disk'[p].mtime > visited.stamp
Marked(p, d) == disk'[p] = disk[p] \/ disk'[p].kind = "none" \/ (d \in WithinChecks(p) => d \in disk'[p].born)
SameFile == viewer'.mount = viewer.mount /\ viewer'.path = viewer.path
NextFile == viewer'.mount = viewer.mount + 1
Grown == visited'.stamp >= visited.stamp /\ visited.seen \subseteq visited'.seen

LEMMA EditIs ==
    ASSUME FilesInv
    PROVE  /\ disk \in [Paths -> EntryState] /\ visit \in [Visits -> VisitState] /\ visited \in VisitedState
           /\ viewer \in ViewState /\ viewer.mount \in Nat /\ visited.stamp \in Nat /\ visited.stamp <= MaxStamp
           /\ viewer.mtime \in Nat
           /\ \A p \in Paths : disk[p].mtime \in Nat /\ disk[p].text \in Nat /\ disk[p].mtime <= visited.stamp
           /\ \A c \in Visits : visit[c].mtime \in Nat /\ visit[c].base \in Nat /\ visit[c].mount \in Int
           /\ MaxStamp \in Nat /\ \A n \in 0..MaxStamp : n \in Nat
BY FilesAssumption DEF FilesInv, FilesTypes, VisitedState, ViewState, EntryState, DiskOK,
   VisitState

\* What is known of an entry stays so, unless it is another.
LEMMA SaysStays ==
    ASSUME FilesInv, NEW p \in Paths, Renewed(p), NEW m \in Nat, m <= visited.stamp, NEW text, Says(p, m, text)
    PROVE  Says(p, m, text)'
BY EditIs DEF Renewed, Says, Plain

LEMMA FileVisitStays ==
    ASSUME FilesInv, surface' = surface, NEW d \in Visits, visit'[d] = visit[d], visited' \in VisitedState, Grown,
           \A p \in Paths : Renewed(p) /\ Marked(p, d), SameFile \/ NextFile
    PROVE  FileVisitOK(d)'
<1>1. SUFFICES ASSUME surface = "edit", visit[d].at # "idle"
               PROVE  FileVisitOK(d)'
  BY DEF FileVisitOK
<1>2. DEFINE v == visit[d]
<1>3. /\ v.path \in Paths /\ v.mtime <= visited.stamp /\ v.base <= visited.stamp /\ v.mtime \in Nat /\ v.base \in Nat
      /\ v.mount \in Int /\ v.mount <= viewer.mount /\ (v.mount = viewer.mount => v.path = viewer.path)
  BY <1>1, EditIs DEF FilesInv, FileVisitOK
<1>4. /\ v.mtime <= visited'.stamp /\ v.base <= visited'.stamp /\ v.mount <= viewer'.mount
      /\ v.mount = viewer'.mount => v.path = viewer'.path
  BY EditIs, <1>3 DEF VisitedState, Grown, SameFile, NextFile
<1>5. v.kind = "read" /\ v.at = "answered" /\ v.result = "ok" => Says(v.path, v.mtime, v.text)'
  BY SMTT(20), <1>1, <1>3, SaysStays DEF FilesInv, FileVisitOK, Says, Plain
<1>6. \A p \in Paths : v.at \in {"checked", "written"} /\ p \in {v.path, v.to} =>
          disk'[p] = disk[p] \/ disk'[p].kind = "none" \/ d \in disk'[p].born
  BY DEF Marked, WithinChecks
<1>7. v.kind = "write" => SaveOK(d)'
  <2>1. SUFFICES ASSUME v.kind = "write"
                 PROVE  SaveOK(d)'
    OBVIOUS
  <2>2. SaveOK(d) /\ visited.seen \subseteq visited'.seen
    BY <1>1, <2>1 DEF FilesInv, FileVisitOK, Grown
  <2>3. v.at = "asked" /\ ~v.force =>
          (Plain(v.path)' /\ disk'[v.path].mtime = v.base => disk'[v.path].text \in visited'.seen)
    BY <1>3, <2>2, EditIs DEF SaveOK, Renewed, Plain
  <2>4. v.at \in {"checked", "written"} /\ Plain(v.path)' => disk'[v.path] = disk[v.path]
    BY <1>3, <1>6 DEF Plain
  <2>5. v.at = "checked" /\ ~v.force => (Plain(v.path)' => disk'[v.path].text \in visited'.seen)
    BY <2>2, <2>4 DEF SaveOK, Plain
  <2>6. v.at = "written" => v.text \in visited'.seen /\ (Plain(v.path)' => disk'[v.path].text = v.text)
    BY <2>2, <2>4 DEF SaveOK, Plain
  <2>7. v.at = "answered" /\ v.result = "ok" => v.text \in visited'.seen /\ Says(v.path, v.mtime, v.text)'
    <3>1. v.at = "answered" /\ v.result = "ok" => Says(v.path, v.mtime, v.text) /\ v.text \in visited.seen
      BY <2>2 DEF SaveOK
    <3>2. Renewed(v.path)
      BY <1>3
    <3>3. QED
      BY SMTT(20), <1>3, <2>2, <3>1, <3>2, SaysStays DEF Says, Plain
  <2>8. QED
    BY <2>3, <2>5, <2>6, <2>7 DEF SaveOK, Says, Plain
<1>8. ASSUME NEW p \in Paths, p \in {v.path, v.to}, NewOK(d, p)
      PROVE  NewOK(d, p)'
  BY <1>6, <1>8 DEF NewOK
<1>9. /\ v.kind \in {"create", "mkdir", "upload"} => NewOK(d, v.path)
      /\ v.kind = "rename" => v.to \in Paths /\ NewOK(d, v.to)
  BY <1>1 DEF FilesInv, FileVisitOK
<1>10. /\ v.kind \in {"create", "mkdir", "upload"} => NewOK(d, v.path)'
       /\ v.kind = "rename" => v.to \in Paths /\ NewOK(d, v.to)'
  BY <1>3, <1>8, <1>9 DEF NewOK
<1>11. QED
  BY <1>1, <1>3, <1>4, <1>5, <1>7, <1>10 DEF FileVisitOK, Says, Plain, NewOK

LEMMA ViewerStays ==
    ASSUME FilesInv, surface' = surface, visited' \in VisitedState, Grown, \A p \in Paths : Renewed(p),
           viewer'.path = viewer.path, viewer'.mtime = viewer.mtime, viewer'.text = viewer.text,
           viewer'.open = viewer.open
    PROVE  ViewerOK'
<1>1. viewer.mtime <= visited'.stamp
  BY EditIs DEF Grown, VisitedState, FilesInv, ViewerOK
<1>2. viewer.open => /\ viewer.path \in Paths /\ viewer.text \in visited'.seen
                     /\ Says(viewer.path, viewer.mtime, viewer.text)'
  <2>1. SUFFICES ASSUME viewer.open
                 PROVE  /\ viewer.path \in Paths /\ viewer.text \in visited'.seen
                        /\ Says(viewer.path, viewer.mtime, viewer.text)'
    OBVIOUS
  <2>2. /\ viewer.path \in Paths /\ viewer.text \in visited.seen /\ Says(viewer.path, viewer.mtime, viewer.text)
        /\ viewer.mtime <= visited.stamp /\ viewer.mtime \in Nat
    BY <2>1, EditIs DEF FilesInv, ViewerOK
  <2>3. Says(viewer.path, viewer.mtime, viewer.text)'
    BY <2>2, EditIs DEF Renewed, Says, Plain
  <2>4. QED
    BY <2>2, <2>3 DEF Grown
<1>3. QED
  BY <1>1, <1>2 DEF FilesInv, ViewerOK, Says, Plain

\* A step of the files changes nothing of the roles and of the folder shown.
LEMMA EditMoves ==
    ASSUME FilesInv, surface = "edit", UNCHANGED <<surface, member, browser>>,
           disk' \in [Paths -> EntryState], viewer' \in ViewState, visited' \in VisitedState,
           visit' \in [Visits -> VisitState],
           visited'.stale = visited.stale, ~visited'.lost, ~visited'.replaced, DiskOK', ViewerOK',
           \A d \in Visits : visit'[d].at \in {"idle"} \cup FileSteps /\ IdleOK(d)' /\ FileVisitOK(d)'
    PROVE  FilesInv'
<1>1. FilesTypes'
  BY DEF FilesInv, FilesTypes
<1>2. RolesHeld' /\ BrowserOK' /\ ListingIsOfTheFolder' /\ NothingIsLostUnasked'
  BY DEF FilesInv, RolesHeld, BrowserOK, ListingIsOfTheFolder, NothingIsLostUnasked
<1>3. \A d \in Visits : PlaceOK(d)' /\ ListVisitOK(d)' /\ RoleVisitOK(d)'
  BY DEF PlaceOK, ListVisitOK, RoleVisitOK, RoleSteps, FileSteps
<1>4. QED
  BY <1>1, <1>2, <1>3 DEF FilesInv

\* A step of one request; what it leaves is told by its own locals and the disk.
LEMMA EditStep ==
    ASSUME FilesInv, surface = "edit", UNCHANGED <<surface, member, browser>>,
           disk' \in [Paths -> EntryState], viewer' \in ViewState, visited' \in VisitedState,
           NEW c \in Visits, NEW x \in VisitState, visit' = [visit EXCEPT ![c] = x],
           visited'.stale = visited.stale, ~visited'.lost, ~visited'.replaced, DiskOK', ViewerOK', Grown,
           SameFile \/ NextFile, \A p \in Paths : Renewed(p) /\ \A d \in Visits \ {c} : Marked(p, d),
           x.at \in {"idle"} \cup FileSteps, x.at = "idle" => x.kind = "none", FileVisitOK(c)'
    PROVE  FilesInv'
BY VisitIs, FileVisitStays, EditMoves DEF IdleOK, FilesInv, PlaceOK

\* A step that belongs to no request.
LEMMA EditStill ==
    ASSUME FilesInv, surface = "edit", UNCHANGED <<surface, member, browser, visit>>,
           disk' \in [Paths -> EntryState], viewer' \in ViewState, visited' \in VisitedState,
           visited'.stale = visited.stale, ~visited'.lost, ~visited'.replaced, DiskOK', ViewerOK', Grown,
           SameFile, \A p \in Paths : Renewed(p) /\ \A d \in Visits : Marked(p, d)
    PROVE  FilesInv'
BY EditIs, FileVisitStays, EditMoves DEF FilesInv, PlaceOK, IdleOK

\* Nothing changes on the disk.
LEMMA SameDisk ==
    ASSUME FilesInv, disk' = disk, visited' \in VisitedState, visited'.stamp >= visited.stamp
    PROVE  /\ disk' \in [Paths -> EntryState] /\ DiskOK'
           /\ \A p \in Paths : Renewed(p) /\ \A d \in Visits : Marked(p, d)
BY EditIs DEF DiskOK, VisitedState, Renewed, Marked

LEMMA SameVisited ==
    ASSUME FilesInv, visited' = visited
    PROVE  /\ visited' \in VisitedState /\ visited'.stale = visited.stale /\ ~visited'.lost /\ ~visited'.replaced
           /\ Grown /\ visited'.stamp >= visited.stamp
BY EditIs DEF FilesInv, NothingIsLostUnasked, Grown

LEMMA OnlyBegun ==
    ASSUME FilesInv, visited' = [visited EXCEPT !.begun = @ + 1]
    PROVE  /\ visited' \in VisitedState /\ visited'.stale = visited.stale /\ ~visited'.lost /\ ~visited'.replaced
           /\ Grown /\ visited'.stamp = visited.stamp /\ visited'.stamp >= visited.stamp
           /\ visited'.seen = visited.seen
BY BegunIs, EditIs DEF FilesInv, NothingIsLostUnasked, VisitedState, Grown

\* A step of a request that touches neither the disk nor the page.
LEMMA VisitStep ==
    ASSUME FilesInv, surface = "edit", UNCHANGED <<surface, member, browser, disk, viewer>>,
           \/ visited' = visited
           \/ visited' = [visited EXCEPT !.begun = @ + 1],
           NEW c \in Visits, NEW x \in VisitState, visit' = [visit EXCEPT ![c] = x],
           x.at \in {"idle"} \cup FileSteps, x.at = "idle" => x.kind = "none", FileVisitOK(c)'
    PROVE  FilesInv'
BY SameVisited, OnlyBegun, SameDisk, EditIs, ViewerStays, EditStep DEF SameFile

\* Nothing is owed to a request that is over.
LEMMA OverOK == ASSUME NEW c \in Visits, visit'[c] = NoVisit PROVE FileVisitOK(c)'
BY NoVisitIs DEF FileVisitOK

LEMMA FinishStep ==
    ASSUME FilesInv, surface = "edit", UNCHANGED <<surface, member, browser, disk, viewer, visited>>,
           NEW c \in Visits, Finishes(c)
    PROVE  FilesInv'
BY NoVisitIs, VisitIs, OverOK, VisitStep DEF Finishes

\* What is written at a path is new there, and marked by the operations it falls between.
LEMMA WrittenIs ==
    ASSUME FilesInv, NEW path \in Paths, NEW text \in Nat, NEW kind \in {"file", "dir"}, NEW by \in SUBSET Visits,
           visited.stamp < MaxStamp, disk' = [disk EXCEPT ![path] = Written(path, text, kind, by)],
           visited' \in VisitedState, visited'.stamp = Stamp
    PROVE  /\ disk' \in [Paths -> EntryState] /\ DiskOK' /\ \A p \in Paths : Renewed(p)
           /\ \A p \in Paths : \A d \in Visits \ by : Marked(p, d)
           /\ disk'[path].text = text /\ visited'.stamp >= visited.stamp /\ visited'.stamp \in Nat
           /\ Stamp \in Nat
BY EditIs DEF Stamp, WithinChecks, Written, EntryState, DiskOK, Renewed, Marked

LEMMA GoneIs ==
    ASSUME FilesInv, NEW path \in Paths, disk' = [disk EXCEPT ![path] = Gone],
           visited' \in VisitedState, visited'.stamp >= visited.stamp
    PROVE  /\ disk' \in [Paths -> EntryState] /\ DiskOK'
           /\ \A p \in Paths : Renewed(p) /\ \A d \in Visits : Marked(p, d)
BY NoVisitIs, EditIs DEF Gone, EntryState, VisitedState, DiskOK, Renewed, Marked

LEMMA MovedIs ==
    ASSUME FilesInv, NEW path \in Paths, NEW to \in Paths, NEW by \in SUBSET Visits,
           disk' = [disk EXCEPT ![path] = Gone, ![to] = Moved(disk[path], to, by)],
           visited' \in VisitedState, visited'.stamp = visited.stamp
    PROVE  /\ disk' \in [Paths -> EntryState] /\ DiskOK' /\ \A p \in Paths : Renewed(p)
           /\ \A p \in Paths : \A d \in Visits \ by : Marked(p, d)
<1>1. Gone \in EntryState /\ Gone.kind = "none" /\ Gone.mtime = 0
  BY NoVisitIs DEF Gone, EntryState
<1>2. PICK e : e = Moved(disk[path], to, by)
  OBVIOUS
<1>3. WithinChecks(to) \ by \in SUBSET Visits /\ disk[path] \in EntryState
  BY EditIs DEF WithinChecks
<1>4. /\ e \in EntryState /\ e.moved /\ e.mtime = disk[path].mtime /\ WithinChecks(to) \ by \subseteq e.born
  BY <1>2, <1>3 DEF Moved, EntryState
<1>5. disk' = [disk EXCEPT ![path] = Gone, ![to] = e]
  BY <1>2
<1>6. /\ disk' \in [Paths -> EntryState] /\ disk'[to] = e
      /\ \A p \in Paths \ {to} : disk'[p] = disk[p] \/ disk'[p] = Gone
  BY <1>1, <1>4, <1>5, EditIs
<1>7. DiskOK'
  BY <1>1, <1>4, <1>6, EditIs DEF DiskOK
<1>8. QED
  BY <1>1, <1>4, <1>6, <1>7 DEF Renewed, Marked

-----------------------------------------------------------------------------
(* The worker's operations                                                   *)

\* What is known of a request of the files.
LEMMA RequestIs ==
    ASSUME FilesInv, surface = "edit", NEW c \in Visits, visit[c].at # "idle"
    PROVE  /\ visit[c] \in VisitState /\ visit[c].path \in Paths /\ disk[visit[c].path] \in EntryState
           /\ visit[c].mtime <= visited.stamp /\ visit[c].base <= visited.stamp
           /\ visit[c].mount <= viewer.mount /\ (visit[c].mount = viewer.mount => visit[c].path = viewer.path)
           /\ visit[c].at \in FileSteps
BY EditIs DEF FilesInv, FileVisitOK, PlaceOK

LEMMA RequestKeeps ==
    ASSUME FilesInv, NEW c \in Visits, NEW kind \in {"create", "mkdir", "upload", "rename", "delete"},
           NEW p \in Paths, NEW q \in Paths, NEW overwrite \in BOOLEAN, Request(c, kind, p, q, overwrite)
    PROVE  FilesInv'
<1>1. /\ surface = "edit" /\ UNCHANGED <<surface, member, browser, disk, viewer>>
      /\ visited' = [visited EXCEPT !.begun = @ + 1]
  BY DEF Request, Quiet
<1>0. PICK nobody \in Int : nobody = -1
  OBVIOUS
<1>2. PICK x : x = [NoVisit EXCEPT !.at = "asked", !.kind = kind, !.path = p, !.to = q,
                                   !.force = overwrite, !.mount = nobody]
  OBVIOUS
<1>3. /\ x \in VisitState /\ x.at = "asked" /\ x.kind = kind /\ x.path = p /\ x.to = q /\ x.mount = nobody
      /\ x.mtime = 0 /\ x.base = 0
  <2>1. "asked" \in FileSteps
    BY DEF FileSteps
  <2>2. NoVisit.mtime = 0 /\ NoVisit.base = 0
    BY DEF NoVisit
  <2>3. x \in VisitState
    <3>1. PICK y : y = [NoVisit EXCEPT !.at = "asked", !.kind = kind, !.path = p]
      OBVIOUS
    <3>2. y \in VisitState
      BY ZenonT(40), <2>1, <3>1, NoVisitIs DEF VisitState
    <3>3. x = [y EXCEPT !.to = q, !.force = overwrite, !.mount = nobody]
      BY <1>2, <3>1, NoVisitIs DEF VisitState
    <3>4. QED
      BY ZenonT(40), <3>2, <3>3 DEF VisitState
  <2>4. /\ x.at = "asked" /\ x.kind = kind /\ x.path = p /\ x.to = q /\ x.mount = nobody
        /\ x.mtime = NoVisit.mtime /\ x.base = NoVisit.base
    BY <1>2, NoVisitIs DEF VisitState
  <2>5. QED
    BY <2>2, <2>3, <2>4
<1>4. visit' = [visit EXCEPT ![c] = x] /\ visit'[c] = x
  BY <1>0, <1>2, <1>3, VisitIs DEF Request, Begins
<1>5. visited'.stamp \in Nat
  BY <1>1, OnlyBegun, EditIs
<1>6. FileVisitOK(c)'
  BY <1>0, <1>1, <1>3, <1>4, <1>5, EditIs DEF FileVisitOK, NewOK
<1>7. QED
  BY <1>1, <1>3, <1>4, <1>6, VisitStep DEF FileSteps

LEMMA ReadStatsKeeps == ASSUME FilesInv, NEW c \in Visits, ReadStats(c) PROVE FilesInv'
<1>1. /\ surface = "edit" /\ UNCHANGED <<surface, member, browser, disk, viewer, visited>>
      /\ visit[c].kind = "read" /\ visit[c].at = "asked"
  BY DEF ReadStats, FileStep, Quiet
<1>2. visit[c] \in VisitState /\ disk[visit[c].path].mtime \in 0..MaxStamp
  BY <1>1, RequestIs DEF EntryState
<1>3. CASE visit' = [visit EXCEPT ![c].at = "stated", ![c].mtime = disk[visit[c].path].mtime]
  <2>1. PICK x : x = [visit[c] EXCEPT !.at = "stated", !.mtime = disk[visit[c].path].mtime]
    OBVIOUS
  <2>2. /\ x \in VisitState /\ x.at = "stated" /\ x.mtime = disk[visit[c].path].mtime /\ x.kind = "read"
        /\ x.path = visit[c].path /\ x.base = visit[c].base /\ x.mount = visit[c].mount
    BY <1>1, <1>2, <2>1 DEF FileSteps, VisitState
  <2>3. visit' = [visit EXCEPT ![c] = x] /\ visit'[c] = x
    BY <1>3, <2>1, EditIs, <2>2, VisitIs
  <2>4. FileVisitOK(c)'
    BY <1>1, <2>2, <2>3, RequestIs, EditIs DEF FileVisitOK
  <2>5. QED
    BY <1>1, <2>2, <2>3, <2>4, VisitStep DEF FileSteps
<1>4. CASE visit' = [visit EXCEPT ![c].at = "answered", ![c].result = "refused"]
  <2>1. PICK x : x = [visit[c] EXCEPT !.at = "answered", !.result = "refused"]
    OBVIOUS
  <2>2. /\ x \in VisitState /\ x.at = "answered" /\ x.mtime = visit[c].mtime /\ x.kind = "read"
        /\ x.path = visit[c].path /\ x.base = visit[c].base /\ x.mount = visit[c].mount /\ x.result = "refused"
    BY <1>1, <1>2, <2>1 DEF FileSteps, VisitState
  <2>3. visit' = [visit EXCEPT ![c] = x] /\ visit'[c] = x
    BY <1>4, <2>1, EditIs, <2>2, VisitIs
  <2>4. FileVisitOK(c)'
    BY <1>1, <2>2, <2>3, RequestIs DEF FileVisitOK
  <2>5. QED
    BY <1>1, <2>2, <2>3, <2>4, VisitStep DEF FileSteps
<1>5. QED
  BY <1>3, <1>4 DEF ReadStats

LEMMA ReadFileKeeps == ASSUME FilesInv, NEW c \in Visits, ReadFile(c) PROVE FilesInv'
<1>1. /\ surface = "edit" /\ UNCHANGED <<surface, member, browser, disk, viewer, visited>>
      /\ visit[c].kind = "read" /\ visit[c].at = "stated"
  BY DEF ReadFile, FileStep, Quiet
<1>2. visit[c] \in VisitState /\ disk[visit[c].path].text \in Nat
  BY <1>1, RequestIs DEF EntryState
<1>3. PICK result \in {"ok", "refused"} : result = IF disk[visit[c].path].kind = "file" THEN "ok" ELSE "refused"
  OBVIOUS
<1>4. PICK x : x = [visit[c] EXCEPT !.at = "answered", !.text = disk[visit[c].path].text, !.result = result]
  OBVIOUS
<1>5. /\ x \in VisitState /\ x.at = "answered" /\ x.mtime = visit[c].mtime /\ x.kind = "read"
      /\ x.path = visit[c].path /\ x.base = visit[c].base /\ x.mount = visit[c].mount
      /\ x.text = disk[visit[c].path].text
  BY <1>1, <1>2, <1>4 DEF FileSteps, VisitState
<1>6. visit' = [visit EXCEPT ![c] = x] /\ visit'[c] = x
  BY <1>3, <1>4, EditIs, <1>5, VisitIs DEF ReadFile
<1>7. FileVisitOK(c)'
  BY <1>1, <1>5, <1>6, RequestIs DEF FileVisitOK, Says
<1>8. QED
  BY <1>1, <1>5, <1>6, <1>7, VisitStep DEF FileSteps

LEMMA StatKeeps == ASSUME FilesInv, NEW c \in Visits, Stat(c) PROVE FilesInv'
<1>1. /\ surface = "edit" /\ UNCHANGED <<surface, member, browser, disk, viewer, visited>>
      /\ visit[c].kind = "stat" /\ visit[c].at = "asked"
  BY DEF Stat, FileStep, Quiet
<1>2. visit[c] \in VisitState /\ disk[visit[c].path].mtime \in 0..MaxStamp
  BY <1>1, RequestIs DEF EntryState
<1>3. PICK result \in {"ok", "refused"} : result = IF disk[visit[c].path].kind = "none" THEN "refused" ELSE "ok"
  OBVIOUS
<1>4. PICK x : x = [visit[c] EXCEPT !.at = "answered", !.mtime = disk[visit[c].path].mtime, !.result = result]
  OBVIOUS
<1>5. /\ x \in VisitState /\ x.at = "answered" /\ x.mtime = disk[visit[c].path].mtime /\ x.kind = "stat"
      /\ x.path = visit[c].path /\ x.base = visit[c].base /\ x.mount = visit[c].mount
  BY <1>1, <1>2, <1>4 DEF FileSteps, VisitState
<1>6. visit' = [visit EXCEPT ![c] = x] /\ visit'[c] = x
  BY <1>3, <1>4, EditIs, <1>5, VisitIs DEF Stat
<1>7. FileVisitOK(c)'
  BY <1>1, <1>5, <1>6, RequestIs, EditIs DEF FileVisitOK
<1>8. QED
  BY <1>1, <1>5, <1>6, <1>7, VisitStep DEF FileSteps

LEMMA CheckSaveKeeps == ASSUME FilesInv, NEW c \in Visits, CheckSave(c) PROVE FilesInv'
<1>1. /\ surface = "edit" /\ UNCHANGED <<surface, member, browser, disk, viewer, visited>>
      /\ visit[c].kind = "write" /\ visit[c].at = "asked"
  BY DEF CheckSave, FileStep, Quiet
<1>2. visit[c] \in VisitState /\ disk[visit[c].path] \in EntryState
  BY <1>1, RequestIs
<1>3. PICK result : result = SaveCheck(c)
  OBVIOUS
<1>4. /\ result \in {"ok", "refused", "not_found", "conflict"}
      /\ result = "ok" /\ ~visit[c].force => disk[visit[c].path].mtime = visit[c].base
  BY <1>2, <1>3 DEF SaveCheck, EntryState
<1>5. PICK at \in {"checked", "answered"} : at = IF result = "ok" THEN "checked" ELSE "answered"
  OBVIOUS
<1>6. PICK x : x = [visit[c] EXCEPT !.at = at, !.result = result]
  OBVIOUS
<1>7. /\ x \in VisitState /\ x.at = at /\ x.mtime = visit[c].mtime /\ x.kind = "write" /\ x.force = visit[c].force
      /\ x.path = visit[c].path /\ x.base = visit[c].base /\ x.mount = visit[c].mount /\ x.result = result
  BY <1>1, <1>2, <1>4, <1>6 DEF FileSteps, VisitState
<1>8. visit' = [visit EXCEPT ![c] = x] /\ visit'[c] = x
  BY <1>3, <1>5, <1>6, EditIs, <1>7, VisitIs DEF CheckSave
<1>9. FileVisitOK(c)'
  BY <1>1, <1>4, <1>5, <1>7, <1>8, RequestIs DEF FilesInv, FileVisitOK, SaveOK, Plain
<1>10. QED
  BY <1>1, <1>7, <1>8, <1>9, VisitStep DEF FileSteps

LEMMA WriteFileKeeps == ASSUME FilesInv, NEW c \in Visits, WriteFile(c) PROVE FilesInv'
<1>1. /\ surface = "edit" /\ UNCHANGED <<surface, member, browser, viewer>>
      /\ visit[c].kind = "write" /\ visit[c].at = "checked" /\ visited.stamp < MaxStamp
  BY DEF WriteFile, FileStep, Quiet
<1>2. visit[c] \in VisitState /\ disk[visit[c].path] \in EntryState /\ visit[c].path \in Paths /\ SaveOK(c)
  BY <1>1, RequestIs DEF FilesInv, FileVisitOK
<1>3. CASE disk[visit[c].path].kind = "dir"
  BY <1>3, <1>1, <1>2, EditIs, VisitIs, RequestIs, VisitStep DEF WriteFile, FileSteps,
     VisitState, FileVisitOK, SaveOK
<1>4. CASE disk[visit[c].path].kind # "dir"
  <2>1. PICK saw \in BOOLEAN : saw = (disk[visit[c].path].text \in visited.seen \/ disk[visit[c].path].born # {}
                                      \/ disk[visit[c].path].moved)
    BY <1>2 DEF EntryState
  <2>2. /\ disk' = [disk EXCEPT ![visit[c].path] = Written(visit[c].path, visit[c].text, "file", {c})]
        /\ Goes(c, "written")
        /\ visited' = [visited EXCEPT !.stamp = Stamp, !.seen = @ \cup {visit[c].text},
                         !.lost = @ \/ (~visit[c].force /\ disk[visit[c].path].kind = "file" /\ ~saw)]
    BY <1>4, <2>1 DEF WriteFile
  <2>3. ~(~visit[c].force /\ disk[visit[c].path].kind = "file" /\ ~saw)
    BY <1>1, <1>2, <2>1 DEF SaveOK, Plain
  <2>4. /\ visited \in VisitedState /\ ~visited.lost /\ ~visited.replaced /\ Stamp \in 0..MaxStamp
        /\ visit[c].text \in Nat /\ Stamp >= visited.stamp
    BY <1>1, <1>2, EditIs DEF FilesInv, NothingIsLostUnasked, Stamp, VisitState
  <2>5. PICK seen : seen = visited.seen \cup {visit[c].text}
    OBVIOUS
  <2>6. seen \in SUBSET Nat
    BY <2>4, <2>5 DEF VisitedState
  <2>7. visited' = [visited EXCEPT !.stamp = Stamp, !.seen = seen, !.lost = FALSE]
    BY <2>2, <2>3, <2>4, <2>5 DEF VisitedState
  <2>8. /\ visited' \in VisitedState /\ visited'.stamp = Stamp /\ visited'.seen = seen /\ ~visited'.lost
        /\ visited'.stale = visited.stale /\ ~visited'.replaced
    BY <2>4, <2>6, <2>7 DEF VisitedState
  <2>9. Grown
    BY <2>4, <2>5, <2>8 DEF Grown
  <2>10. /\ disk' \in [Paths -> EntryState] /\ DiskOK' /\ \A p \in Paths : Renewed(p)
         /\ \A p \in Paths : \A d \in Visits \ {c} : Marked(p, d)
         /\ disk'[visit[c].path].text = visit[c].text
    <3>1. PICK path \in Paths, text \in Nat, by \in SUBSET Visits :
             path = visit[c].path /\ text = visit[c].text /\ by = {c}
      BY <1>2, <2>4
    <3>2. disk' = [disk EXCEPT ![path] = Written(path, text, "file", by)]
      BY <2>2, <3>1
    <3>3. /\ disk' \in [Paths -> EntryState] /\ DiskOK' /\ \A p \in Paths : Renewed(p)
          /\ \A p \in Paths : \A d \in Visits \ by : Marked(p, d)
          /\ disk'[path].text = text
      BY <1>1, <2>8, <3>2, WrittenIs
    <3>4. QED
      BY <3>1, <3>3
  <2>11. PICK x : x = [visit[c] EXCEPT !.at = "written"]
    OBVIOUS
  <2>12. /\ x \in VisitState /\ x.at = "written" /\ x.mtime = visit[c].mtime /\ x.kind = "write" /\ x.text = visit[c].text
         /\ x.path = visit[c].path /\ x.base = visit[c].base /\ x.mount = visit[c].mount
    BY <1>1, <1>2, <2>11 DEF FileSteps, VisitState
  <2>13. visit' = [visit EXCEPT ![c] = x] /\ visit'[c] = x
    BY <2>2, <2>11, EditIs, <2>12, VisitIs DEF Goes
  <2>14. FileVisitOK(c)'
    BY <2>5, <2>8, <2>10, <2>12, <2>13, <1>1, <2>4, RequestIs, EditIs DEF SaveOK,
       FileVisitOK
  <2>15. viewer' \in ViewState /\ SameFile
    BY <1>1, EditIs DEF SameFile
  <2>16. ViewerOK'
    BY <1>1, <2>8, <2>9, <2>10, ViewerStays
  <2>17. QED
    BY <1>1, <2>8, <2>9, <2>10, <2>12, <2>13, <2>14, <2>15, <2>16, EditStep DEF FileSteps
<1>5. QED
  BY <1>3, <1>4

LEMMA StatWrittenKeeps == ASSUME FilesInv, NEW c \in Visits, StatWritten(c) PROVE FilesInv'
<1>1. /\ surface = "edit" /\ UNCHANGED <<surface, member, browser, disk, viewer, visited>>
      /\ visit[c].kind = "write" /\ visit[c].at = "written"
  BY DEF StatWritten, FileStep, Quiet
<1>2. visit[c] \in VisitState /\ disk[visit[c].path].mtime \in 0..MaxStamp /\ SaveOK(c)
  BY <1>1, RequestIs DEF EntryState, FilesInv, FileVisitOK
<1>3. PICK result \in {"ok", "refused"} :
         visit' = [visit EXCEPT ![c].at = "answered", ![c].mtime = disk[visit[c].path].mtime, ![c].result = result]
  BY DEF StatWritten
<1>4. PICK x : x = [visit[c] EXCEPT !.at = "answered", !.mtime = disk[visit[c].path].mtime, !.result = result]
  OBVIOUS
<1>5. /\ x \in VisitState /\ x.at = "answered" /\ x.mtime = disk[visit[c].path].mtime /\ x.kind = "write"
      /\ x.path = visit[c].path /\ x.base = visit[c].base /\ x.mount = visit[c].mount /\ x.text = visit[c].text
  BY <1>1, <1>2, <1>4 DEF FileSteps, VisitState
<1>6. visit' = [visit EXCEPT ![c] = x] /\ visit'[c] = x
  BY <1>3, <1>4, EditIs, <1>5, VisitIs
<1>7. FileVisitOK(c)'
  BY <1>1, <1>2, <1>5, <1>6, RequestIs, EditIs DEF SaveOK, Says, Plain, FileVisitOK
<1>8. QED
  BY <1>1, <1>5, <1>6, <1>7, VisitStep DEF FileSteps

LEMMA LooksKeeps == ASSUME FilesInv, NEW c \in Visits, Looks(c) PROVE FilesInv'
<1>1. /\ surface = "edit" /\ UNCHANGED <<surface, member, browser, disk, viewer, visited>>
      /\ visit[c].kind \in {"create", "mkdir", "upload", "rename", "delete"} /\ visit[c].at = "asked"
  BY DEF Looks, Quiet
<1>2. visit[c] \in VisitState
  BY <1>1, RequestIs
<1>3. CASE LookFirst(c) /\ Goes(c, "checked")
  <2>1. PICK x : x = [visit[c] EXCEPT !.at = "checked"]
    OBVIOUS
  <2>2. /\ x \in VisitState /\ x.at = "checked" /\ x.mtime = visit[c].mtime /\ x.kind = visit[c].kind
        /\ x.path = visit[c].path /\ x.to = visit[c].to /\ x.base = visit[c].base /\ x.mount = visit[c].mount
        /\ x.force = visit[c].force
    BY <1>1, <1>2, <2>1 DEF FileSteps, VisitState
  <2>3. visit' = [visit EXCEPT ![c] = x] /\ visit'[c] = x
    BY <1>3, <2>1, EditIs, <2>2, VisitIs DEF Goes
  <2>4. /\ visit[c].kind \in {"create", "mkdir", "upload"} => NewOK(c, visit[c].path)'
        /\ visit[c].kind = "rename" => visit[c].to \in Paths /\ NewOK(c, visit[c].to)'
    BY <1>3, <1>1, <2>2, <2>3 DEF LookFirst, FilesInv, FileVisitOK, NewOK
  <2>5. FileVisitOK(c)'
    BY <1>1, <2>2, RequestIs, <2>3, <2>4 DEF FileVisitOK, NewOK
  <2>6. QED
    BY <1>1, <2>2, <2>3, <2>5, VisitStep DEF FileSteps
<1>4. CASE Finishes(c)
  BY <1>1, <1>4, FinishStep
<1>5. QED
  BY <1>3, <1>4 DEF Looks

\* A step that ends a request and changes the disk, marked by everybody else's.
LEMMA DoneStep ==
    ASSUME FilesInv, surface = "edit", UNCHANGED <<surface, member, browser, viewer>>, NEW c \in Visits, Finishes(c),
           disk' \in [Paths -> EntryState], DiskOK', \A p \in Paths : Renewed(p),
           \A p \in Paths : \A d \in Visits \ {c} : Marked(p, d),
           visited' \in VisitedState, visited'.stale = visited.stale, ~visited'.lost, ~visited'.replaced, Grown
    PROVE  FilesInv'
BY NoVisitIs, VisitIs, OverOK, EditIs, ViewerStays, EditStep DEF Finishes, SameFile

\* The history after a write, of which nothing is to be said.
LEMMA StampIs ==
    ASSUME FilesInv, visited.stamp < MaxStamp, NEW replaced \in BOOLEAN, ~replaced,
           visited' = [visited EXCEPT !.stamp = Stamp, !.replaced = @ \/ replaced]
    PROVE  /\ visited' \in VisitedState /\ visited'.stamp = Stamp /\ visited'.stale = visited.stale
           /\ ~visited'.lost /\ ~visited'.replaced /\ Grown
<1>1. Stamp \in 0..MaxStamp /\ Stamp >= visited.stamp /\ visited \in VisitedState /\ ~visited.replaced /\ ~visited.lost
  BY EditIs DEF Stamp, FilesInv, NothingIsLostUnasked
<1>2. PICK stamp \in 0..MaxStamp : stamp = Stamp
  BY <1>1
<1>3. visited' = [visited EXCEPT !.stamp = stamp, !.replaced = FALSE]
  BY <1>1, <1>2 DEF VisitedState
<1>4. /\ visited' \in VisitedState /\ visited'.stamp = Stamp /\ visited'.stale = visited.stale
      /\ visited'.lost = visited.lost /\ visited'.replaced = FALSE /\ visited'.seen = visited.seen
  BY <1>1, <1>2, <1>3 DEF VisitedState
<1>5. QED
  BY <1>1, <1>4 DEF Grown

LEMMA DoesKeeps == ASSUME FilesInv, NEW c \in Visits, Does(c) PROVE FilesInv'
<1>1. /\ surface = "edit" /\ UNCHANGED <<surface, member, browser, viewer>> /\ Finishes(c)
      /\ visit[c].kind \in {"create", "mkdir", "upload", "rename", "delete"} /\ visit[c].at = "checked"
  BY DEF Does, Quiet
<1>2. /\ visit[c] \in VisitState /\ visit[c].path \in Paths /\ visited \in VisitedState
      /\ disk \in [Paths -> EntryState]
      /\ visit[c].kind \in {"create", "mkdir", "upload"} => NewOK(c, visit[c].path)
      /\ visit[c].kind = "rename" => visit[c].to \in Paths /\ NewOK(c, visit[c].to)
  BY <1>1, RequestIs, EditIs DEF FilesInv, FileVisitOK
<1>3. ~visited.lost /\ ~visited.replaced
  BY DEF FilesInv, NothingIsLostUnasked
<1>4. ASSUME NEW p \in Paths, NewOK(c, p)
      PROVE  ~Replaces(c, p)
  BY <1>1, <1>4 DEF NewOK, Replaces
<1>5. PICK path \in Paths, by \in SUBSET Visits : path = visit[c].path /\ by = {c}
  BY <1>2
<1>6. CASE /\ visit[c].kind \in {"create", "upload"} /\ visited.stamp < MaxStamp
           /\ disk' = [disk EXCEPT ![visit[c].path] = Written(visit[c].path, Stamp, "file", {c})]
           /\ visited' = [visited EXCEPT !.stamp = Stamp, !.replaced = @ \/ Replaces(c, visit[c].path)]
  <2>1. PICK replaced \in BOOLEAN : replaced = FALSE /\ visited' = [visited EXCEPT !.stamp = Stamp, !.replaced = @ \/ replaced]
    BY <1>2, <1>4, <1>6
  <2>2. /\ visited' \in VisitedState /\ visited'.stamp = Stamp /\ visited'.stale = visited.stale
        /\ ~visited'.lost /\ ~visited'.replaced /\ Grown
    BY <1>6, <2>1, StampIs
  <2>3. PICK text \in Nat : text = Stamp
    BY EditIs DEF Stamp
  <2>4. disk' = [disk EXCEPT ![path] = Written(path, text, "file", by)]
    BY <1>5, <1>6, <2>3
  <2>5. "file" \in {"file", "dir"}
    OBVIOUS
  <2>6. /\ disk' \in [Paths -> EntryState] /\ DiskOK' /\ \A p \in Paths : Renewed(p)
        /\ \A p \in Paths : \A d \in Visits \ by : Marked(p, d)
    BY <1>6, <2>2, <2>4, <2>5, WrittenIs
  <2>7. QED
    BY <1>1, <1>5, <2>2, <2>6, DoneStep
<1>7. CASE /\ visit[c].kind = "mkdir" /\ visited.stamp < MaxStamp
           /\ disk' = [disk EXCEPT ![visit[c].path] = Written(visit[c].path, 0, "dir", {c})]
           /\ visited' = [visited EXCEPT !.stamp = Stamp]
  <2>1. visited' = [visited EXCEPT !.stamp = Stamp, !.replaced = @ \/ FALSE]
    BY <1>2, <1>3, <1>7 DEF VisitedState
  <2>2. /\ visited' \in VisitedState /\ visited'.stamp = Stamp /\ visited'.stale = visited.stale
        /\ ~visited'.lost /\ ~visited'.replaced /\ Grown
    BY <1>7, <2>1, StampIs
  <2>3. PICK text \in Nat : text = 0
    OBVIOUS
  <2>4. disk' = [disk EXCEPT ![path] = Written(path, text, "dir", by)]
    BY <1>5, <1>7, <2>3
  <2>5. "dir" \in {"file", "dir"}
    OBVIOUS
  <2>6. /\ disk' \in [Paths -> EntryState] /\ DiskOK' /\ \A p \in Paths : Renewed(p)
        /\ \A p \in Paths : \A d \in Visits \ by : Marked(p, d)
    BY <1>7, <2>2, <2>4, <2>5, WrittenIs
  <2>7. QED
    BY <1>1, <1>5, <2>2, <2>6, DoneStep
<1>8. CASE /\ visit[c].kind = "rename"
           /\ disk' = [disk EXCEPT ![visit[c].path] = Gone,
                                   ![visit[c].to] = Moved(disk[visit[c].path], visit[c].to, {c})]
           /\ visited' = [visited EXCEPT !.replaced = @ \/ Replaces(c, visit[c].to)]
  BY <1>2, <1>8, <1>4, <1>3, SameVisited, <1>5, MovedIs, <1>1, DoneStep DEF VisitedState
<1>9. CASE disk' = [disk EXCEPT ![visit[c].path] = Gone] /\ UNCHANGED visited
  BY <1>9, SameVisited, <1>5, GoneIs, <1>1, DoneStep
<1>10. CASE UNCHANGED <<disk, visited>>
  BY <1>1, <1>10, FinishStep
<1>11. QED
  BY <1>6, <1>7, <1>8, <1>9, <1>10 DEF Does

LEMMA AgentWritesKeeps == ASSUME FilesInv, NEW path \in Paths, AgentWrites(path) PROVE FilesInv'
<1>1. /\ surface = "edit" /\ UNCHANGED <<surface, member, browser, viewer, visit>> /\ visited.stamp < MaxStamp
      /\ disk' = [disk EXCEPT ![path] = Written(path, Stamp, "file", {})]
      /\ visited' = [visited EXCEPT !.stamp = Stamp]
  BY DEF AgentWrites, Quiet
<1>2. visited \in VisitedState /\ visited.replaced = FALSE
  BY EditIs DEF VisitedState, FilesInv, NothingIsLostUnasked
<1>3. visited' = [visited EXCEPT !.stamp = Stamp, !.replaced = @ \/ FALSE]
  BY <1>1, <1>2 DEF VisitedState
<1>4. /\ visited' \in VisitedState /\ visited'.stamp = Stamp /\ visited'.stale = visited.stale
      /\ ~visited'.lost /\ ~visited'.replaced /\ Grown
  BY <1>1, <1>3, StampIs
<1>0. PICK text \in Nat : text = Stamp
  BY EditIs DEF Stamp
<1>5. PICK by \in SUBSET Visits : by = {}
  OBVIOUS
<1>6. disk' = [disk EXCEPT ![path] = Written(path, text, "file", by)]
  BY <1>0, <1>1, <1>5
<1>7. "file" \in {"file", "dir"}
  OBVIOUS
<1>8. /\ disk' \in [Paths -> EntryState] /\ DiskOK' /\ \A p \in Paths : Renewed(p)
      /\ \A p \in Paths : \A d \in Visits \ by : Marked(p, d)
  BY <1>1, <1>4, <1>6, <1>7, WrittenIs
<1>9. viewer' \in ViewState /\ SameFile /\ ViewerOK'
  BY <1>1, <1>4, <1>8, EditIs, ViewerStays DEF SameFile
<1>10. QED
  BY <1>1, <1>4, <1>5, <1>8, <1>9, EditStill

LEMMA AgentDeletesKeeps == ASSUME FilesInv, NEW path \in Paths, AgentDeletes(path) PROVE FilesInv'
BY SameVisited, GoneIs, EditIs, ViewerStays, EditStill DEF AgentDeletes, Quiet, SameFile

-----------------------------------------------------------------------------
(* The page of a file                                                        *)

LEMMA AsksIs ==
    ASSUME FilesInv, NEW c \in Visits, NEW kind \in {"read", "stat", "write"}, NEW path \in Paths, NEW mount \in Nat
    PROVE  LET x == Asks(c, kind, path, mount)
           IN  /\ x \in VisitState /\ x.at = "asked" /\ x.kind = kind /\ x.path = path /\ x.mount = mount
               /\ x.mtime = 0 /\ x.base = 0 /\ x.result = "none"
<1>1. PICK x : x = [NoVisit EXCEPT !.at = "asked", !.kind = kind, !.path = path, !.mount = mount]
  OBVIOUS
<1>2. "asked" \in FileSteps /\ mount \in Int
  BY DEF FileSteps
<1>3. x \in VisitState
  <2>1. PICK y : y = [NoVisit EXCEPT !.at = "asked", !.kind = kind]
    OBVIOUS
  <2>2. y \in VisitState
    BY ZenonT(40), <1>2, <2>1, NoVisitIs DEF VisitState
  <2>3. x = [y EXCEPT !.path = path, !.mount = mount]
    BY <1>1, <2>1, NoVisitIs DEF VisitState
  <2>4. QED
    BY <1>2, <2>2, <2>3 DEF VisitState
<1>4. /\ x.at = "asked" /\ x.kind = kind /\ x.path = path /\ x.mount = mount
      /\ x.mtime = NoVisit.mtime /\ x.base = NoVisit.base /\ x.result = NoVisit.result
  BY <1>1, NoVisitIs DEF VisitState
<1>5. NoVisit.mtime = 0 /\ NoVisit.base = 0 /\ NoVisit.result = "none"
  BY DEF NoVisit
<1>6. QED
  BY <1>1, <1>3, <1>4, <1>5 DEF Asks

\* Where the view is, while it shows a file.
LEMMA PageIs ==
    ASSUME FilesInv, Page
    PROVE  /\ surface = "edit" /\ viewer.path \in Paths /\ viewer.text \in visited.seen
           /\ Says(viewer.path, viewer.mtime, viewer.text) /\ viewer.mtime <= visited.stamp
           /\ viewer.mount \in Nat /\ viewer.mtime \in 0..MaxStamp /\ viewer.draft \in Nat
BY EditIs DEF Page, FilesInv, ViewerOK, ViewState

\* The view asks the worker for something of its file.
LEMMA PageAsks ==
    ASSUME FilesInv, Page, UNCHANGED <<surface, member, browser, disk, viewer>>,
           visited' = visited \/ visited' = [visited EXCEPT !.begun = @ + 1],
           NEW c \in Visits, NEW kind \in {"read", "stat"},
           visit' = [visit EXCEPT ![c] = Asks(c, kind, viewer.path, viewer.mount)]
    PROVE  FilesInv'
<1>1. PICK x : x = Asks(c, kind, viewer.path, viewer.mount)
  OBVIOUS
<1>2. /\ x \in VisitState /\ x.at = "asked" /\ x.kind = kind /\ x.path = viewer.path /\ x.mount = viewer.mount
      /\ x.mtime = 0 /\ x.base = 0
  BY <1>1, AsksIs, PageIs
<1>3. visit' = [visit EXCEPT ![c] = x] /\ visit'[c] = x
  BY <1>1, <1>2, VisitIs
<1>4. visited'.stamp = visited.stamp
  BY OnlyBegun
<1>5. FileVisitOK(c)'
  BY <1>2, <1>3, <1>4, PageIs, EditIs DEF FileVisitOK
<1>6. QED
  BY <1>2, <1>3, <1>5, PageIs, VisitStep DEF FileSteps

LEMMA PollFileKeeps == ASSUME FilesInv, NEW c \in Visits, PollFile(c) PROVE FilesInv'
BY PageAsks DEF PollFile, Begins, Quiet

LEMMA ReloadKeeps == ASSUME FilesInv, NEW c \in Visits, Reload(c) PROVE FilesInv'
BY PageAsks DEF Reload, Begins, Quiet

LEMMA SelectKeeps == ASSUME FilesInv, NEW c \in Visits, NEW path \in Paths, Select(c, path) PROVE FilesInv'
<1>1. /\ surface = "edit" /\ UNCHANGED <<surface, member, browser, disk>>
      /\ visited' = [visited EXCEPT !.begun = @ + 1]
      /\ visit' = [visit EXCEPT ![c] = Asks(c, "read", path, viewer.mount + 1)]
      /\ viewer' = [Unmounted EXCEPT !.path = path, !.mount = viewer.mount + 1]
  BY DEF Select, Begins, Quiet
<1>2. PICK mount \in Nat : mount = viewer.mount + 1
  BY EditIs
<1>3. PICK x : x = Asks(c, "read", path, mount)
  OBVIOUS
<1>4. /\ x \in VisitState /\ x.at = "asked" /\ x.kind = "read" /\ x.path = path /\ x.mount = mount
      /\ x.mtime = 0 /\ x.base = 0
  BY <1>3, AsksIs
<1>5. visit' = [visit EXCEPT ![c] = x] /\ visit'[c] = x
  BY <1>1, <1>2, <1>3, <1>4, VisitIs
<1>6. /\ visited' \in VisitedState /\ visited'.stale = visited.stale /\ ~visited'.lost /\ ~visited'.replaced
      /\ Grown /\ visited'.stamp = visited.stamp
  BY <1>1, OnlyBegun
<1>7. /\ viewer' \in ViewState /\ viewer'.path = path /\ viewer'.mount = mount /\ ~viewer'.open
      /\ viewer'.mtime = 0
  BY NoVisitIs, <1>1, <1>2 DEF Unmounted, ViewState
<1>8. NextFile
  BY <1>2, <1>7 DEF NextFile
<1>9. /\ disk' \in [Paths -> EntryState] /\ DiskOK'
      /\ \A p \in Paths : Renewed(p) /\ \A d \in Visits : Marked(p, d)
  BY <1>1, <1>6, SameDisk, EditIs
<1>10. ViewerOK'
  BY <1>6, <1>7, EditIs DEF ViewerOK
<1>11. FileVisitOK(c)'
  BY <1>1, <1>4, <1>5, <1>6, <1>7, EditIs DEF FileVisitOK
<1>12. QED
  BY <1>1, <1>4, <1>5, <1>6, <1>7, <1>8, <1>9, <1>10, <1>11, EditStep DEF FileSteps

\* A step of the view alone, that leaves what it knows of its file.
LEMMA PageMoves ==
    ASSUME FilesInv, surface = "edit", UNCHANGED <<surface, member, browser, disk, visit>>,
           viewer' \in ViewState, SameFile, viewer'.mtime = viewer.mtime, viewer'.text = viewer.text,
           viewer'.open = viewer.open,
           visited' \in VisitedState, visited'.stamp = visited.stamp, visited'.seen = visited.seen,
           visited'.stale = visited.stale, visited'.lost = visited.lost, visited'.replaced = visited.replaced
    PROVE  FilesInv'
BY EditIs, SameDisk, ViewerStays, EditStill DEF Grown, FilesInv, NothingIsLostUnasked,
   SameFile

LEMMA TypeKeeps == FilesInv /\ Type => FilesInv'
<1>1. SUFFICES ASSUME FilesInv, Type
               PROVE  FilesInv'
  OBVIOUS
<1>2. /\ surface = "edit" /\ UNCHANGED <<surface, member, browser, disk, visit>>
      /\ viewer' = [viewer EXCEPT !.draft = MaxStamp + visited.typed + 1]
      /\ visited' = [visited EXCEPT !.typed = @ + 1]
  BY <1>1 DEF Type, Page, Quiet
<1>3. visited \in VisitedState /\ visited.typed \in Nat /\ viewer \in ViewState /\ MaxStamp \in Nat
  BY <1>1, EditIs DEF VisitedState
<1>4. PICK typed \in Nat, draft \in Nat : typed = visited.typed + 1 /\ draft = MaxStamp + visited.typed + 1
  BY <1>3
<1>5. viewer' = [viewer EXCEPT !.draft = draft] /\ visited' = [visited EXCEPT !.typed = typed]
  BY <1>2, <1>3, <1>4
<1>6. /\ viewer' \in ViewState /\ SameFile /\ viewer'.mtime = viewer.mtime /\ viewer'.text = viewer.text
      /\ viewer'.open = viewer.open
  BY <1>3, <1>5 DEF ViewState, SameFile
<1>7. /\ visited' \in VisitedState /\ visited'.stamp = visited.stamp /\ visited'.seen = visited.seen
      /\ visited'.stale = visited.stale /\ visited'.lost = visited.lost /\ visited'.replaced = visited.replaced
  BY <1>3, <1>5 DEF VisitedState
<1>8. QED
  BY <1>1, <1>2, <1>6, <1>7, PageMoves

LEMMA RevertKeeps == FilesInv /\ Revert => FilesInv'
<1>1. SUFFICES ASSUME FilesInv, Revert
               PROVE  FilesInv'
  OBVIOUS
<1>2. /\ surface = "edit" /\ UNCHANGED <<surface, member, browser, disk, visit, visited>>
      /\ viewer' = [viewer EXCEPT !.draft = viewer.text, !.conflict = FALSE]
  BY <1>1 DEF Revert, Page, Quiet
<1>3. viewer \in ViewState /\ visited' \in VisitedState
  BY <1>1, <1>2, EditIs
<1>4. /\ viewer' \in ViewState /\ SameFile /\ viewer'.mtime = viewer.mtime /\ viewer'.text = viewer.text
      /\ viewer'.open = viewer.open
  BY <1>2, <1>3 DEF ViewState, SameFile
<1>5. QED
  BY <1>1, <1>2, <1>3, <1>4, PageMoves

\* An answer comes to the view: what it then says of its file is so.
LEMMA ViewStep ==
    ASSUME FilesInv, surface = "edit", UNCHANGED <<surface, member, browser, disk>>,
           NEW c \in Visits, NEW x \in VisitState, visit' = [visit EXCEPT ![c] = x],
           x.at \in {"idle"} \cup FileSteps, x.at = "idle" => x.kind = "none", FileVisitOK(c)',
           viewer' \in ViewState, SameFile, visited' \in VisitedState, visited'.stamp = visited.stamp,
           visited.seen \subseteq visited'.seen, visited'.stale = visited.stale, visited'.lost = visited.lost,
           visited'.replaced = visited.replaced, viewer'.mtime <= visited.stamp,
           viewer'.open => /\ viewer.path \in Paths /\ viewer'.text \in visited'.seen
                           /\ Says(viewer.path, viewer'.mtime, viewer'.text)
    PROVE  FilesInv'
<1>1. Grown /\ ~visited'.lost /\ ~visited'.replaced
  BY EditIs DEF Grown, FilesInv, NothingIsLostUnasked
<1>2. /\ disk' \in [Paths -> EntryState] /\ DiskOK'
      /\ \A p \in Paths : Renewed(p) /\ \A d \in Visits : Marked(p, d)
  BY SameDisk, EditIs
<1>3. ViewerOK'
  BY DEF ViewerOK, SameFile, Says, Plain
<1>4. QED
  BY <1>1, <1>2, <1>3, EditStep

\* The request of the view that is over.
LEMMA ViewDone ==
    ASSUME FilesInv, NEW c \in Visits, Finishes(c)
    PROVE  /\ visit' = [visit EXCEPT ![c] = NoVisit] /\ NoVisit \in VisitState /\ FileVisitOK(c)'
           /\ NoVisit.at \in {"idle"} \cup FileSteps /\ (NoVisit.at = "idle" => NoVisit.kind = "none")
BY NoVisitIs, VisitIs, OverOK DEF Finishes

LEMMA LoadsKeeps == ASSUME FilesInv, NEW c \in Visits, Loads(c) PROVE FilesInv'
<1>1. /\ surface = "edit" /\ UNCHANGED <<surface, member, browser, disk>> /\ Finishes(c)
      /\ visit[c].kind = "read" /\ visit[c].at = "answered"
  BY DEF Loads, FileAnswered, FileStep, Quiet
<1>2. CASE ~(Mounted(c) /\ visit[c].result = "ok")
  BY <1>2, <1>1, FinishStep DEF Loads
<1>3. CASE Mounted(c) /\ visit[c].result = "ok"
  <2>1. /\ viewer' = [viewer EXCEPT !.mtime = visit[c].mtime, !.text = visit[c].text, !.draft = visit[c].text,
                                    !.open = TRUE, !.conflict = FALSE, !.changed = FALSE]
        /\ visited' = [visited EXCEPT !.seen = @ \cup {visit[c].text}]
    BY <1>3 DEF Loads
  <2>2. /\ visit[c].text \in Nat /\ visit[c].mtime \in 0..MaxStamp /\ visit[c].mtime <= visited.stamp
        /\ viewer.path \in Paths /\ Says(viewer.path, visit[c].mtime, visit[c].text)
    BY <1>1, <1>3, RequestIs DEF Mounted, FilesInv, FileVisitOK, VisitState
  <2>3. viewer \in ViewState /\ visited \in VisitedState
    BY EditIs
  <2>4. /\ viewer' \in ViewState /\ SameFile /\ viewer'.mtime = visit[c].mtime /\ viewer'.text = visit[c].text
    BY <2>1, <2>2, <2>3 DEF ViewState, SameFile
  <2>5. PICK seen \in SUBSET Nat : seen = visited.seen \cup {visit[c].text}
    BY <2>2, <2>3 DEF VisitedState
  <2>6. visited' = [visited EXCEPT !.seen = seen]
    BY <2>1, <2>5
  <2>7. /\ visited' \in VisitedState /\ visited'.stamp = visited.stamp /\ visited'.seen = seen
        /\ visited'.stale = visited.stale /\ visited'.lost = visited.lost /\ visited'.replaced = visited.replaced
    BY <2>3, <2>6 DEF VisitedState
  <2>8. visited.seen \subseteq seen /\ visit[c].text \in seen
    BY <2>5
  <2>9. QED
    BY <1>1, <2>2, <2>4, <2>7, <2>8, ViewDone, ViewStep
<1>4. QED
  BY <1>2, <1>3

LEMMA FilePolledKeeps == ASSUME FilesInv, NEW c \in Visits, FilePolled(c) PROVE FilesInv'
<1>1. /\ surface = "edit" /\ UNCHANGED <<surface, member, browser, disk, visited>>
      /\ visit[c].kind = "stat" /\ visit[c].at = "answered"
  BY DEF FilePolled, FileAnswered, FileStep, Quiet
<1>2. PICK fresh \in BOOLEAN : fresh = (Mounted(c) /\ visit[c].result = "ok" /\ visit[c].mtime # viewer.mtime)
  BY DEF Mounted
<1>3. PICK changed \in BOOLEAN : changed = (viewer.changed \/ (fresh /\ Dirty))
  BY EditIs DEF ViewState
<1>4. viewer' = [viewer EXCEPT !.changed = changed]
  BY <1>2, <1>3, Zenon DEF FilePolled
<1>5. /\ viewer' \in ViewState /\ SameFile /\ viewer'.mtime = viewer.mtime /\ viewer'.text = viewer.text
      /\ viewer'.open = viewer.open
  BY <1>4, EditIs DEF ViewState, SameFile
<1>6. /\ visited' \in VisitedState /\ viewer.mtime <= visited.stamp
      /\ viewer'.open => /\ viewer.path \in Paths /\ viewer'.text \in visited.seen
                         /\ Says(viewer.path, viewer'.mtime, viewer'.text)
  BY <1>1, <1>5, EditIs DEF FilesInv, ViewerOK
<1>7. CASE Finishes(c)
  BY <1>1, <1>5, <1>6, <1>7, ViewDone, ViewStep
<1>8. CASE fresh /\ visit' = [visit EXCEPT ![c] = Asks(c, "read", viewer.path, viewer.mount)]
  <2>1. viewer.path \in Paths /\ viewer.mount \in Nat
    BY <1>1, <1>2, <1>8, RequestIs, EditIs DEF Mounted
  <2>2. PICK x : x = Asks(c, "read", viewer.path, viewer.mount)
    OBVIOUS
  <2>3. /\ x \in VisitState /\ x.at = "asked" /\ x.kind = "read" /\ x.path = viewer.path /\ x.mount = viewer.mount
        /\ x.mtime = 0 /\ x.base = 0
    BY <2>1, <2>2, AsksIs
  <2>4. visit' = [visit EXCEPT ![c] = x] /\ visit'[c] = x
    BY <1>8, <2>2, <2>3, VisitIs
  <2>5. FileVisitOK(c)'
    BY <1>1, <1>5, <2>1, <2>3, <2>4, EditIs DEF FileVisitOK, SameFile
  <2>6. QED
    BY <1>1, <1>5, <1>6, <2>3, <2>4, <2>5, ViewStep DEF FileSteps
<1>9. QED
  BY <1>2, <1>7, <1>8 DEF FilePolled

LEMMA SaveFileKeeps == ASSUME FilesInv, NEW c \in Visits, NEW force \in BOOLEAN, SaveFile(c, force) PROVE FilesInv'
<1>1. /\ Page /\ UNCHANGED <<surface, member, browser, disk>>
      /\ visited' = [visited EXCEPT !.begun = @ + 1] /\ viewer' = [viewer EXCEPT !.saving = TRUE]
      /\ visit' = [visit EXCEPT ![c] = [Asks(c, "write", viewer.path, viewer.mount) EXCEPT
                                          !.text = viewer.draft, !.base = viewer.mtime, !.force = force]]
  BY DEF SaveFile, Begins, Quiet
<1>2. /\ surface = "edit" /\ viewer.path \in Paths /\ viewer.text \in visited.seen
      /\ Says(viewer.path, viewer.mtime, viewer.text) /\ viewer.mtime <= visited.stamp
      /\ viewer.mount \in Nat /\ viewer.mtime \in 0..MaxStamp /\ viewer.draft \in Nat
  BY <1>1, PageIs
<1>3. PICK y : y = Asks(c, "write", viewer.path, viewer.mount)
  OBVIOUS
<1>4. /\ y \in VisitState /\ y.at = "asked" /\ y.kind = "write" /\ y.path = viewer.path /\ y.mount = viewer.mount
      /\ y.mtime = 0
  BY <1>2, <1>3, AsksIs
<1>5. PICK x : x = [y EXCEPT !.text = viewer.draft, !.base = viewer.mtime, !.force = force]
  OBVIOUS
<1>6. /\ x \in VisitState /\ x.at = "asked" /\ x.kind = "write" /\ x.path = viewer.path /\ x.mount = viewer.mount
      /\ x.mtime = 0 /\ x.base = viewer.mtime
  BY <1>2, <1>4, <1>5 DEF VisitState
<1>7. visit' = [visit EXCEPT ![c] = x] /\ visit'[c] = x
  BY <1>1, <1>3, <1>5, <1>6, VisitIs
<1>8. /\ visited' \in VisitedState /\ visited'.stamp = visited.stamp /\ visited'.seen = visited.seen
      /\ visited'.stale = visited.stale /\ visited'.lost = visited.lost /\ visited'.replaced = visited.replaced
  BY <1>1, BegunIs, OnlyBegun
<1>9. /\ viewer' \in ViewState /\ SameFile /\ viewer'.mtime = viewer.mtime /\ viewer'.text = viewer.text
      /\ viewer'.open = viewer.open
  BY <1>1, EditIs DEF ViewState, SameFile
<1>10. FileVisitOK(c)'
  <2>1. PICK p \in Paths : p = viewer.path
    BY <1>2
  <2>2. Plain(p)' /\ disk'[p].mtime = viewer.mtime => disk'[p].text \in visited'.seen
    BY <1>1, <1>2, <1>8, <2>1 DEF Says, Plain
  <2>3. visit'[c].at = "asked" /\ visit'[c].path = p /\ visit'[c].base = viewer.mtime /\ visit'[c].kind = "write"
    BY <1>6, <1>7, <2>1
  <2>4. SaveOK(c)'
    BY <2>2, <2>3 DEF SaveOK, Plain
  <2>5. /\ visit'[c].mtime <= visited'.stamp /\ visit'[c].base <= visited'.stamp
        /\ visit'[c].mount = viewer'.mount /\ visit'[c].path = viewer'.path /\ viewer'.mount \in Nat
    BY FilesAssumption, <1>2, <1>6, <1>7, <1>8, <1>9 DEF FilesInv, FilesTypes, VisitedState,
       SameFile
  <2>6. QED
    BY <2>1, <2>3, <2>4, <2>5 DEF FileVisitOK
<1>11. QED
  BY <1>1, <1>2, <1>6, <1>7, <1>8, <1>9, <1>10, ViewStep DEF FileSteps

LEMMA FileSavedKeeps == ASSUME FilesInv, NEW c \in Visits, FileSaved(c) PROVE FilesInv'
<1>1. /\ surface = "edit" /\ UNCHANGED <<surface, member, browser, disk, visited>> /\ Finishes(c)
      /\ visit[c].kind = "write" /\ visit[c].at = "answered"
  BY DEF FileSaved, FileAnswered, FileStep, Quiet
<1>2. /\ visited' \in VisitedState /\ viewer \in ViewState /\ viewer.mtime <= visited.stamp
      /\ viewer.open => /\ viewer.path \in Paths /\ viewer.text \in visited.seen
                        /\ Says(viewer.path, viewer.mtime, viewer.text)
  BY <1>1, EditIs DEF FilesInv, ViewerOK
<1>3. CASE Mounted(c) /\ visit[c].result = "ok"
  <2>1. viewer' = [viewer EXCEPT !.mtime = visit[c].mtime, !.text = visit[c].text,
                                 !.conflict = FALSE, !.changed = FALSE, !.saving = FALSE]
    BY <1>3 DEF FileSaved
  <2>2. /\ visit[c].text \in Nat /\ visit[c].mtime \in 0..MaxStamp /\ visit[c].mtime <= visited.stamp
        /\ viewer.path \in Paths /\ Says(viewer.path, visit[c].mtime, visit[c].text)
        /\ visit[c].text \in visited.seen
    BY <1>1, <1>3, RequestIs DEF Mounted, FilesInv, FileVisitOK, SaveOK, VisitState
  <2>3. /\ viewer' \in ViewState /\ SameFile /\ viewer'.mtime = visit[c].mtime /\ viewer'.text = visit[c].text
    BY <1>2, <2>1, <2>2 DEF ViewState, SameFile
  <2>4. QED
    BY <1>1, <1>2, <2>2, <2>3, ViewDone, ViewStep
<1>4. CASE ~(Mounted(c) /\ visit[c].result = "ok")
  BY <1>4, <1>2, <1>1, ViewDone, ViewStep DEF FileSaved, ViewState, SameFile
<1>5. QED
  BY <1>3, <1>4

-----------------------------------------------------------------------------
(* The folder shown                                                          *)

LEMMA BrowseMoves ==
    ASSUME FilesInv, surface = "browse", UNCHANGED <<surface, member, disk, viewer>>,
           visited' = visited \/ visited' = [visited EXCEPT !.begun = @ + 1],
           browser' \in BrowserState, visit' \in [Visits -> VisitState], ListingIsOfTheFolder',
           \A d \in Visits : PlaceOK(d)' /\ IdleOK(d)' /\ ListVisitOK(d)'
    PROVE  FilesInv'
<1>1. /\ visited' \in VisitedState /\ visited'.stamp = visited.stamp /\ ~visited'.stale
      /\ visited'.seen = visited.seen /\ ~visited'.lost /\ ~visited'.replaced
  BY OnlyBegun, BegunIs, SameVisited DEF FilesInv
<1>2. FilesTypes'
  BY <1>1 DEF FilesInv, FilesTypes
<1>3. RolesHeld' /\ DiskOK' /\ ViewerOK' /\ BrowserOK' /\ NothingIsLostUnasked'
  BY <1>1 DEF FilesInv, RolesHeld, DiskOK, ViewerOK, BrowserOK, NothingIsLostUnasked
<1>4. \A d \in Visits : RoleVisitOK(d)' /\ FileVisitOK(d)'
  BY DEF PlaceOK, RoleVisitOK, FileVisitOK, RoleSteps
<1>5. QED
  BY <1>1, <1>2, <1>3, <1>4 DEF FilesInv

\* A listing under way that is not cancelled stays so, until the folder is another.
LEMMA BrowseStep ==
    ASSUME FilesInv, surface = "browse", UNCHANGED <<surface, member, disk, viewer>>,
           visited' = visited \/ visited' = [visited EXCEPT !.begun = @ + 1],
           browser' \in BrowserState,
           \/ browser'.turn = browser.turn /\ browser'.dir = browser.dir
           \/ browser'.turn = browser.turn + 1,
           NEW c \in Visits, NEW x \in VisitState, visit' = [visit EXCEPT ![c] = x],
           x.at = "idle" => x.kind = "none",
           x.at # "idle" => /\ x.at \in {"asked", "answered"} /\ x.kind = "list" /\ x.mount <= browser'.turn
                            /\ x.mount = browser'.turn => x.path = browser'.dir,
           ListingIsOfTheFolder'
    PROVE  FilesInv'
BY VisitIs, EditIs, BrowseMoves DEF FilesInv, FilesTypes, BrowserState, PlaceOK, IdleOK,
   ListVisitOK

LEMMA ListsIs ==
    ASSUME NEW folder \in Folders, NEW turn \in Nat
    PROVE  LET x == Lists(folder, turn)
           IN  /\ x \in VisitState /\ x.at = "asked" /\ x.kind = "list" /\ x.path = folder /\ x.mount = turn
<1>1. PICK x : x = [NoVisit EXCEPT !.at = "asked", !.kind = "list", !.path = folder, !.mount = turn]
  OBVIOUS
<1>2. "asked" \in FileSteps /\ turn \in Int
  BY DEF FileSteps
<1>3. x \in VisitState
  <2>1. PICK y : y = [NoVisit EXCEPT !.at = "asked", !.kind = "list"]
    OBVIOUS
  <2>2. y \in VisitState
    BY ZenonT(40), <1>2, <2>1, NoVisitIs DEF VisitState
  <2>3. x = [y EXCEPT !.path = folder, !.mount = turn]
    BY <1>1, <2>1, NoVisitIs DEF VisitState
  <2>4. QED
    BY <1>2, <2>2, <2>3 DEF VisitState
<1>4. x.at = "asked" /\ x.kind = "list" /\ x.path = folder /\ x.mount = turn
  BY <1>1, NoVisitIs DEF VisitState
<1>5. QED
  BY <1>1, <1>3, <1>4 DEF Lists

LEMMA OpenFolderKeeps == ASSUME FilesInv, NEW c \in Visits, NEW folder \in Folders, OpenFolder(c, folder) PROVE FilesInv'
<1>1. /\ surface = "browse" /\ UNCHANGED <<surface, member, disk, viewer>>
      /\ visited' = [visited EXCEPT !.begun = @ + 1]
      /\ visit' = [visit EXCEPT ![c] = Lists(folder, browser.turn + 1)]
      /\ browser' = [browser EXCEPT !.dir = folder, !.turn = @ + 1]
      /\ browser \in BrowserState
  BY DEF OpenFolder, Browses, Begins, Elsewhere, FilesInv, FilesTypes
<1>2. PICK turn \in Nat : turn = browser.turn + 1
  BY <1>1 DEF BrowserState
<1>3. PICK x : x = Lists(folder, turn)
  OBVIOUS
<1>4. x \in VisitState /\ x.at = "asked" /\ x.kind = "list" /\ x.path = folder /\ x.mount = turn
  BY <1>3, ListsIs
<1>5. browser' = [browser EXCEPT !.dir = folder, !.turn = turn]
  BY <1>1, <1>2
<1>6. browser' \in BrowserState /\ browser'.dir = folder /\ browser'.turn = turn
  BY <1>1, <1>5 DEF BrowserState
<1>7. visit' = [visit EXCEPT ![c] = x] /\ visit'[c] = x
  BY <1>1, <1>2, <1>3, <1>4, VisitIs
<1>8. ListingIsOfTheFolder'
  BY <1>4, <1>6, <1>7 DEF ListingIsOfTheFolder
<1>9. /\ x.at = "idle" => x.kind = "none"
      /\ x.at \in {"asked", "answered"} /\ x.kind = "list" /\ x.mount <= browser'.turn
      /\ x.mount = browser'.turn => x.path = browser'.dir
      /\ browser'.turn = browser.turn + 1
  BY <1>2, <1>4, <1>6
<1>10. x \in VisitState /\ browser' \in BrowserState /\ visit' = [visit EXCEPT ![c] = x]
  BY <1>4, <1>6, <1>7
<1>11. visited' = visited \/ visited' = [visited EXCEPT !.begun = @ + 1]
  BY <1>1
<1>12. surface = "browse" /\ UNCHANGED <<surface, member, disk, viewer>>
  BY <1>1
<1>13. QED
  BY <1>8, <1>9, <1>10, <1>11, <1>12, BrowseStep

LEMMA FolderAnswersKeeps == ASSUME FilesInv, NEW c \in Visits, FolderAnswers(c) PROVE FilesInv'
<1>1. /\ surface = "browse" /\ UNCHANGED <<surface, member, disk, viewer, browser, visited>>
      /\ visit[c].at = "asked" /\ visit[c] \in VisitState /\ browser \in BrowserState
  BY EditIs DEF FolderAnswers, Browses, Elsewhere, FilesInv, FilesTypes
<1>2. PICK result \in {"refused", "ok", "not_found"} :
         visit' = [visit EXCEPT ![c].at = "answered", ![c].result = result]
  BY DEF FolderAnswers
<1>3. PICK x : x = [visit[c] EXCEPT !.at = "answered", !.result = result]
  OBVIOUS
<1>4. /\ x \in VisitState /\ x.at = "answered" /\ x.kind = visit[c].kind /\ x.path = visit[c].path
      /\ x.mount = visit[c].mount
  BY <1>1, <1>3 DEF FileSteps, VisitState
<1>5. visit' = [visit EXCEPT ![c] = x]
  BY <1>2, <1>3, EditIs
<1>6. visit'[c] = x /\ \A d \in Visits \ {c} : visit'[d] = visit[d]
  BY <1>4, <1>5, VisitIs
<1>7. /\ visit[c].kind = "list" /\ visit[c].mount <= browser.turn
      /\ visit[c].mount = browser.turn => visit[c].path = browser.dir
  BY <1>1 DEF FilesInv, FilesTypes, PlaceOK, ListVisitOK
<1>8. ListingIsOfTheFolder'
  BY <1>4, <1>6, <1>1 DEF FilesInv, ListingIsOfTheFolder
<1>9. QED
  BY <1>1, <1>4, <1>5, <1>7, <1>8, BrowseStep

LEMMA ListAnsweredKeeps == ASSUME FilesInv, NEW c \in Visits, ListAnswered(c) PROVE FilesInv'
<1>1. /\ surface = "browse" /\ UNCHANGED <<surface, member, disk, viewer, visited>>
      /\ visit[c].at = "answered" /\ visit[c] \in VisitState /\ browser \in BrowserState
      /\ browser.turn \in Nat /\ visit[c].path \in Paths \cup Folders \cup {"none"}
  BY EditIs DEF ListAnswered, Browses, Elsewhere, FilesInv, FilesTypes, BrowserState, VisitState
<1>2. /\ visit[c].kind = "list" /\ visit[c].mount <= browser.turn
      /\ visit[c].mount = browser.turn => visit[c].path = browser.dir
  BY <1>1 DEF FilesInv, FilesTypes, PlaceOK, ListVisitOK
<1>3. CASE Cancelled(c) /\ Finishes(c) /\ UNCHANGED browser
  BY <1>3, NoVisitIs, VisitIs, <1>1, BrowseStep DEF Finishes, FilesInv,
     ListingIsOfTheFolder, Cancelled
<1>4. CASE ~Cancelled(c) /\ Finishes(c) /\ browser' = [browser EXCEPT !.listing = visit[c].path, !.error = FALSE]
  BY <1>2, <1>4, <1>1, NoVisitIs, BrowseStep DEF Finishes, Cancelled, BrowserState,
     ListingIsOfTheFolder
<1>5. CASE /\ visit' = [visit EXCEPT ![c] = Lists("top", browser.turn + 1)]
           /\ browser' = [browser EXCEPT !.dir = "top", !.turn = @ + 1]
  <2>1. PICK turn \in Nat : turn = browser.turn + 1 /\ turn <= turn
    BY <1>1
  <2>2. PICK x : x = Lists("top", turn)
    OBVIOUS
  <2>3. x \in VisitState /\ x.at = "asked" /\ x.kind = "list" /\ x.path = "top" /\ x.mount = turn
    BY <2>2, ListsIs DEF Folders
  <2>4. browser' = [browser EXCEPT !.dir = "top", !.turn = turn]
    BY <1>5, <2>1
  <2>5. browser' \in BrowserState /\ browser'.dir = "top" /\ browser'.turn = turn
    BY <1>1, <2>4 DEF BrowserState, Folders
  <2>6. visit' = [visit EXCEPT ![c] = x] /\ visit'[c] = x
    BY <1>5, <2>1, <2>2, <2>3, VisitIs
  <2>7. ListingIsOfTheFolder'
    BY <2>3, <2>5, <2>6 DEF ListingIsOfTheFolder
  <2>8. QED
    BY <1>1, <2>1, <2>3, <2>5, <2>6, <2>7, BrowseStep
<1>6. CASE Finishes(c) /\ browser' = [browser EXCEPT !.error = TRUE]
  BY <1>6, <1>1, NoVisitIs, BrowseStep DEF Finishes, BrowserState, ListingIsOfTheFolder
<1>7. QED
  BY <1>3, <1>4, <1>5, <1>6 DEF ListAnswered

LEMMA FolderComesOrGoesKeeps == FilesInv /\ FolderComesOrGoes => FilesInv'
<1>1. SUFFICES ASSUME FilesInv, FolderComesOrGoes
               PROVE  FilesInv'
  OBVIOUS
<1>2. /\ surface = "browse" /\ UNCHANGED <<surface, member, disk, viewer, visit, visited>>
      /\ browser' = [browser EXCEPT !.there = ~@] /\ browser \in BrowserState
  BY <1>1 DEF FolderComesOrGoes, Browses, Elsewhere, FilesInv, FilesTypes
<1>3. /\ browser' \in BrowserState /\ browser'.dir = browser.dir /\ browser'.turn = browser.turn
      /\ browser'.listing = browser.listing /\ browser'.error = browser.error
  BY <1>2 DEF BrowserState
<1>4. ListingIsOfTheFolder'
  BY <1>1, <1>2, <1>3 DEF FilesInv, ListingIsOfTheFolder
<1>5. \A d \in Visits : PlaceOK(d)' /\ IdleOK(d)' /\ ListVisitOK(d)'
  BY <1>1, <1>2, <1>3 DEF FilesInv, PlaceOK, IdleOK, ListVisitOK
<1>6. visit' \in [Visits -> VisitState]
  BY <1>1, <1>2, EditIs
<1>7. QED
  BY <1>1, <1>2, <1>3, <1>4, <1>5, <1>6, BrowseMoves

LEMMA FilesKeep == FilesInv /\ [FilesNext]_filesVars => FilesInv'
<1>1. SUFFICES ASSUME FilesInv, [FilesNext]_filesVars
               PROVE  FilesInv'
  OBVIOUS
<1>2. ASSUME NEW c \in Visits,
             \/ \E need \in {"read", "write"} : Visit(c, need)
             \/ ResolveRole(c) \/ HostReads(c) \/ RolesArrive(c) \/ RolesFail(c)
      PROVE  FilesInv'
  BY <1>1, <1>2, VisitKeeps, ResolveRoleKeeps, HostReadsKeeps, RolesArriveKeeps, RolesFailKeeps
<1>3. ASSUME NEW c \in Visits, NEW p \in Paths,
             \/ Request(c, "upload", p, p, TRUE)
             \/ \E kind \in {"create", "mkdir", "delete"} : Request(c, kind, p, p, FALSE)
             \/ \E q \in Paths \ {p} : Request(c, "rename", p, q, FALSE)
             \/ Select(c, p)
      PROVE  FilesInv'
  BY <1>1, RequestKeeps, SelectKeeps, <1>3
<1>4. ASSUME NEW c \in Visits,
             \/ ReadStats(c) \/ ReadFile(c) \/ Stat(c) \/ CheckSave(c) \/ WriteFile(c) \/ StatWritten(c)
             \/ Looks(c) \/ Does(c)
      PROVE  FilesInv'
  BY <1>1, <1>4, ReadStatsKeeps, ReadFileKeeps, StatKeeps, CheckSaveKeeps, WriteFileKeeps, StatWrittenKeeps,
     LooksKeeps, DoesKeeps
<1>5. ASSUME NEW c \in Visits,
             \/ Loads(c) \/ PollFile(c) \/ FilePolled(c) \/ SaveFile(c, TRUE) \/ SaveFile(c, FALSE) \/ FileSaved(c)
             \/ Reload(c)
      PROVE  FilesInv'
  BY <1>1, <1>5, LoadsKeeps, PollFileKeeps, FilePolledKeeps, SaveFileKeeps, FileSavedKeeps, ReloadKeeps
<1>6. ASSUME NEW c \in Visits,
             (\E folder \in {"top", "inner"} : OpenFolder(c, folder)) \/ FolderAnswers(c) \/ ListAnswered(c)
      PROVE  FilesInv'
  BY <1>1, <1>6, OpenFolderKeeps, FolderAnswersKeeps, ListAnsweredKeeps DEF Folders
<1>7. CASE RoleChanges \/ MomentPasses \/ Type \/ Revert \/ FolderComesOrGoes
  BY <1>1, <1>7, RoleChangesKeeps, MomentPassesKeeps, TypeKeeps, RevertKeeps, FolderComesOrGoesKeeps
<1>8. ASSUME NEW p \in Paths, AgentWrites(p) \/ AgentDeletes(p)
      PROVE  FilesInv'
  BY <1>1, <1>8, AgentWritesKeeps, AgentDeletesKeeps
<1>9. CASE UNCHANGED filesVars
  <2>1. UNCHANGED <<surface, member, disk, viewer, browser, visit, visited>>
    BY <1>9 DEF filesVars
  <2>2. FilesTypes' /\ RolesHeld' /\ DiskOK' /\ ViewerOK' /\ BrowserOK' /\ ListingIsOfTheFolder'
    BY <1>1, <2>1 DEF FilesInv, FilesTypes, RolesHeld, DiskOK, ViewerOK, BrowserOK, ListingIsOfTheFolder, Says, Plain
  <2>3. ASSUME NEW c \in Visits
        PROVE  (PlaceOK(c) /\ IdleOK(c) /\ RoleVisitOK(c) /\ FileVisitOK(c) /\ ListVisitOK(c))'
    <3>1. PlaceOK(c) /\ IdleOK(c) /\ RoleVisitOK(c) /\ FileVisitOK(c) /\ ListVisitOK(c)
      BY <1>1 DEF FilesInv
    <3>2. (PlaceOK(c) /\ IdleOK(c) /\ RoleVisitOK(c) /\ ListVisitOK(c))'
      BY <2>1, <3>1 DEF PlaceOK, IdleOK, RoleVisitOK, ListVisitOK
    <3>3. FileVisitOK(c)'
      BY <2>1, <3>1 DEF FileVisitOK, SaveOK, NewOK, Says, Plain
    <3>4. QED
      BY <3>2, <3>3
  <2>4. (~visited.stale /\ NothingIsLostUnasked)'
    BY <1>1, <2>1 DEF FilesInv, NothingIsLostUnasked
  <2>5. QED
    BY <2>2, <2>3, <2>4 DEF FilesInv
<1>10. QED
  BY <1>1, <1>2, <1>3, <1>4, <1>5, <1>6, <1>7, <1>8, <1>9, Zenon DEF FilesNext

-----------------------------------------------------------------------------
(* Notices: lists of devices                                               *)

\* The positions of a list and what a list with nothing said twice is.
OwnList(s) == s \in Seq(Devices) /\ IsInjective(s)
OnList(s, d) == \E i \in 1..Len(s) : s[i] = d

LEMMA ListIs ==
    ASSUME NEW s \in Seq(Devices)
    PROVE  /\ Len(s) \in Nat /\ DOMAIN s = 1..Len(s) /\ \A i \in 1..Len(s) : s[i] \in Devices
           /\ \A d : Contains(s, d) <=> OnList(s, d)
           /\ \A d : d \in ToSet(s) <=> OnList(s, d)
BY DEF Contains, ToSet, OnList

LEMMA DevicesListed ==
    ASSUME NEW s
    PROVE  s \in {q \in UNION {[1..n -> Devices] : n \in 0..MaxDevices} : IsInjective(q)}
              <=> OwnList(s) /\ Len(s) <= MaxDevices
BY NotifyAssumption, ListIs DEF OwnList

LEMMA NoList == OwnList(<<>>) /\ Len(<<>>) = 0 /\ \A d : ~OnList(<<>>, d)
BY DEF OwnList, IsInjective, OnList

LEMMA AppendedIs ==
    ASSUME NEW s, OwnList(s), NEW x \in Devices, ~OnList(s, x)
    PROVE  /\ OwnList(Append(s, x)) /\ Len(Append(s, x)) = Len(s) + 1
           /\ Append(s, x)[Len(s) + 1] = x /\ \A i \in 1..Len(s) : Append(s, x)[i] = s[i]
           /\ \A d : OnList(Append(s, x), d) <=> OnList(s, d) \/ d = x
<1>1. s \in Seq(Devices) /\ Len(s) \in Nat /\ DOMAIN s = 1..Len(s)
  BY ListIs DEF OwnList
<1>2. PICK t : t = Append(s, x)
  OBVIOUS
<1>3. /\ t \in Seq(Devices) /\ Len(t) = Len(s) + 1 /\ t[Len(s) + 1] = x
      /\ \A i \in 1..Len(s) : t[i] = s[i]
  BY <1>1, <1>2, AppendProperties
<1>4. DOMAIN t = 1..(Len(s) + 1)
  BY <1>3, ListIs
<1>5. \A i \in 1..(Len(s) + 1) : i \in 1..Len(s) \/ i = Len(s) + 1
  BY <1>1
<1>6. \A i, j \in 1..Len(s) : s[i] = s[j] => i = j
  BY <1>1 DEF OwnList, IsInjective
<1>7. IsInjective(t)
  BY <1>3, <1>4, <1>5, <1>6 DEF IsInjective, OnList
<1>8. \A d : OnList(t, d) <=> OnList(s, d) \/ d = x
  BY <1>1, <1>3, <1>5 DEF OnList
<1>9. QED
  BY <1>2, <1>3, <1>7, <1>8 DEF OwnList

\* The steps of Without: what is left of the first i devices.
Filters(s, gone, f) ==
    f = [i \in 0..Len(s) |-> IF i = 0 THEN <<>>
                             ELSE IF s[i] \in gone THEN f[i - 1] ELSE Append(f[i - 1], s[i])]

LEMMA FiltersExist == ASSUME NEW s \in Seq(Devices), NEW gone PROVE \E f : Filters(s, gone, f)
<1>1. PICK N \in Nat : N = Len(s)
  BY ListIs
<1> DEFINE Next1(g, i) == IF s[i] \in gone THEN g[i - 1] ELSE Append(g[i - 1], s[i])
           Part(g, n) == g[0] = <<>> /\ \A i \in 1..n : g[i] = Next1(g, i)
           Parts1 == {n \in Nat : \E g : Part(g, n)}
<1>2. 0 \in Parts1
  <2>1. Part([i \in {0} |-> <<>>], 0)
    OBVIOUS
  <2>2. QED
    BY <2>1
<1>3. ASSUME NEW n \in Nat, n \in Parts1
      PROVE  n + 1 \in Parts1
  <2>1. PICK g : Part(g, n)
    BY <1>3
  <2>2. PICK k : k = [i \in 0..(n + 1) |-> IF i = n + 1 THEN Next1(g, n + 1) ELSE g[i]]
    OBVIOUS
  <2>3. k[n + 1] = Next1(g, n + 1) /\ \A i \in 0..n : k[i] = g[i]
    BY <2>2
  <2>4. k[0] = <<>>
    BY <2>1, <2>3
  <2>5. ASSUME NEW i \in 1..(n + 1)
        PROVE  k[i] = Next1(k, i)
    BY <2>3, <2>1
  <2>6. QED
    BY <2>4, <2>5
<1>4. N \in Parts1
  <2> HIDE DEF Parts1
  <2>1. QED
    BY <1>2, <1>3, AllNumbers
<1>5. PICK g : Part(g, N)
  BY <1>4
<1>6. PICK f : f = [i \in 0..N |-> g[i]]
  OBVIOUS
<1>7. ASSUME NEW i \in 0..N
      PROVE  f[i] = IF i = 0 THEN <<>> ELSE Next1(f, i)
  BY <1>5, <1>6
<1>8. f = [i \in 0..N |-> IF i = 0 THEN <<>> ELSE Next1(f, i)]
  BY <1>6, <1>7
<1>9. QED
  BY <1>1, <1>8 DEF Filters

\* What is left holds exactly the devices that are not gone, each once.
LEMMA WithoutIs ==
    ASSUME NEW s, OwnList(s), NEW gone
    PROVE  /\ OwnList(Without(s, gone)) /\ Len(Without(s, gone)) <= Len(s)
           /\ \A d : OnList(Without(s, gone), d) <=> OnList(s, d) /\ d \notin gone
<1>1. PICK N \in Nat : N = Len(s)
  BY ListIs DEF OwnList
<1>2. PICK f : f = CHOOSE g : Filters(s, gone, g)
  OBVIOUS
<1>3. Filters(s, gone, f)
  BY FiltersExist, <1>2 DEF OwnList
<1>4. Without(s, gone) = f[N]
  BY <1>1, <1>2 DEF Without, Filters
<1>5. /\ f[0] = <<>> /\ \A i \in 1..N : f[i] = IF s[i] \in gone THEN f[i - 1] ELSE Append(f[i - 1], s[i])
  <2>1. f = [i \in 0..N |-> IF i = 0 THEN <<>>
                            ELSE IF s[i] \in gone THEN f[i - 1] ELSE Append(f[i - 1], s[i])]
    BY <1>1, <1>3 DEF Filters
  <2>2. \A i \in 0..N : f[i] = IF i = 0 THEN <<>>
                               ELSE IF s[i] \in gone THEN f[i - 1] ELSE Append(f[i - 1], s[i])
    BY <2>1
  <2>3. QED
    BY <1>1, <2>2
<1>6. /\ \A i \in 1..N : s[i] \in Devices
      /\ \A i, j \in 1..N : s[i] = s[j] => i = j
  BY <1>1, ListIs DEF OwnList, IsInjective
<1> DEFINE Left(q, n) == /\ OwnList(q) /\ Len(q) <= n
                         /\ \A d : OnList(q, d) <=> d \notin gone /\ \E i \in 1..n : s[i] = d
           Good == {n \in Nat : n <= N => Left(f[n], n)}
<1>7. 0 \in Good
  BY <1>5, NoList
<1>8. ASSUME NEW n \in Nat, n \in Good
      PROVE  n + 1 \in Good
  <2>1. SUFFICES ASSUME n + 1 <= N
                 PROVE  Left(f[n + 1], n + 1)
    OBVIOUS
  <2>2. PICK q : q = f[n]
    OBVIOUS
  <2>3. Left(q, n)
    BY <1>8, <2>1, <2>2
  <2>4. n + 1 \in 1..N /\ f[n + 1] = IF s[n + 1] \in gone THEN q ELSE Append(q, s[n + 1])
    BY <1>5, <2>1, <2>2
  <2>5. \A d : (\E i \in 1..(n + 1) : s[i] = d) <=> (\E i \in 1..n : s[i] = d) \/ s[n + 1] = d
    BY <2>4
  <2>6. CASE s[n + 1] \in gone
    BY <2>3, <2>4, <2>5, <2>6
  <2>7. CASE s[n + 1] \notin gone
    <3>1. s[n + 1] \in Devices /\ ~OnList(q, s[n + 1])
      BY <1>1, <1>6, <2>3, <2>4
    <3>2. /\ OwnList(Append(q, s[n + 1])) /\ Len(Append(q, s[n + 1])) = Len(q) + 1
          /\ \A d : OnList(Append(q, s[n + 1]), d) <=> OnList(q, d) \/ d = s[n + 1]
      BY <2>3, <3>1, AppendedIs
    <3>3. Len(q) \in Nat
      BY <2>3, ListIs DEF OwnList
    <3>4. QED
      BY <2>3, <2>4, <2>5, <2>7, <3>2, <3>3
  <2>8. QED
    BY <2>6, <2>7
<1>9. N \in Good
  <2> HIDE DEF Good
  <2>1. QED
    BY <1>7, <1>8, AllNumbers
<1>10. Left(f[N], N)
  BY <1>9
<1>11. QED
  BY <1>1, <1>4, <1>10 DEF OnList

\* A list cut in two: no device is on both sides, and none is lost.
LEMMA CutIs ==
    ASSUME NEW s, OwnList(s), NEW n \in 0..Len(s)
    PROVE  /\ OwnList(SubSeq(s, n + 1, Len(s))) /\ Len(SubSeq(s, n + 1, Len(s))) = Len(s) - n
           /\ \A d : OnList(SubSeq(s, n + 1, Len(s)), d) <=> \E i \in (n + 1)..Len(s) : s[i] = d
           /\ \A d : d \in ToSet(SubSeq(s, 1, n)) <=> \E i \in 1..n : s[i] = d
<1>1. PICK N \in Nat : N = Len(s)
  BY ListIs DEF OwnList
<1>2. /\ n \in Nat /\ n <= N /\ \A i \in 1..N : s[i] \in Devices
      /\ \A i, j \in 1..N : s[i] = s[j] => i = j
  BY <1>1, ListIs DEF OwnList, IsInjective
<1>3. PICK t : t = SubSeq(s, n + 1, N)
  OBVIOUS
<1>4. t \in Seq(Devices) /\ Len(t) = N - n /\ \A i \in 1..(N - n) : t[i] = s[n + i]
  BY <1>2, <1>3, SubSeqProperties
<1>5. DOMAIN t = 1..(N - n)
  BY <1>4, ListIs
<1>6. IsInjective(t)
  BY <1>2, <1>4, <1>5 DEF IsInjective
<1>7. ASSUME NEW d
      PROVE  OnList(t, d) <=> \E i \in (n + 1)..N : s[i] = d
  <2>1. ASSUME NEW i \in 1..(N - n)
        PROVE  n + i \in (n + 1)..N
    BY <1>2
  <2>2. ASSUME NEW i \in (n + 1)..N
        PROVE  i - n \in 1..(N - n) /\ n + (i - n) = i
    BY <1>2
  <2>3. QED
    BY <1>4, <2>1, <2>2 DEF OnList
<1>8. ASSUME NEW d
      PROVE  d \in ToSet(SubSeq(s, 1, n)) <=> \E i \in 1..n : s[i] = d
  <2>1. PICK o : o = SubSeq(s, 1, n)
    OBVIOUS
  <2>2. o \in Seq(Devices) /\ Len(o) = n /\ \A i \in 1..n : o[i] = s[i]
    BY <1>2, <2>1, SubSeqProperties
  <2>3. d \in ToSet(o) <=> \E i \in 1..n : o[i] = d
    BY <2>2, ListIs DEF OnList
  <2>4. QED
    BY <2>1, <2>2, <2>3
<1>9. QED
  BY <1>1, <1>3, <1>4, <1>6, <1>7, <1>8 DEF OwnList

\* What a section saves: a list that fits, with what was on it but for the devices let go.
SavesWell(e, saved) ==
    /\ OwnList(saved.list) /\ Len(saved.list) <= MaxDevices
    /\ saved.drop \subseteq Devices /\ \A d \in saved.drop : ~OnList(saved.list, d)
    /\ \A d : OnList(e.list, d) => OnList(saved.list, d) \/ d \in saved.drop
    /\ \A d : OnList(saved.list, d) => OnList(e.list, d) \/ (e.kind = "add" /\ d = e.device)
    /\ e.kind = "add" => OnList(saved.list, e.device)

LEMMA SavedIs ==
    ASSUME NEW e, OwnList(e.list), Len(e.list) <= MaxDevices,
           \/ e.kind \in {"add", "remove"} /\ e.device \in Devices
           \/ e.kind = "record" /\ DOMAIN e.outcome \subseteq Devices
    PROVE  SavesWell(e, Saved(e))
<1> DEFINE W == Without(e.list, {e.device})
<1>1. PICK saved : saved = Saved(e)
  OBVIOUS
<1>2. MaxDevices \in Nat /\ MaxDevices >= 1 /\ Len(e.list) \in Nat
  BY NotifyAssumption, ListIs DEF OwnList
<1>3. CASE e.kind = "add"
  <2>1. PICK w : w = W
    OBVIOUS
  <2>2. /\ OwnList(w) /\ Len(w) <= Len(e.list)
        /\ \A d : OnList(w, d) <=> OnList(e.list, d) /\ d \notin {e.device}
    BY <2>1, WithoutIs
  <2>3. PICK all : all = Append(w, e.device)
    OBVIOUS
  <2>4. Len(w) \in Nat
    BY <2>2, ListIs DEF OwnList
  <2>5. e.device \in Devices /\ ~OnList(w, e.device)
    BY <1>3, <2>2
  <2>6. /\ OwnList(all) /\ Len(all) = Len(w) + 1 /\ all[Len(w) + 1] = e.device
        /\ \A d : OnList(all, d) <=> OnList(w, d) \/ d = e.device
    BY <2>2, <2>3, <2>5, AppendedIs
  <2>7. PICK N \in Nat : N = Len(all)
    BY <2>6, ListIs DEF OwnList
  <2>8. PICK over : over = IF N > MaxDevices THEN N - MaxDevices ELSE 0
    OBVIOUS
  <2>9. over \in 0..N /\ over < N /\ N - over <= MaxDevices
    BY <1>2, <2>2, <2>4, <2>6, <2>7, <2>8
  <2>10. saved = [list |-> SubSeq(all, over + 1, N), drop |-> ToSet(SubSeq(all, 1, over))]
    BY <1>1, <1>3, <2>1, <2>3, <2>7, <2>8 DEF Saved
  <2>11. /\ OwnList(saved.list) /\ Len(saved.list) = N - over
         /\ \A d : OnList(saved.list, d) <=> \E i \in (over + 1)..N : all[i] = d
         /\ \A d : d \in saved.drop <=> \E i \in 1..over : all[i] = d
    <3>1. over \in 0..Len(all)
      BY <2>7, <2>9
    <3>2. /\ OwnList(SubSeq(all, over + 1, N)) /\ Len(SubSeq(all, over + 1, N)) = N - over
          /\ \A d : OnList(SubSeq(all, over + 1, N), d) <=> \E i \in (over + 1)..N : all[i] = d
          /\ \A d : d \in ToSet(SubSeq(all, 1, over)) <=> \E i \in 1..over : all[i] = d
      BY <2>6, <2>7, <3>1, CutIs
    <3>3. saved.list = SubSeq(all, over + 1, N) /\ saved.drop = ToSet(SubSeq(all, 1, over))
      BY <2>10
    <3>4. QED
      BY <3>2, <3>3
  <2>12. \A i, j \in 1..N : all[i] = all[j] => i = j
    BY <2>6, <2>7, ListIs DEF OwnList, IsInjective
  <2>13. /\ \A i \in 1..over : i \in 1..N /\ i \notin (over + 1)..N
         /\ \A i \in (over + 1)..N : i \in 1..N
         /\ \A i \in 1..N : i \in 1..over \/ i \in (over + 1)..N
         /\ N \in (over + 1)..N /\ N = Len(w) + 1
    BY <2>6, <2>7, <2>9
  <2>14. /\ saved.drop \subseteq Devices /\ \A d \in saved.drop : ~OnList(saved.list, d)
    BY <2>6, <2>7, ListIs, <2>11, <2>12, <2>13 DEF OwnList
  <2>15. \A d : OnList(all, d) <=> OnList(saved.list, d) \/ d \in saved.drop
    BY <2>7, <2>11, <2>13 DEF OnList
  <2>16. OnList(saved.list, e.device)
    BY <2>6, <2>11, <2>13
  <2>17. QED
    BY <1>1, <1>3, <2>2, <2>6, <2>9, <2>11, <2>14, <2>15, <2>16 DEF SavesWell
<1>4. CASE e.kind = "remove"
  BY <1>1, <1>4, WithoutIs, ListIs, <1>2 DEF Saved, OwnList, SavesWell
<1>5. CASE e.kind = "record"
  <2>1. saved = [list |-> Without(e.list, GoneDevices(e)), drop |-> GoneDevices(e)]
    BY <1>1, <1>5 DEF Saved
  <2>2. GoneDevices(e) \subseteq Devices /\ e.kind # "add"
    BY <1>5 DEF GoneDevices
  <2>3. QED
    BY <2>1, WithoutIs, ListIs, <1>1, <1>2, <2>2 DEF OwnList, SavesWell
<1>6. QED
  BY <1>3, <1>4, <1>5

-----------------------------------------------------------------------------
(* Notices: the invariant                                                  *)

TaskStates  == {"todo", "done", "blocked"}
DevicePlaces == {"queued", "sending", "leaving", "owning", "rereading", "saving", "releasing"}
NewsPlaces   == {"issue", "swap", "swapping", "status", "questions", "claim", "asking", "ask", "comment",
                 "failure", "throttle", "throttling", "failed", "approval"}
ErrandState == [at: {"idle"} \cup DevicePlaces \cup NewsPlaces,
                kind: {"add", "remove", "record", "updated", "commented", "failed", "approval", Nil},
                who: People \cup {Nobody}, device: Devices \cup {Nil}, list: Seq(Devices),
                outcome: {<<>>} \cup UNION {[S -> Outcomes] : S \in SUBSET Devices},
                release: SUBSET Devices, event: 0..MaxNews, status: TaskStates \cup {Nil},
                asOf: Nat, stored: TaskStates \cup {Nil}]
SecondPerson == CHOOSE p \in People : p # FirstPerson
CoreState == [status: TaskStates, moves: Nat, creator: {FirstPerson}, assignee: {SecondPerson},
              question: [open: BOOLEAN, to: {Nobody, "agent"}], hour: 0..MaxHour, pending: BOOLEAN,
              members: [People -> {Member("suspended", "admin"), Member("active", "owner")}]]
KeptState == [status: TaskStates \cup {Nil}, asked: BOOLEAN, failed: Never..MaxHour]
ToldState == [errands: Nat, enrolled: SUBSET (People \X Devices), entered: [TaskStates -> Nat],
              moved: [TaskStates -> Nat], asOf: Nat, crossed: BOOLEAN, asked: Nat,
              failures: SUBSET Nat, failed: Nat, heard: SUBSET People]

NotifyTypes ==
    /\ scene \in {"devices", "events"}
    /\ listed \in [People -> {s \in Seq(Devices) : OwnList(s) /\ Len(s) <= MaxDevices}]
    /\ owner \in [Devices -> People \cup {Nobody}]
    /\ errand \in [Errands -> ErrandState]
    /\ core \in CoreState
    /\ news \in Seq(News) /\ Len(news) <= MaxNews /\ (scene = "devices" => news = <<>>)
    /\ recent \in Seq(Nat) /\ Len(recent) <= RecentEvents
    /\ kept \in KeptState
    /\ told \in ToldState

OneSection == \A c, d \in Errands : errand[c].at \in Sections /\ errand[d].at \in Sections => c = d

\* What a request has found out about the lists `li` and the owners `ow` where it stands.
ErrandFits(e, sc, li, ow) ==
    /\ e.at \in DevicePlaces => sc = "devices"
    /\ e.at \in NewsPlaces => sc = "events"
    /\ e.at \in DevicePlaces =>
          /\ e.who \in People
          /\ \/ e.kind \in {"add", "remove"} /\ e.device \in Devices
             \/ e.kind = "record" /\ DOMAIN e.outcome \subseteq Devices
    /\ e.at \in {"leaving", "owning", "rereading"} => e.kind = "add"
    /\ e.at = "leaving" => ow[e.device] \in People
    /\ e.at = "owning" => \A p \in People : OnList(li[p], e.device) => p = e.who
    /\ e.at = "rereading" => ow[e.device] = e.who
    /\ e.at = "saving" => e.list = li[e.who] /\ (e.kind = "add" => ow[e.device] = e.who)
    /\ e.at = "releasing" => \A d \in e.release : ~OnList(li[e.who], d)
    /\ e.at \in {"swap", "swapping", "status"} => e.status \in TaskStates

DevicesOK ==
    /\ \A p \in People, d \in Devices : OnList(listed[p], d) => owner[d] = p
    /\ \A x \in told.enrolled : OnList(listed[x[1]], x[2])
    /\ \A c \in Errands : ErrandFits(errand[c], scene, listed, owner)

\* h: the status after each move; m: the moves that were told, by status.
MovesAre(h, m) ==
    /\ h[0] = "todo" /\ h[core.moves] = core.status
    /\ told.asOf \in 0..core.moves
    /\ kept.status \in {Nil, h[told.asOf]} /\ (kept.status = Nil => told.asOf = 0)
    /\ \A s \in TaskStates : told.entered[s] = Cardinality({i \in 1..core.moves : h[i] = s})
    /\ \A s \in TaskStates : /\ told.moved[s] = Cardinality(m[s])
                             /\ m[s] \subseteq {i \in 1..told.asOf : h[i] = s}
    /\ \A c \in Errands :
          /\ errand[c].at \in {"swap", "swapping", "status"} =>
                errand[c].asOf \in 0..core.moves /\ errand[c].status = h[errand[c].asOf]
          /\ errand[c].at = "swapping" => errand[c].stored = kept.status
          /\ errand[c].at = "status" => /\ errand[c].asOf \in 1..told.asOf
                                        /\ \A s \in TaskStates : errand[c].asOf \notin m[s]
    /\ \A c, d \in Errands :
          errand[c].at = "status" /\ errand[d].at = "status" /\ errand[c].asOf = errand[d].asOf => c = d
MovesOK ==
    ~told.crossed => \E h \in [0..core.moves -> TaskStates],
                        m \in [TaskStates -> SUBSET (1..core.moves)] : MovesAre(h, m)

\* The question is claimed by one handler, which tells of it once.
AsksOK ==
    /\ told.asked \in {0, 1}
    /\ ~kept.asked => told.asked = 0 /\ \A c \in Errands : errand[c].at # "ask"
    /\ \A c \in Errands : errand[c].at = "asking" => ~kept.asked
    /\ \A c \in Errands : errand[c].at = "ask" => told.asked = 0
    /\ \A c, d \in Errands : errand[c].at = "ask" /\ errand[d].at = "ask" => c = d

\* The hours failures were claimed at, told or not, lie a window apart.
Apart(a, b) == a - b >= Window \/ b - a >= Window
FailuresOK ==
    /\ IsFiniteSet(told.failures) /\ told.failed = Cardinality(told.failures)
    /\ \A t \in told.failures : t <= kept.failed
    /\ \A s, t \in told.failures : s # t => Apart(s, t)
    /\ \A c \in Errands : errand[c].at = "failed" =>
          errand[c].asOf <= kept.failed /\ \A t \in told.failures : Apart(errand[c].asOf, t)
    /\ \A c, d \in Errands : errand[c].at = "failed" /\ errand[d].at = "failed" /\ c # d =>
          Apart(errand[c].asOf, errand[d].asOf)
    /\ \A c \in Errands : errand[c].at = "throttling" =>
          errand[c].asOf <= MaxHour /\ (kept.failed = Never \/ errand[c].asOf - kept.failed >= Window)

NotifyInv == /\ NotifyTypes /\ OneSection /\ DevicesOK /\ MovesOK /\ AsksOK /\ FailuresOK
             /\ told.heard \subseteq Active(core.members)

-----------------------------------------------------------------------------
(* Notices: what a step leaves alone                                       *)

LEMMA NotifyNumbers == /\ MaxDevices \in Nat \ {0} /\ RecentEvents \in Nat \ {0} /\ Window \in Nat \ {0}
                       /\ MaxErrands \in Nat /\ MaxNews \in Nat /\ MaxHour \in Nat /\ Nobody \notin People
BY NotifyAssumption DEF Nobody

LEMMA NoErrandIs == NoErrand \in ErrandState /\ NoErrand.at = "idle" /\ NoErrand.outcome = <<>>
BY NotifyNumbers DEF NoErrand, ErrandState, TaskStates

LEMMA ErrandIs ==
    ASSUME NEW c \in Errands, NEW e \in ErrandState, NotifyTypes, errand' = [errand EXCEPT ![c] = e]
    PROVE  /\ errand' \in [Errands -> ErrandState] /\ errand'[c] = e
           /\ \A d \in Errands : d # c => errand'[d] = errand[d]
BY DEF NotifyTypes

LEMMA QuietFits ==
    ASSUME NEW e, NEW sc, NEW li, NEW ow, NEW li2, NEW ow2, e.at \notin Sections,
           ErrandFits(e, sc, li, ow)
    PROVE  ErrandFits(e, sc, li2, ow2)
BY DEF ErrandFits, Sections

\* Of one errand that moves, the others stay where they are: at most one is in a section.
LEMMA SectionKept ==
    ASSUME OneSection, NEW c \in Errands, \A d \in Errands : d # c => errand'[d] = errand[d],
           errand'[c].at \in Sections => TurnFree \/ errand[c].at \in Sections
    PROVE  OneSection'
BY DEF OneSection, TurnFree

LEMMA DevicesStay ==
    ASSUME DevicesOK, UNCHANGED <<scene, listed, owner>>, told'.enrolled = told.enrolled,
           \A d \in Errands :
              \/ errand'[d] = errand[d]
              \/ errand'[d].at = "idle"
              \/ /\ errand'[d].at \in NewsPlaces /\ scene = "events"
                 /\ errand'[d].at \in {"swap", "swapping", "status"} => errand'[d].status \in TaskStates
    PROVE  DevicesOK'
BY DEF DevicesOK, ErrandFits, DevicePlaces, NewsPlaces

LEMMA MovesStay ==
    ASSUME MovesOK, core'.status = core.status, core'.moves = core.moves, kept'.status = kept.status,
           told'.entered = told.entered, told'.moved = told.moved, told'.asOf = told.asOf,
           told'.crossed = told.crossed,
           \A d \in Errands : errand'[d] = errand[d] \/ errand'[d].at \notin {"swap", "swapping", "status"}
    PROVE  MovesOK'
<1>1. SUFFICES ASSUME ~told.crossed
               PROVE  \E h \in [0..core.moves -> TaskStates], m \in [TaskStates -> SUBSET (1..core.moves)] :
                         MovesAre(h, m)'
  BY DEF MovesOK
<1>2. PICK h \in [0..core.moves -> TaskStates], m \in [TaskStates -> SUBSET (1..core.moves)] : MovesAre(h, m)
  BY <1>1 DEF MovesOK
<1>3. MovesAre(h, m)'
  BY <1>2 DEF MovesAre
<1>4. QED
  BY <1>3

LEMMA AsksStay ==
    ASSUME AsksOK, kept'.asked = kept.asked, told'.asked = told.asked,
           \A d \in Errands : errand'[d] = errand[d] \/ errand'[d].at \notin {"asking", "ask"}
    PROVE  AsksOK'
BY DEF AsksOK

LEMMA FailuresStay ==
    ASSUME FailuresOK, kept'.failed = kept.failed, told'.failures = told.failures, told'.failed = told.failed,
           \A d \in Errands : errand'[d] = errand[d] \/ errand'[d].at \notin {"throttling", "failed"}
    PROVE  FailuresOK'
BY DEF FailuresOK

-----------------------------------------------------------------------------
(* Notices: the steps of the devices                                       *)

SameNews == /\ told'.entered = told.entered /\ told'.moved = told.moved /\ told'.asOf = told.asOf
            /\ told'.crossed = told.crossed /\ told'.asked = told.asked /\ told'.failures = told.failures
            /\ told'.failed = told.failed /\ told'.heard = told.heard

LEMMA DeviceStep ==
    ASSUME NotifyInv, NEW c \in Errands, NEW e \in ErrandState, errand' = [errand EXCEPT ![c] = e],
           scene = "devices", UNCHANGED <<scene, newsVars>>, e.at \in DevicePlaces \cup {"idle"},
           e.at \in Sections => TurnFree \/ errand[c].at \in Sections,
           listed' \in [People -> {s \in Seq(Devices) : OwnList(s) /\ Len(s) <= MaxDevices}],
           owner' \in [Devices -> People \cup {Nobody}], told' \in ToldState, SameNews, DevicesOK'
    PROVE  NotifyInv'
<1>1. /\ errand' \in [Errands -> ErrandState] /\ errand'[c] = e
      /\ \A d \in Errands : d # c => errand'[d] = errand[d]
  BY ErrandIs DEF NotifyInv
<1>2. \A d \in Errands : errand'[d] = errand[d] \/ errand'[d].at \notin NewsPlaces
  BY <1>1 DEF DevicePlaces, NewsPlaces
<1>3. core' = core /\ news' = news /\ recent' = recent /\ kept' = kept /\ scene' = scene
  BY DEF newsVars
<1>4. NotifyTypes'
  BY <1>1, <1>3 DEF NotifyInv, NotifyTypes
<1>5. OneSection'
  BY <1>1, SectionKept DEF NotifyInv
<1>6. MovesOK'
  BY <1>2, <1>3, MovesStay DEF NotifyInv, SameNews, NewsPlaces
<1>7. AsksOK'
  BY <1>2, <1>3, AsksStay DEF NotifyInv, SameNews, NewsPlaces
<1>8. FailuresOK'
  BY <1>2, <1>3, FailuresStay DEF NotifyInv, SameNews, NewsPlaces
<1>9. told'.heard \subseteq Active(core'.members)
  BY <1>3 DEF NotifyInv, SameNews
<1>10. QED
  BY <1>4, <1>5, <1>6, <1>7, <1>8, <1>9 DEF NotifyInv, Active

LEMMA DevicesOne ==
    ASSUME DevicesOK, NEW c \in Errands, UNCHANGED <<scene, listed, owner>>, told'.enrolled = told.enrolled,
           \A d \in Errands : d # c => errand'[d] = errand[d],
           ErrandFits(errand'[c], scene, listed, owner)
    PROVE  DevicesOK'
BY DEF DevicesOK

LEMMA DevicesMove ==
    ASSUME DevicesOK, OneSection, NEW c \in Errands, errand[c].at \in Sections, UNCHANGED scene,
           \A d \in Errands : d # c => errand'[d] = errand[d],
           ErrandFits(errand'[c], scene, listed', owner'),
           \A p \in People, d \in Devices : OnList(listed'[p], d) => owner'[d] = p,
           \A x \in told'.enrolled : OnList(listed'[x[1]], x[2])
    PROVE  DevicesOK'
BY QuietFits DEF OneSection, DevicesOK

LEMMA BeginKeeps ==
    ASSUME NotifyInv, NEW c \in Errands, NEW e \in ErrandState, Begin(c, e),
           e.at \in {"queued", "sending"}, e.who \in People,
           \/ e.kind \in {"add", "remove"} /\ e.device \in Devices
           \/ e.kind = "record" /\ DOMAIN e.outcome \subseteq Devices
    PROVE  NotifyInv'
<1>1. /\ scene = "devices" /\ errand' = [errand EXCEPT ![c] = e] /\ UNCHANGED <<scene, deviceVars, newsVars>>
      /\ told' = [told EXCEPT !.errands = @ + 1]
  BY DEF Begin
<1>2. told \in ToldState /\ NotifyTypes /\ DevicesOK
  BY DEF NotifyInv, NotifyTypes
<1>3. told' \in ToldState /\ SameNews /\ told'.enrolled = told.enrolled
  BY <1>1, <1>2 DEF ToldState, SameNews
<1>4. ErrandFits(e, scene, listed, owner)
  BY <1>1 DEF ErrandFits, DevicePlaces, NewsPlaces
<1>5. listed' = listed /\ owner' = owner
  BY <1>1 DEF deviceVars
<1>6. errand'[c] = e /\ \A d \in Errands : d # c => errand'[d] = errand[d]
  BY <1>1, <1>2, ErrandIs
<1>7. DevicesOK'
  BY <1>1, <1>2, <1>3, <1>4, <1>5, <1>6, DevicesOne
<1>8. /\ listed' \in [People -> {s \in Seq(Devices) : OwnList(s) /\ Len(s) <= MaxDevices}]
      /\ owner' \in [Devices -> People \cup {Nobody}]
  BY <1>2, <1>5 DEF NotifyTypes
<1>9. e.at \in DevicePlaces \cup {"idle"} /\ e.at \notin Sections
  BY DEF DevicePlaces, Sections
<1>10. QED
  BY <1>1, <1>3, <1>7, <1>8, <1>9, DeviceStep

LEMMA SubscribeKeeps ==
    ASSUME NotifyInv, NEW c \in Errands, NEW p \in People, NEW d \in Devices,
           Subscribe(c, p, d) \/ Unsubscribe(c, p, d)
    PROVE  NotifyInv'
BY NoErrandIs, BeginKeeps DEF Subscribe, Unsubscribe, ErrandState, DevicePlaces

LEMMA DeliverKeeps == ASSUME NotifyInv, NEW c \in Errands, NEW p \in People, Deliver(c, p) PROVE NotifyInv'
<1>1. PICK list \in {listed[p]} \cup {<<d>> : d \in ToSet(listed[p])} :
         Begin(c, [NoErrand EXCEPT !.at = "sending", !.kind = "record", !.who = p, !.list = list])
  BY DEF Deliver
<1>2. PICK e : e = [NoErrand EXCEPT !.at = "sending", !.kind = "record", !.who = p, !.list = list]
  OBVIOUS
<1>3. list \in Seq(Devices)
  <2>1. listed[p] \in Seq(Devices)
    BY DEF NotifyInv, NotifyTypes
  <2>2. \A d \in ToSet(listed[p]) : d \in Devices
    BY <2>1, ListIs DEF OnList
  <2>3. \A d \in Devices : <<d>> \in Seq(Devices)
    OBVIOUS
  <2>4. QED
    BY <2>1, <2>2, <2>3
<1>4. e \in ErrandState /\ e.at = "sending" /\ e.kind = "record" /\ e.who = p /\ e.outcome = <<>>
  BY <1>2, <1>3, NoErrandIs DEF ErrandState, DevicePlaces
<1>5. DOMAIN e.outcome \subseteq Devices
  BY <1>4
<1>6. QED
  BY <1>1, <1>2, <1>4, <1>5, BeginKeeps

\* A request of the devices takes a step of its own that changes neither lists nor owners.
LEMMA DeviceWaits ==
    ASSUME NotifyInv, NEW c \in Errands, NEW e \in ErrandState, errand' = [errand EXCEPT ![c] = e],
           errand[c].at \in DevicePlaces, UNCHANGED <<scene, deviceVars, newsVars, told>>,
           e.at \in DevicePlaces \cup {"idle"},
           e.at \in Sections => TurnFree \/ errand[c].at \in Sections,
           ErrandFits(e, scene, listed, owner)
    PROVE  NotifyInv'
<1>1. NotifyTypes /\ DevicesOK /\ listed' = listed /\ owner' = owner /\ scene' = scene /\ told' = told
  BY DEF NotifyInv, deviceVars
<1>2. scene = "devices"
  BY <1>1 DEF DevicesOK, ErrandFits
<1>3. errand'[c] = e /\ \A d \in Errands : d # c => errand'[d] = errand[d]
  BY <1>1, ErrandIs
<1>4. DevicesOK'
  BY <1>1, <1>3, DevicesOne
<1>5. SameNews /\ told' \in ToldState
  BY <1>1 DEF SameNews, NotifyTypes
<1>6. /\ listed' \in [People -> {s \in Seq(Devices) : OwnList(s) /\ Len(s) <= MaxDevices}]
      /\ owner' \in [Devices -> People \cup {Nobody}]
  BY <1>1 DEF NotifyTypes
<1>7. QED
  BY <1>1, <1>2, <1>4, <1>5, <1>6, DeviceStep

LEMMA SentKeeps == ASSUME NotifyInv, NEW c \in Errands, Sent(c) PROVE NotifyInv'
<1>1. PICK outcome \in [ToSet(errand[c].list) -> Outcomes] :
         errand' = [errand EXCEPT ![c].at = "queued", ![c].outcome = outcome]
  BY DEF Sent
<1>2. errand \in [Errands -> ErrandState] /\ errand[c] \in ErrandState /\ errand[c].at = "sending"
  BY DEF NotifyInv, NotifyTypes, Sent
<1>3. PICK e : e = [errand[c] EXCEPT !.at = "queued", !.outcome = outcome]
  OBVIOUS
<1>4. errand' = [errand EXCEPT ![c] = e]
  BY <1>1, <1>3
<1>5. ToSet(errand[c].list) \subseteq Devices
  BY <1>2, ListIs DEF ErrandState, OnList
<1>6. outcome \in UNION {[S -> Outcomes] : S \in SUBSET Devices} /\ DOMAIN outcome \subseteq Devices
  BY <1>5
<1>7. /\ e \in ErrandState /\ e.at = "queued" /\ e.outcome = outcome
      /\ e.who = errand[c].who /\ e.kind = errand[c].kind /\ e.device = errand[c].device
  BY <1>2, <1>3, <1>6 DEF ErrandState, DevicePlaces
<1>8. ErrandFits(e, scene, listed, owner)
  BY <1>2, <1>6, <1>7 DEF NotifyInv, DevicesOK, ErrandFits, DevicePlaces, NewsPlaces
<1>9. UNCHANGED <<scene, deviceVars, newsVars, told>> /\ e.at \notin Sections
      /\ errand[c].at \in DevicePlaces /\ e.at \in DevicePlaces
  BY <1>2, <1>7 DEF Sent, Sections, DevicePlaces
<1>10. QED
  BY <1>4, <1>7, <1>8, <1>9, DeviceWaits

LEMMA SectionBeginsKeeps == ASSUME NotifyInv, NEW c \in Errands, SectionBegins(c) PROVE NotifyInv'
<1>1. PICK old : old = errand[c]
  OBVIOUS
<1>2. /\ old \in ErrandState /\ old.at = "queued" /\ ErrandFits(old, scene, listed, owner)
      /\ TurnFree /\ scene = "devices" /\ UNCHANGED <<scene, deviceVars, newsVars, told>>
  BY <1>1 DEF NotifyInv, NotifyTypes, DevicesOK, SectionBegins
<1>3. PICK e : e = IF old.kind = "add"
                   THEN [old EXCEPT !.at = IF owner[old.device] \in {Nobody, old.who} THEN "owning" ELSE "leaving"]
                   ELSE IF old.kind = "remove" /\ ~Contains(listed[old.who], old.device) THEN NoErrand
                   ELSE [old EXCEPT !.at = "saving", !.list = listed[old.who]]
  OBVIOUS
<1>4. errand' = [errand EXCEPT ![c] = e]
  BY <1>1, <1>3 DEF SectionBegins
<1>5. /\ old.who \in People
      /\ \/ old.kind \in {"add", "remove"} /\ old.device \in Devices
         \/ old.kind = "record" /\ DOMAIN old.outcome \subseteq Devices
  BY <1>2 DEF ErrandFits, DevicePlaces
<1>6. /\ e \in ErrandState /\ e.at \in DevicePlaces \cup {"idle"} /\ ErrandFits(e, scene, listed, owner)
  <2>1. CASE old.kind = "add"
    <3>1. PICK at : at = IF owner[old.device] \in {Nobody, old.who} THEN "owning" ELSE "leaving"
      OBVIOUS
    <3>2. e = [old EXCEPT !.at = at]
      BY <1>3, <2>1, <3>1
    <3>3. at \in {"owning", "leaving"}
      BY <3>1
    <3>4. /\ e \in ErrandState /\ e.at = at /\ e.kind = "add" /\ e.who = old.who /\ e.device = old.device
          /\ e.outcome = old.outcome
      BY <1>2, <2>1, <3>2, <3>3 DEF ErrandState, DevicePlaces
    <3>5. at = "leaving" => owner[old.device] \in People
      BY <1>5, <2>1, <3>1 DEF NotifyInv, NotifyTypes
    <3>6. at = "owning" => \A p \in People : OnList(listed[p], old.device) => p = old.who
      BY <1>5, <2>1, <3>1, NotifyNumbers DEF NotifyInv, DevicesOK
    <3>7. QED
      BY <1>2, <1>5, <2>1, <3>3, <3>4, <3>5, <3>6 DEF ErrandFits, DevicePlaces, NewsPlaces
  <2>2. CASE old.kind = "remove" /\ ~Contains(listed[old.who], old.device)
    BY <1>3, <2>2, NoErrandIs DEF ErrandFits, DevicePlaces, NewsPlaces
  <2>3. CASE old.kind # "add" /\ ~(old.kind = "remove" /\ ~Contains(listed[old.who], old.device))
    BY <1>3, <2>3, <1>5, <1>2 DEF NotifyInv, NotifyTypes, ErrandState, DevicePlaces,
       ErrandFits, NewsPlaces
  <2>4. QED
    BY <2>1, <2>2, <2>3
<1>7. errand[c].at \in DevicePlaces
  BY <1>1, <1>2 DEF DevicePlaces
<1>8. QED
  BY <1>2, <1>4, <1>6, <1>7, DeviceWaits

LEMMA RereadKeeps == ASSUME NotifyInv, NEW c \in Errands, Reread(c) PROVE NotifyInv'
<1>1. PICK old : old = errand[c]
  OBVIOUS
<1>2. /\ old \in ErrandState /\ old.at = "rereading" /\ ErrandFits(old, scene, listed, owner)
      /\ UNCHANGED <<scene, deviceVars, newsVars, told>>
  BY <1>1 DEF NotifyInv, NotifyTypes, DevicesOK, Reread
<1>3. PICK e : e = [old EXCEPT !.at = "saving", !.list = listed[old.who]]
  OBVIOUS
<1>4. errand' = [errand EXCEPT ![c] = e]
  BY <1>1, <1>3 DEF Reread
<1>5. old.who \in People /\ listed[old.who] \in Seq(Devices)
  BY <1>2 DEF NotifyInv, NotifyTypes, ErrandFits, DevicePlaces
<1>6. /\ e \in ErrandState /\ e.at = "saving" /\ e.kind = old.kind /\ e.who = old.who /\ e.device = old.device
      /\ e.outcome = old.outcome /\ e.list = listed[old.who]
  BY <1>2, <1>3, <1>5 DEF ErrandState, DevicePlaces
<1>7. ErrandFits(e, scene, listed, owner)
  BY <1>2, <1>5, <1>6 DEF ErrandFits, DevicePlaces, NewsPlaces
<1>8. errand[c].at \in DevicePlaces /\ errand[c].at \in Sections /\ e.at \in DevicePlaces
  BY <1>1, <1>2, <1>6 DEF DevicePlaces, Sections
<1>9. QED
  BY <1>2, <1>4, <1>6, <1>7, <1>8, DeviceWaits

\* A section of the devices changes a list or an owner.
LEMMA DeviceChanges ==
    ASSUME NotifyInv, NEW c \in Errands, NEW e \in ErrandState, errand' = [errand EXCEPT ![c] = e],
           errand[c].at \in DevicePlaces, errand[c].at \in Sections, UNCHANGED <<scene, newsVars>>,
           e.at \in DevicePlaces \cup {"idle"}, ErrandFits(e, scene, listed', owner'),
           listed' \in [People -> {s \in Seq(Devices) : OwnList(s) /\ Len(s) <= MaxDevices}],
           owner' \in [Devices -> People \cup {Nobody}], told' \in ToldState, SameNews,
           \A p \in People, d \in Devices : OnList(listed'[p], d) => owner'[d] = p,
           \A x \in told'.enrolled : OnList(listed'[x[1]], x[2])
    PROVE  NotifyInv'
<1>1. NotifyTypes /\ DevicesOK /\ OneSection /\ scene = "devices" /\ scene' = scene
  BY DEF NotifyInv, DevicesOK, ErrandFits
<1>2. errand'[c] = e /\ \A d \in Errands : d # c => errand'[d] = errand[d]
  BY <1>1, ErrandIs
<1>3. DevicesOK'
  BY <1>1, <1>2, DevicesMove
<1>4. QED
  BY <1>1, <1>3, DeviceStep

LEMMA LeavePreviousKeeps == ASSUME NotifyInv, NEW c \in Errands, LeavePrevious(c) PROVE NotifyInv'
<1>1. PICK old, previous : old = errand[c] /\ previous = owner[old.device]
  OBVIOUS
<1>2. /\ old \in ErrandState /\ old.at = "leaving" /\ ErrandFits(old, scene, listed, owner)
      /\ UNCHANGED <<scene, owner, newsVars>> /\ NotifyTypes /\ DevicesOK
      /\ listed' = [listed EXCEPT ![previous] = Without(@, {old.device})]
      /\ told' = [told EXCEPT !.enrolled = @ \ {<<previous, old.device>>}]
  BY <1>1 DEF NotifyInv, NotifyTypes, DevicesOK, LeavePrevious
<1>3. PICK e : e = [old EXCEPT !.at = "owning"]
  OBVIOUS
<1>4. errand' = [errand EXCEPT ![c] = e]
  BY <1>1, <1>3 DEF LeavePrevious, To
<1>5. old.who \in People /\ previous \in People /\ old.kind = "add" /\ old.device \in Devices
  BY <1>1, <1>2 DEF ErrandFits, DevicePlaces
<1>6. /\ e \in ErrandState /\ e.at = "owning" /\ e.kind = "add" /\ e.who = old.who /\ e.device = old.device
  BY <1>2, <1>3, <1>5 DEF ErrandState, DevicePlaces
<1>7. PICK w : w = Without(listed[previous], {old.device})
  OBVIOUS
<1>8. /\ OwnList(w) /\ Len(w) <= MaxDevices
      /\ \A d : OnList(w, d) <=> OnList(listed[previous], d) /\ d # old.device
  BY <1>2, <1>5, <1>7, WithoutIs, ListIs, NotifyNumbers DEF NotifyTypes, OwnList
<1>9. /\ listed' = [listed EXCEPT ![previous] = w] /\ listed'[previous] = w
      /\ \A p \in People : p # previous => listed'[p] = listed[p]
  BY <1>2, <1>5, <1>7 DEF NotifyTypes
<1>10. listed' \in [People -> {s \in Seq(Devices) : OwnList(s) /\ Len(s) <= MaxDevices}]
  BY <1>2, <1>8, <1>9 DEF NotifyTypes, OwnList
<1>11. \A p \in People, d \in Devices : OnList(listed'[p], d) => owner[d] = p /\ OnList(listed[p], d)
  BY <1>2, <1>8, <1>9 DEF DevicesOK
<1>12. \A p \in People : ~OnList(listed'[p], old.device)
  BY <1>1, <1>5, <1>8, <1>9, <1>11
<1>13. told' \in ToldState /\ SameNews /\ told'.enrolled = told.enrolled \ {<<previous, old.device>>}
  BY <1>2 DEF NotifyTypes, ToldState, SameNews
<1>14. ASSUME NEW x \in told'.enrolled
       PROVE  OnList(listed'[x[1]], x[2])
  BY <1>2, <1>13, <1>14, <1>8, <1>9 DEF NotifyTypes, ToldState, DevicesOK
<1>15. ErrandFits(e, scene, listed', owner')
  BY <1>2, <1>5, <1>6, <1>12 DEF ErrandFits, DevicePlaces, NewsPlaces
<1>16. errand[c].at \in DevicePlaces /\ errand[c].at \in Sections /\ e.at \in DevicePlaces
  BY <1>1, <1>2, <1>6 DEF DevicePlaces, Sections
<1>17. /\ UNCHANGED <<scene, newsVars>> /\ owner' = owner /\ owner' \in [Devices -> People \cup {Nobody}]
  BY <1>2 DEF NotifyTypes
<1>18. QED
  BY <1>4, <1>6, <1>10, <1>11, <1>13, <1>14, <1>15, <1>16, <1>17, DeviceChanges

LEMMA OwnKeeps == ASSUME NotifyInv, NEW c \in Errands, Own(c) PROVE NotifyInv'
<1>1. PICK old : old = errand[c]
  OBVIOUS
<1>2. /\ old \in ErrandState /\ old.at = "owning" /\ ErrandFits(old, scene, listed, owner)
      /\ UNCHANGED <<scene, listed, newsVars, told>> /\ NotifyTypes /\ DevicesOK
      /\ owner' = [owner EXCEPT ![old.device] = old.who]
  BY <1>1 DEF NotifyInv, NotifyTypes, DevicesOK, Own
<1>3. PICK e : e = [old EXCEPT !.at = "rereading"]
  OBVIOUS
<1>4. errand' = [errand EXCEPT ![c] = e]
  BY <1>1, <1>3 DEF Own, To
<1>5. /\ old.who \in People /\ old.kind = "add" /\ old.device \in Devices
      /\ \A p \in People : OnList(listed[p], old.device) => p = old.who
  BY <1>2 DEF ErrandFits, DevicePlaces
<1>6. /\ e \in ErrandState /\ e.at = "rereading" /\ e.kind = "add" /\ e.who = old.who /\ e.device = old.device
  BY <1>2, <1>3, <1>5 DEF ErrandState, DevicePlaces
<1>7. /\ owner' \in [Devices -> People \cup {Nobody}] /\ owner'[old.device] = old.who
      /\ \A d \in Devices : d # old.device => owner'[d] = owner[d]
  BY <1>2, <1>5 DEF NotifyTypes
<1>8. \A p \in People, d \in Devices : OnList(listed'[p], d) => owner'[d] = p
  BY <1>2, <1>5, <1>7 DEF DevicesOK
<1>9. told' \in ToldState /\ SameNews /\ \A x \in told'.enrolled : OnList(listed'[x[1]], x[2])
  BY <1>2 DEF NotifyTypes, SameNews, DevicesOK
<1>10. ErrandFits(e, scene, listed', owner')
  BY <1>2, <1>5, <1>6, <1>7 DEF ErrandFits, DevicePlaces, NewsPlaces
<1>11. errand[c].at \in DevicePlaces /\ errand[c].at \in Sections /\ e.at \in DevicePlaces
  BY <1>1, <1>2, <1>6 DEF DevicePlaces, Sections
<1>12. /\ UNCHANGED <<scene, newsVars>>
       /\ listed' \in [People -> {s \in Seq(Devices) : OwnList(s) /\ Len(s) <= MaxDevices}]
  BY <1>2 DEF NotifyTypes
<1>13. QED
  BY <1>4, <1>6, <1>7, <1>8, <1>9, <1>10, <1>11, <1>12, DeviceChanges

LEMMA SaveKeeps == ASSUME NotifyInv, NEW c \in Errands, Save(c) PROVE NotifyInv'
<1>1. PICK old, saved, made : /\ old = errand[c] /\ saved = Saved(old)
                              /\ made = IF old.kind = "add" THEN {<<old.who, old.device>>} ELSE {}
  OBVIOUS
<1>2. /\ old \in ErrandState /\ old.at = "saving" /\ ErrandFits(old, scene, listed, owner)
      /\ UNCHANGED <<scene, owner, newsVars>> /\ NotifyTypes /\ DevicesOK
      /\ listed' = [listed EXCEPT ![old.who] = saved.list]
      /\ told' = [told EXCEPT !.enrolled = (@ \ {<<old.who, d>> : d \in saved.drop}) \cup made]
  BY <1>1 DEF NotifyInv, NotifyTypes, DevicesOK, Save
<1>3. PICK e : e = IF saved.drop = {} THEN NoErrand ELSE [old EXCEPT !.at = "releasing", !.release = saved.drop]
  OBVIOUS
<1>4. errand' = [errand EXCEPT ![c] = e]
  BY <1>1, <1>3 DEF Save, Done
<1>5. /\ old.who \in People /\ old.list = listed[old.who]
      /\ \/ old.kind \in {"add", "remove"} /\ old.device \in Devices
         \/ old.kind = "record" /\ DOMAIN old.outcome \subseteq Devices
      /\ old.kind = "add" => owner[old.device] = old.who
  BY <1>2 DEF ErrandFits, DevicePlaces
<1>6. OwnList(old.list) /\ Len(old.list) <= MaxDevices
  BY <1>2, <1>5 DEF NotifyTypes
<1>7. SavesWell(old, saved)
  BY <1>1, <1>5, <1>6, SavedIs
<1>8. /\ e \in ErrandState /\ e.at \in DevicePlaces \cup {"idle"} /\ ErrandFits(e, scene, listed', owner')
  <2>1. CASE saved.drop = {}
    BY <1>3, <2>1, NoErrandIs DEF ErrandFits, DevicePlaces, NewsPlaces
  <2>2. CASE saved.drop # {}
    BY <1>3, <2>2, <1>7, <1>2, <1>5 DEF SavesWell, ErrandState, DevicePlaces, NotifyTypes,
       ErrandFits, NewsPlaces
  <2>3. QED
    BY <2>1, <2>2
<1>9. /\ listed'[old.who] = saved.list /\ \A p \in People : p # old.who => listed'[p] = listed[p]
      /\ listed' \in [People -> {s \in Seq(Devices) : OwnList(s) /\ Len(s) <= MaxDevices}]
  BY <1>7, <1>2, <1>5 DEF SavesWell, OwnList, NotifyTypes
<1>10. ASSUME NEW p \in People, NEW d \in Devices, OnList(listed'[p], d)
       PROVE  owner'[d] = p
  BY <1>2, <1>9, <1>10, <1>5, <1>7 DEF DevicesOK, SavesWell
<1>11. made \subseteq People \X Devices
  BY <1>1, <1>5
<1>12. /\ told' \in ToldState /\ SameNews
       /\ told'.enrolled = (told.enrolled \ {<<old.who, d>> : d \in saved.drop}) \cup made
  BY <1>2, <1>11 DEF NotifyTypes, ToldState, SameNews
<1>13. ASSUME NEW x \in told'.enrolled
       PROVE  OnList(listed'[x[1]], x[2])
  <2>1. CASE x \in made
    BY <1>1, <2>1, <1>7, <1>9 DEF SavesWell
  <2>2. CASE x \notin made
    BY <1>2, <1>12, <1>13, <2>2, <1>5, <1>7, <1>9 DEF NotifyTypes, ToldState, DevicesOK,
       SavesWell
  <2>3. QED
    BY <2>1, <2>2
<1>14. errand[c].at \in DevicePlaces /\ errand[c].at \in Sections
  BY <1>1, <1>2 DEF DevicePlaces, Sections
<1>15. /\ UNCHANGED <<scene, newsVars>> /\ owner' \in [Devices -> People \cup {Nobody}]
  BY <1>2 DEF NotifyTypes
<1>16. QED
  BY <1>4, <1>8, <1>9, <1>10, <1>12, <1>13, <1>14, <1>15, DeviceChanges

LEMMA ReleaseOwnerKeeps == ASSUME NotifyInv, NEW c \in Errands, ReleaseOwner(c) PROVE NotifyInv'
<1>1. PICK old : old = errand[c]
  OBVIOUS
<1>2. /\ old \in ErrandState /\ old.at = "releasing" /\ ErrandFits(old, scene, listed, owner)
      /\ UNCHANGED <<scene, listed, newsVars, told>> /\ NotifyTypes /\ DevicesOK
  BY <1>1 DEF NotifyInv, NotifyTypes, DevicesOK, ReleaseOwner
<1>3. PICK gone \in old.release :
         /\ owner' = [owner EXCEPT ![gone] = IF @ = old.who THEN Nobody ELSE @]
         /\ IF old.release = {gone} THEN Done(c) ELSE errand' = [errand EXCEPT ![c].release = @ \ {gone}]
  BY <1>1 DEF ReleaseOwner
<1>4. PICK e : e = IF old.release = {gone} THEN NoErrand ELSE [old EXCEPT !.release = @ \ {gone}]
  OBVIOUS
<1>5. errand' = [errand EXCEPT ![c] = e]
  BY <1>1, <1>3, <1>4 DEF Done
<1>6. old.release \subseteq Devices /\ old.who \in People /\ \A d \in old.release : ~OnList(listed[old.who], d)
  BY <1>2 DEF ErrandState, ErrandFits, DevicePlaces
<1>7. e \in ErrandState /\ e.at \in DevicePlaces \cup {"idle"} /\ ErrandFits(e, scene, listed', owner')
  <2>1. CASE old.release = {gone}
    BY <1>4, <2>1, NoErrandIs DEF ErrandFits, DevicePlaces, NewsPlaces
  <2>2. CASE old.release # {gone}
    BY <1>4, <2>2, <1>2, <1>6 DEF ErrandState, ErrandFits, DevicePlaces, NewsPlaces
  <2>3. QED
    BY <2>1, <2>2
<1>8. /\ owner' \in [Devices -> People \cup {Nobody}]
      /\ \A d \in Devices : owner'[d] = owner[d] \/ (d = gone /\ owner[d] = old.who)
  BY <1>3, <1>6, <1>2 DEF NotifyTypes
<1>9. \A p \in People, d \in Devices : OnList(listed'[p], d) => owner'[d] = p
  BY <1>2, <1>3, <1>6, <1>8 DEF DevicesOK
<1>10. told' \in ToldState /\ SameNews /\ \A x \in told'.enrolled : OnList(listed'[x[1]], x[2])
  BY <1>2 DEF NotifyTypes, SameNews, DevicesOK
<1>11. errand[c].at \in DevicePlaces /\ errand[c].at \in Sections
  BY <1>1, <1>2 DEF DevicePlaces, Sections
<1>12. /\ UNCHANGED <<scene, newsVars>>
       /\ listed' \in [People -> {s \in Seq(Devices) : OwnList(s) /\ Len(s) <= MaxDevices}]
  BY <1>2 DEF NotifyTypes
<1>13. QED
  BY <1>5, <1>7, <1>8, <1>9, <1>10, <1>11, <1>12, DeviceChanges

-----------------------------------------------------------------------------
(* Notices: the steps of the events                                        *)

\* Where a handler holds nothing the others depend on.
QuietPlaces == {"idle", "issue", "questions", "claim", "comment", "failure", "throttle", "approval"}

LEMMA QuietStep ==
    ASSUME NotifyInv, UNCHANGED <<scene, listed, owner, core, kept>>,
           errand' \in [Errands -> ErrandState],
           \A d \in Errands : \/ errand'[d] = errand[d]
                              \/ /\ errand'[d].at \in QuietPlaces
                                 /\ errand'[d].at = "idle" \/ scene = "events",
           news' \in Seq(News) /\ Len(news') <= MaxNews /\ (scene = "devices" => news' = <<>>),
           recent' \in Seq(Nat) /\ Len(recent') <= RecentEvents,
           told' \in ToldState, told'.enrolled = told.enrolled,
           told'.entered = told.entered, told'.moved = told.moved, told'.asOf = told.asOf,
           told'.crossed = told.crossed, told'.asked = told.asked, told'.failures = told.failures,
           told'.failed = told.failed, told'.heard \subseteq Active(core.members)
    PROVE  NotifyInv'
BY DevicesStay, MovesStay, AsksStay, FailuresStay DEF NotifyInv, NotifyTypes, QuietPlaces,
   Sections, OneSection, NewsPlaces, Active

LEMMA EventStep ==
    ASSUME NotifyInv, NEW c \in Errands, NEW e \in ErrandState, errand' = [errand EXCEPT ![c] = e],
           scene = "events", UNCHANGED <<scene, deviceVars, core, news, recent>>,
           e.at \in NewsPlaces \cup {"idle"},
           e.at \in {"swap", "swapping", "status"} => e.status \in TaskStates,
           e.at \in Sections => TurnFree \/ errand[c].at \in Sections,
           kept' \in KeptState, told' \in ToldState, told'.enrolled = told.enrolled,
           told'.heard \subseteq Active(core.members),
           MovesOK', AsksOK', FailuresOK'
    PROVE  NotifyInv'
BY ErrandIs, SectionKept, DevicesStay DEF NotifyInv, deviceVars, NotifyTypes, Active

\* A handler's locals, and the people a notice may go to.
LEMMA HandlerIs ==
    ASSUME NotifyInv, NEW c \in Errands, NEW at, Events(c, at)
    PROVE  /\ scene = "events" /\ errand[c] \in ErrandState /\ errand[c].at = at /\ NotifyTypes
           /\ at \in {"swap", "swapping", "status"} => errand[c].status \in TaskStates
           /\ kept \in KeptState /\ told \in ToldState /\ told.heard \subseteq Active(core.members)
BY DEF NotifyInv, NotifyTypes, Events, DevicesOK, ErrandFits

LEMMA Recipients ==
    /\ \A issue, actor : TaskOwners(issue, core.members, actor) \subseteq Active(core.members)
    /\ \A q, issue : AskRecipients(q, issue, core.members) \subseteq Active(core.members)
    /\ FailureRecipients(core.members) \subseteq Active(core.members)
    /\ \A actor : ApprovalRecipients(core.members, actor) \subseteq Active(core.members)
    /\ Active(core.members) \subseteq People
BY DEF TaskOwners, AskRecipients, FailureRecipients, ApprovalRecipients, Only, Active

LEMMA Movable ==
    ASSUME NEW e \in ErrandState, NEW at \in {"idle"} \cup DevicePlaces \cup NewsPlaces, NEW f, f = [e EXCEPT !.at = at]
    PROVE  /\ f \in ErrandState /\ f.at = at /\ f.kind = e.kind /\ f.asOf = e.asOf /\ f.status = e.status
           /\ f.stored = e.stored
BY DEF ErrandState

\* A step that only moves a handler to a place where it holds nothing.
LEMMA QuietMove ==
    ASSUME NotifyInv, NEW c \in Errands, NEW e \in ErrandState, errand' = [errand EXCEPT ![c] = e],
           e.at \in QuietPlaces, e.at = "idle" \/ scene = "events",
           UNCHANGED <<scene, deviceVars, newsVars, told>>
    PROVE  NotifyInv'
BY ErrandIs, QuietStep DEF NotifyInv, deviceVars, newsVars, NotifyTypes

LEMMA AfterQuestionsIs == ASSUME NEW c PROVE AfterQuestions(c) \in {"failure", "comment"}
BY DEF AfterQuestions

LEMMA QuietMoves ==
    ASSUME NotifyInv, NEW c \in Errands,
           CheckQuestions(c) \/ FailureHeard(c) \/ (FailureReads(c) /\ Done(c)) \/ ErrandFails(c)
              \/ (ClaimReads(c) /\ kept.asked)
    PROVE  NotifyInv'
<1>1. /\ errand[c] \in ErrandState /\ UNCHANGED <<scene, deviceVars, newsVars, told>>
  BY DEF NotifyInv, NotifyTypes, CheckQuestions, FailureHeard, FailureReads, ErrandFails, ClaimReads
<1>2. CASE Done(c)
  BY <1>2, <1>1, NoErrandIs, QuietMove DEF Done, QuietPlaces
<1>3. CASE \E at \in QuietPlaces : To(c, at) /\ scene = "events"
  <2>1. PICK at \in QuietPlaces : To(c, at) /\ scene = "events"
    BY <1>3
  <2>2. PICK e : e = [errand[c] EXCEPT !.at = at]
    OBVIOUS
  <2>3. at \in {"idle"} \cup DevicePlaces \cup NewsPlaces
    BY DEF QuietPlaces, NewsPlaces
  <2>4. e \in ErrandState /\ e.at = at /\ errand' = [errand EXCEPT ![c] = e]
    BY <1>1, <2>1, <2>2, <2>3, Movable DEF To
  <2>5. QED
    BY <1>1, <2>1, <2>4, QuietMove
<1>4. Done(c) \/ \E at \in QuietPlaces : To(c, at) /\ scene = "events"
  <2>1. {"claim", "throttle", "failure", "comment"} \subseteq QuietPlaces
    BY DEF QuietPlaces
  <2>2. AfterQuestions(c) \in QuietPlaces
    BY <2>1, AfterQuestionsIs
  <2>3. CASE ErrandFails(c)
    BY <2>2, <2>3 DEF NotifyInv, DevicesOK, ErrandFits, ErrandFails, NewsPlaces
  <2>4. CASE CheckQuestions(c)
    BY <2>1, <2>2, <2>4 DEF CheckQuestions, Events
  <2>5. CASE FailureHeard(c)
    BY <2>1, <2>5 DEF FailureHeard, Events
  <2>6. CASE ClaimReads(c) /\ kept.asked
    BY <2>2, <2>6 DEF ClaimReads, Events
  <2>7. QED
    BY <2>3, <2>4, <2>5, <2>6
<1>5. QED
  BY <1>2, <1>3, <1>4

LEMMA WorkerStartsKeeps == ASSUME NotifyInv, WorkerStarts PROVE NotifyInv'
BY NoErrandIs, NotifyNumbers, QuietStep DEF WorkerStarts, NotifyInv, NotifyTypes,
   QuietPlaces, deviceVars

LEMMA HandleKeeps == ASSUME NotifyInv, NEW c \in Errands, NEW n \in DOMAIN news, Handle(c, n) PROVE NotifyInv'
<1>1. /\ NotifyTypes /\ UNCHANGED <<scene, deviceVars, core, kept, told>> /\ news \in Seq(News) /\ Len(news) <= MaxNews
      /\ news' = [news EXCEPT ![n].delivered = @ + 1] /\ news[n].delivered < 2
  BY DEF NotifyInv, NotifyTypes, Handle
<1>2. scene = "events" /\ n \in 1..Len(news) /\ n \in 0..MaxNews /\ n \in Nat /\ news[n] \in News
  BY <1>1, NotifyNumbers DEF NotifyTypes
<1>3. news' \in Seq(News) /\ Len(news') = Len(news)
  BY <1>1, <1>2, ExceptSeq DEF News
<1>4. recent' \in Seq(Nat) /\ Len(recent') <= RecentEvents
  <2>1. PICK longer : longer = Append(recent, n)
    OBVIOUS
  <2>2. recent \in Seq(Nat) /\ Len(recent) \in Nat /\ Len(recent) <= RecentEvents /\ RecentEvents \in Nat
    BY <1>1, NotifyNumbers DEF NotifyTypes
  <2>3. longer \in Seq(Nat) /\ longer # <<>> /\ Len(longer) = Len(recent) + 1
    BY <1>2, <2>1, <2>2, AppendProperties
  <2>4. Tail(longer) \in Seq(Nat) /\ Len(Tail(longer)) = Len(recent)
    BY <2>2, <2>3, HeadTailProperties
  <2>5. Remember(n) = IF Len(longer) > RecentEvents THEN Tail(longer) ELSE longer
    BY <2>1 DEF Remember
  <2>6. Remember(n) \in Seq(Nat) /\ Len(Remember(n)) <= RecentEvents
    BY <2>2, <2>3, <2>4, <2>5
  <2>7. recent' = recent \/ recent' = Remember(n)
    BY DEF Handle
  <2>8. QED
    BY <2>2, <2>6, <2>7
<1>5. /\ errand' \in [Errands -> ErrandState]
      /\ \A d \in Errands : errand'[d] = errand[d] \/ errand'[d].at \in QuietPlaces
  <2>1. CASE errand' = errand
    BY <1>1, <2>1 DEF NotifyTypes
  <2>2. CASE errand' # errand
    <3>1. PICK at : at = CASE news[n].type = "updated" -> "issue" [] news[n].type = "approval" -> "approval"
                           [] OTHER -> "questions"
      OBVIOUS
    <3>2. at \in {"issue", "approval", "questions"}
      BY <3>1
    <3>3. PICK e : e = [NoErrand EXCEPT !.event = n, !.kind = news[n].type, !.at = at]
      OBVIOUS
    <3>4. errand' = [errand EXCEPT ![c] = e]
      BY <2>2, <3>1, <3>3 DEF Handle
    <3>5. e \in ErrandState /\ e.at = at
      BY <1>2, <3>2, <3>3, NoErrandIs DEF ErrandState, News, NewsPlaces
    <3>6. QED
      BY <1>1, <3>2, <3>4, <3>5, ErrandIs DEF QuietPlaces
  <2>3. QED
    BY <2>1, <2>2
<1>6. told' \in ToldState /\ told' = told /\ told'.heard \subseteq Active(core.members)
  BY <1>1 DEF NotifyInv, NotifyTypes
<1>7. listed' = listed /\ owner' = owner /\ scene' = scene /\ core' = core /\ kept' = kept
  BY <1>1 DEF deviceVars
<1>8. QED
  BY <1>1, <1>2, <1>3, <1>4, <1>5, <1>6, <1>7, QuietStep

LEMMA ReadIssueKeeps == ASSUME NotifyInv, NEW c \in Errands, ReadIssue(c) PROVE NotifyInv'
<1>1. PICK old : old = errand[c]
  OBVIOUS
<1>2. /\ scene = "events" /\ old \in ErrandState /\ old.at = "issue" /\ NotifyTypes
      /\ told \in ToldState /\ kept \in KeptState /\ told.heard \subseteq Active(core.members)
      /\ UNCHANGED <<scene, deviceVars, newsVars, told>>
  BY <1>1, HandlerIs DEF ReadIssue
<1>3. PICK e : e = [old EXCEPT !.at = "swap", !.status = core.status, !.asOf = core.moves]
  OBVIOUS
<1>4. errand' = [errand EXCEPT ![c] = e]
  BY <1>1, <1>3 DEF ReadIssue
<1>5. core.status \in TaskStates /\ core.moves \in Nat
  BY <1>2 DEF NotifyTypes, CoreState
<1>6. e \in ErrandState /\ e.at = "swap" /\ e.status = core.status /\ e.asOf = core.moves
  BY <1>2, <1>3, <1>5 DEF ErrandState, NewsPlaces
<1>7. errand'[c] = e /\ \A d \in Errands : d # c => errand'[d] = errand[d]
  BY <1>2, <1>4, <1>6, ErrandIs
<1>8. core' = core /\ kept' = kept /\ told' = told /\ news' = news /\ recent' = recent
  BY <1>2 DEF newsVars
<1>9. MovesOK'
  <2>1. SUFFICES ASSUME ~told.crossed
                 PROVE  \E h \in [0..core.moves -> TaskStates], m \in [TaskStates -> SUBSET (1..core.moves)] :
                           MovesAre(h, m)'
    BY <1>8 DEF MovesOK
  <2>2. PICK h \in [0..core.moves -> TaskStates], m \in [TaskStates -> SUBSET (1..core.moves)] : MovesAre(h, m)
    BY <2>1 DEF MovesOK, NotifyInv
  <2>3. core.moves \in 0..core.moves /\ core.status = h[core.moves]
    BY <1>5, <2>2 DEF MovesAre
  <2>4. ASSUME NEW d \in Errands
        PROVE  /\ errand'[d].at \in {"swap", "swapping", "status"} =>
                     errand'[d].asOf \in 0..core.moves /\ errand'[d].status = h[errand'[d].asOf]
               /\ errand'[d].at = "swapping" => errand'[d].stored = kept.status
               /\ errand'[d].at = "status" => /\ errand'[d].asOf \in 1..told.asOf
                                              /\ \A s \in TaskStates : errand'[d].asOf \notin m[s]
    BY <1>6, <1>7, <2>2, <2>3 DEF MovesAre
  <2>5. \A d, f \in Errands : errand'[d].at = "status" /\ errand'[f].at = "status"
                                 /\ errand'[d].asOf = errand'[f].asOf => d = f
    BY <1>6, <1>7, <2>2 DEF MovesAre
  <2>6. MovesAre(h, m)'
    BY <1>8, <2>2, <2>4, <2>5 DEF MovesAre
  <2>7. QED
    BY <2>6
<1>10. AsksOK' /\ FailuresOK'
  BY <1>6, <1>7, <1>8, AsksStay, FailuresStay DEF NotifyInv
<1>11. e.at \in NewsPlaces /\ e.at \notin Sections
  BY <1>6 DEF NewsPlaces, Sections
<1>12. QED
  BY <1>2, <1>4, <1>5, <1>6, <1>8, <1>9, <1>10, <1>11, EventStep

LEMMA SwapReadsKeeps == ASSUME NotifyInv, NEW c \in Errands, SwapReads(c) PROVE NotifyInv'
<1>1. PICK old : old = errand[c]
  OBVIOUS
<1>2. /\ scene = "events" /\ old \in ErrandState /\ old.at = "swap" /\ NotifyTypes /\ old.status \in TaskStates
      /\ told \in ToldState /\ kept \in KeptState /\ told.heard \subseteq Active(core.members)
      /\ UNCHANGED <<scene, deviceVars, newsVars, told>> /\ TurnFree
  BY <1>1, HandlerIs DEF SwapReads
<1>3. PICK e : e = [old EXCEPT !.at = "swapping", !.stored = kept.status]
  OBVIOUS
<1>4. errand' = [errand EXCEPT ![c] = e]
  BY <1>1, <1>3 DEF SwapReads
<1>5. /\ e \in ErrandState /\ e.at = "swapping" /\ e.status = old.status /\ e.asOf = old.asOf
      /\ e.stored = kept.status
  BY <1>2, <1>3 DEF ErrandState, KeptState, NewsPlaces
<1>6. errand'[c] = e /\ \A d \in Errands : d # c => errand'[d] = errand[d]
  BY <1>2, <1>4, <1>5, ErrandIs
<1>7. core' = core /\ kept' = kept /\ told' = told /\ news' = news /\ recent' = recent
  BY <1>2 DEF newsVars
<1>8. MovesOK'
  <2>1. SUFFICES ASSUME ~told.crossed
                 PROVE  \E h \in [0..core.moves -> TaskStates], m \in [TaskStates -> SUBSET (1..core.moves)] :
                           MovesAre(h, m)'
    BY <1>7 DEF MovesOK
  <2>2. PICK h \in [0..core.moves -> TaskStates], m \in [TaskStates -> SUBSET (1..core.moves)] : MovesAre(h, m)
    BY <2>1 DEF MovesOK, NotifyInv
  <2>3. MovesAre(h, m)'
    BY <1>1, <1>2, <1>5, <1>6, <1>7, <2>2 DEF MovesAre
  <2>4. QED
    BY <2>3
<1>9. AsksOK' /\ FailuresOK'
  BY <1>5, <1>6, <1>7, AsksStay, FailuresStay DEF NotifyInv
<1>10. e.at \in NewsPlaces
  BY <1>5 DEF NewsPlaces
<1>11. QED
  BY <1>2, <1>4, <1>5, <1>7, <1>8, <1>9, <1>10, EventStep

\* What makes a swap count as a move into a status is a status the store did not have.
LEMMA TransitionIs ==
    ASSUME NEW stored, NEW reported, NEW status, StatusTransition(status, Previous(stored, reported, status))
    PROVE  stored # status /\ status # "todo"
BY DEF StatusTransition, Previous

LEMMA SwapWritesKeeps == ASSUME NotifyInv, NEW c \in Errands, SwapWrites(c) PROVE NotifyInv'
<1>1. PICK old : old = errand[c]
  OBVIOUS
<1>2. /\ scene = "events" /\ old \in ErrandState /\ old.at = "swapping" /\ NotifyTypes /\ old.status \in TaskStates
      /\ told \in ToldState /\ kept \in KeptState /\ told.heard \subseteq Active(core.members)
      /\ UNCHANGED <<scene, deviceVars, core, news, recent>>
      /\ kept' = [kept EXCEPT !.status = old.status]
      /\ told' = [told EXCEPT !.crossed = @ \/ old.asOf < told.asOf, !.asOf = old.asOf]
  BY <1>1, HandlerIs DEF SwapWrites
<1>3. PICK e : /\ errand' = [errand EXCEPT ![c] = e]
               /\ \/ e = NoErrand
                  \/ e = [old EXCEPT !.at = "status"] /\ old.stored # old.status /\ old.status # "todo"
  BY <1>1, TransitionIs DEF Done, To, SwapWrites
<1>4. /\ e \in ErrandState /\ e.at \in {"idle", "status"}
      /\ e.at = "status" => /\ e.status = old.status /\ e.asOf = old.asOf
                            /\ old.stored # old.status /\ old.status # "todo"
  BY <1>2, <1>3, NoErrandIs DEF ErrandState, NewsPlaces
<1>5. errand'[c] = e /\ \A d \in Errands : d # c => errand'[d] = errand[d]
  BY <1>2, <1>3, <1>4, ErrandIs
<1>6. /\ kept' \in KeptState /\ kept'.status = old.status /\ kept'.asked = kept.asked /\ kept'.failed = kept.failed
  BY <1>2 DEF KeptState
<1>7. PICK crossed \in BOOLEAN : crossed = (told.crossed \/ old.asOf < told.asOf)
  OBVIOUS
<1>8. told' = [told EXCEPT !.crossed = crossed, !.asOf = old.asOf]
  BY <1>2, <1>7
<1>9. old.asOf \in Nat
  BY <1>2 DEF ErrandState
<1>10. /\ told' \in ToldState /\ told'.crossed = crossed /\ told'.asOf = old.asOf
       /\ told'.enrolled = told.enrolled /\ told'.heard = told.heard /\ told'.entered = told.entered
       /\ told'.moved = told.moved /\ told'.asked = told.asked /\ told'.failures = told.failures
       /\ told'.failed = told.failed
  BY <1>2, <1>8, <1>9 DEF ToldState
<1>11. core' = core /\ core.moves \in Nat
  BY <1>2 DEF NotifyTypes, CoreState
<1>12. MovesOK'
  <2>1. SUFFICES ASSUME ~crossed
                 PROVE  \E h \in [0..core.moves -> TaskStates], m \in [TaskStates -> SUBSET (1..core.moves)] :
                           MovesAre(h, m)'
    BY <1>10, <1>11 DEF MovesOK
  <2>2. ~told.crossed /\ told.asOf \in Nat /\ told.asOf <= old.asOf
    <3>1. ~(told.crossed \/ old.asOf < told.asOf)
      BY <1>7, <2>1
    <3>2. told.asOf \in Nat
      BY <1>2 DEF ToldState
    <3>3. QED
      BY <1>9, <3>1, <3>2
  <2>3. PICK h \in [0..core.moves -> TaskStates], m \in [TaskStates -> SUBSET (1..core.moves)] : MovesAre(h, m)
    BY <2>2 DEF MovesOK, NotifyInv
  <2>4. /\ h[0] = "todo" /\ h[core.moves] = core.status
        /\ old.asOf \in 0..core.moves /\ old.status = h[old.asOf] /\ old.stored = kept.status
        /\ kept.status \in {Nil, h[told.asOf]} /\ (kept.status = Nil => told.asOf = 0)
    BY <1>1, <1>2, <2>3 DEF MovesAre
  <2>5. kept'.status = h[old.asOf] /\ kept'.status # Nil
    BY <1>2, <1>6, <2>4 DEF TaskStates, Nil
  <2>6. e.at = "status" => old.asOf \in (told.asOf + 1)..core.moves
    BY <1>4, <2>4, <1>9, <1>11, <2>2
  <2>7. \A s \in TaskStates : /\ told.moved[s] = Cardinality(m[s]) /\ m[s] \subseteq {i \in 1..told.asOf : h[i] = s}
                              /\ m[s] \subseteq {i \in 1..old.asOf : h[i] = s}
    BY <1>9, <2>2, <2>3 DEF MovesAre
  <2>8. \A s \in TaskStates : told.entered[s] = Cardinality({i \in 1..core.moves : h[i] = s})
    BY <2>3 DEF MovesAre
  <2>9. ASSUME NEW d \in Errands
        PROVE  /\ errand'[d].at \in {"swap", "swapping", "status"} =>
                     errand'[d].asOf \in 0..core.moves /\ errand'[d].status = h[errand'[d].asOf]
               /\ errand'[d].at # "swapping"
               /\ errand'[d].at = "status" => /\ errand'[d].asOf \in 1..old.asOf
                                              /\ \A s \in TaskStates : errand'[d].asOf \notin m[s]
    <3>1. CASE d = c
      BY <2>2, <2>6, <1>9, <2>4, <2>7, <1>4, <1>5, <3>1
    <3>2. CASE d # c
      BY <1>1, <1>2, <1>5, <3>2, <1>9, <2>2, <2>3 DEF NotifyInv, OneSection, Sections,
         MovesAre
    <3>3. QED
      BY <3>1, <3>2
  <2>10. ASSUME NEW d \in Errands, NEW f \in Errands, errand'[d].at = "status", errand'[f].at = "status",
                errand'[d].asOf = errand'[f].asOf
         PROVE  d = f
    BY <2>3, <1>4, <2>2, <2>6, <1>5, <2>10 DEF MovesAre
  <2>11. MovesAre(h, m)'
    BY <1>10, <1>11, <2>4, <2>5, <2>7, <2>8, <2>9, <2>10 DEF MovesAre
  <2>12. QED
    BY <2>11
<1>13. AsksOK' /\ FailuresOK'
  BY <1>4, <1>5, <1>6, <1>10, AsksStay, FailuresStay DEF NotifyInv
<1>14. e.at \in NewsPlaces \cup {"idle"} /\ e.at \notin Sections /\ e.at \notin {"swap", "swapping"}
  BY <1>4 DEF NewsPlaces, Sections
<1>15. QED
  BY <1>2, <1>3, <1>4, <1>6, <1>10, <1>12, <1>13, <1>14, EventStep

LEMMA NoticeStatusKeeps == ASSUME NotifyInv, NEW c \in Errands, NoticeStatus(c) PROVE NotifyInv'
<1>1. PICK old : old = errand[c]
  OBVIOUS
<1>2. /\ scene = "events" /\ old \in ErrandState /\ old.at = "status" /\ NotifyTypes /\ old.status \in TaskStates
      /\ told \in ToldState /\ kept \in KeptState /\ told.heard \subseteq Active(core.members)
      /\ UNCHANGED <<scene, deviceVars, newsVars>> /\ errand' = [errand EXCEPT ![c] = NoErrand]
  BY <1>1, HandlerIs DEF NoticeStatus, Done
<1>3. PICK people, moved :
         /\ people = TaskOwners(core, core.members, Nobody)
         /\ moved = [told.moved EXCEPT ![old.status] = @ + 1]
  OBVIOUS
<1>4. told' = [told EXCEPT !.heard = @ \cup people, !.moved = moved]
  BY <1>1, <1>3 DEF NoticeStatus, Tells
<1>5. people \subseteq Active(core.members) /\ people \subseteq People
  BY <1>3, Recipients
<1>6. /\ moved \in [TaskStates -> Nat] /\ moved[old.status] = told.moved[old.status] + 1
      /\ \A s \in TaskStates : s # old.status => moved[s] = told.moved[s]
  BY <1>2, <1>3 DEF ToldState
<1>7. /\ told' \in ToldState /\ told'.crossed = told.crossed /\ told'.asOf = told.asOf /\ told'.moved = moved
      /\ told'.enrolled = told.enrolled /\ told'.heard = told.heard \cup people /\ told'.entered = told.entered
      /\ told'.asked = told.asked /\ told'.failures = told.failures /\ told'.failed = told.failed
  BY <1>2, <1>4, <1>5, <1>6 DEF ToldState
<1>8. core' = core /\ kept' = kept /\ news' = news /\ recent' = recent /\ core.moves \in Nat
  BY <1>2 DEF newsVars, NotifyTypes, CoreState
<1>9. errand'[c] = NoErrand /\ \A d \in Errands : d # c => errand'[d] = errand[d]
  BY <1>2, NoErrandIs, ErrandIs
<1>10. MovesOK'
  <2>1. SUFFICES ASSUME ~told.crossed
                 PROVE  \E h \in [0..core.moves -> TaskStates], m \in [TaskStates -> SUBSET (1..core.moves)] :
                           MovesAre(h, m)'
    BY <1>7, <1>8 DEF MovesOK
  <2>2. PICK h \in [0..core.moves -> TaskStates], m \in [TaskStates -> SUBSET (1..core.moves)] : MovesAre(h, m)
    BY <2>1 DEF MovesOK, NotifyInv
  <2>3. /\ old.asOf \in 1..told.asOf /\ old.asOf \in 0..core.moves /\ old.status = h[old.asOf]
        /\ \A s \in TaskStates : old.asOf \notin m[s]
        /\ told.asOf \in 0..core.moves
    BY <1>1, <1>2, <2>2 DEF MovesAre
  <2>4. PICK n : n = [m EXCEPT ![old.status] = @ \cup {old.asOf}]
    OBVIOUS
  <2>5. old.asOf \in 1..core.moves
    BY <1>8, <2>3
  <2>6. /\ n \in [TaskStates -> SUBSET (1..core.moves)] /\ n[old.status] = m[old.status] \cup {old.asOf}
        /\ \A s \in TaskStates : s # old.status => n[s] = m[s]
    BY <1>2, <2>4, <2>5
  <2>7. Cardinality(n[old.status]) = moved[old.status]
    <3>1. IsFiniteSet(m[old.status])
      <4>1. IsFiniteSet(1..core.moves)
        BY <1>8, FS_Interval
      <4>2. m[old.status] \subseteq 1..core.moves
        BY <1>2
      <4>3. QED
        BY <4>1, <4>2, FS_Subset
    <3>2. Cardinality(m[old.status] \cup {old.asOf}) = Cardinality(m[old.status]) + 1
      BY <1>2, <2>3, <3>1, FS_AddElement
    <3>3. told.moved[old.status] = Cardinality(m[old.status])
      BY <1>2, <2>2 DEF MovesAre
    <3>4. QED
      BY <1>6, <2>6, <3>2, <3>3
  <2>8. \A s \in TaskStates : moved[s] = Cardinality(n[s]) /\ n[s] \subseteq {i \in 1..told.asOf : h[i] = s}
    <3>1. \A s \in TaskStates : told.moved[s] = Cardinality(m[s]) /\ m[s] \subseteq {i \in 1..told.asOf : h[i] = s}
      BY <2>2 DEF MovesAre
    <3>2. \A s \in TaskStates : s # old.status => moved[s] = told.moved[s] /\ n[s] = m[s]
      BY <1>2, <1>6, <2>6
    <3>3. \A i \in n[old.status] : i \in 1..told.asOf /\ h[i] = old.status
      BY <1>2, <3>1, <2>3, <2>6
    <3>4. QED
      BY <2>7, <3>1, <3>2, <3>3
  <2>9. ASSUME NEW d \in Errands
        PROVE  /\ errand'[d].at \in {"swap", "swapping", "status"} =>
                     errand'[d].asOf \in 0..core.moves /\ errand'[d].status = h[errand'[d].asOf]
               /\ errand'[d].at = "swapping" => errand'[d].stored = kept.status
               /\ errand'[d].at = "status" => /\ errand'[d].asOf \in 1..told.asOf
                                              /\ \A s \in TaskStates : errand'[d].asOf \notin n[s]
    BY <1>9, NoErrandIs, <1>1, <1>2, <2>2, <2>6 DEF MovesAre
  <2>10. \A d, f \in Errands : errand'[d].at = "status" /\ errand'[f].at = "status"
                                  /\ errand'[d].asOf = errand'[f].asOf => d = f
    BY <1>9, <2>2, NoErrandIs DEF MovesAre
  <2>11. MovesAre(h, n)'
    BY <2>2, <1>7, <1>8, <2>8, <2>9, <2>10 DEF MovesAre
  <2>12. QED
    BY <2>6, <2>11
<1>11. AsksOK' /\ FailuresOK'
  BY <1>7, <1>8, <1>9, NoErrandIs, AsksStay, FailuresStay DEF NotifyInv
<1>12. told'.heard \subseteq Active(core.members)
  BY <1>2, <1>5, <1>7
<1>13. NoErrand.at \notin Sections /\ NoErrand.at \notin {"swap", "swapping", "status"}
  BY NoErrandIs DEF Sections
<1>14. QED
  BY <1>2, <1>7, <1>8, <1>10, <1>11, <1>12, <1>13, NoErrandIs, EventStep

LEMMA ClaimReadsKeeps == ASSUME NotifyInv, NEW c \in Errands, ClaimReads(c) PROVE NotifyInv'
<1>1. PICK old : old = errand[c]
  OBVIOUS
<1>2. /\ scene = "events" /\ old \in ErrandState /\ old.at = "claim" /\ NotifyTypes
      /\ told \in ToldState /\ kept \in KeptState /\ told.heard \subseteq Active(core.members)
      /\ UNCHANGED <<scene, deviceVars, newsVars, told>> /\ TurnFree
  BY <1>1, HandlerIs DEF ClaimReads
<1>3. CASE kept.asked
  BY <1>3, QuietMoves
<1>4. CASE ~kept.asked
  <2>1. PICK e : e = [old EXCEPT !.at = "asking"]
    OBVIOUS
  <2>2. errand' = [errand EXCEPT ![c] = e]
    BY <1>1, <1>4, <2>1 DEF ClaimReads, To
  <2>3. e \in ErrandState /\ e.at = "asking"
    BY <1>2, <2>1, Movable DEF NewsPlaces
  <2>4. errand'[c] = e /\ \A d \in Errands : d # c => errand'[d] = errand[d]
    BY <1>2, <2>2, <2>3, ErrandIs
  <2>5. core' = core /\ kept' = kept /\ told' = told /\ news' = news /\ recent' = recent
    BY <1>2 DEF newsVars
  <2>6. AsksOK'
    BY <1>4, <2>3, <2>4, <2>5 DEF NotifyInv, AsksOK
  <2>7. MovesOK' /\ FailuresOK'
    BY <2>3, <2>4, <2>5, MovesStay, FailuresStay DEF NotifyInv
  <2>8. e.at \in NewsPlaces
    BY <2>3 DEF NewsPlaces
  <2>9. QED
    BY <1>2, <2>2, <2>3, <2>5, <2>6, <2>7, <2>8, EventStep
<1>5. QED
  BY <1>3, <1>4

LEMMA ClaimWritesKeeps == ASSUME NotifyInv, NEW c \in Errands, ClaimWrites(c) PROVE NotifyInv'
<1>1. PICK old : old = errand[c]
  OBVIOUS
<1>2. /\ scene = "events" /\ old \in ErrandState /\ old.at = "asking" /\ NotifyTypes
      /\ told \in ToldState /\ kept \in KeptState /\ told.heard \subseteq Active(core.members)
      /\ UNCHANGED <<scene, deviceVars, core, news, recent, told>> /\ kept' = [kept EXCEPT !.asked = TRUE]
  BY <1>1, HandlerIs DEF ClaimWrites
<1>3. PICK at \in {"failure", "comment", "ask"} : To(c, at)
  BY AfterQuestionsIs DEF ClaimWrites
<1>4. PICK e : e = [old EXCEPT !.at = at]
  OBVIOUS
<1>5. errand' = [errand EXCEPT ![c] = e]
  BY <1>1, <1>3, <1>4 DEF To
<1>6. e \in ErrandState /\ e.at = at
  BY <1>2, <1>4, Movable DEF NewsPlaces
<1>7. errand'[c] = e /\ \A d \in Errands : d # c => errand'[d] = errand[d]
  BY <1>2, <1>5, <1>6, ErrandIs
<1>8. kept' \in KeptState /\ kept'.asked = TRUE /\ kept'.status = kept.status /\ kept'.failed = kept.failed
  BY <1>2 DEF KeptState
<1>9. core' = core /\ told' = told
  BY <1>2
<1>10. AsksOK'
  BY <1>1, <1>2, <1>6, <1>7, <1>8, <1>9 DEF NotifyInv, AsksOK, OneSection, Sections
<1>11. MovesOK' /\ FailuresOK'
  BY <1>6, <1>7, <1>8, <1>9, MovesStay, FailuresStay DEF NotifyInv
<1>12. e.at \in NewsPlaces /\ e.at \notin Sections /\ e.at \notin {"swap", "swapping", "status"}
  BY <1>6 DEF NewsPlaces, Sections
<1>13. QED
  BY <1>2, <1>5, <1>6, <1>8, <1>9, <1>10, <1>11, <1>12, EventStep

LEMMA NoticeQuestionKeeps == ASSUME NotifyInv, NEW c \in Errands, NoticeQuestion(c) PROVE NotifyInv'
<1>1. PICK old, people : old = errand[c] /\ people = AskRecipients(core.question, core, core.members)
  OBVIOUS
<1>2. /\ scene = "events" /\ old \in ErrandState /\ old.at = "ask" /\ NotifyTypes
      /\ told \in ToldState /\ kept \in KeptState /\ told.heard \subseteq Active(core.members)
      /\ UNCHANGED <<scene, deviceVars, newsVars>>
      /\ told' = [told EXCEPT !.heard = @ \cup people, !.asked = @ + 1]
  BY <1>1, HandlerIs DEF NoticeQuestion, Tells
<1>3. PICK at \in {"failure", "comment"} : To(c, at)
  BY AfterQuestionsIs DEF NoticeQuestion
<1>4. PICK e : e = [old EXCEPT !.at = at]
  OBVIOUS
<1>5. errand' = [errand EXCEPT ![c] = e]
  BY <1>1, <1>3, <1>4 DEF To
<1>6. e \in ErrandState /\ e.at = at
  BY <1>2, <1>4, Movable DEF NewsPlaces
<1>7. errand'[c] = e /\ \A d \in Errands : d # c => errand'[d] = errand[d]
  BY <1>2, <1>5, <1>6, ErrandIs
<1>8. people \subseteq Active(core.members) /\ people \subseteq People
  BY <1>1, Recipients
<1>9. /\ told' \in ToldState /\ told'.asked = told.asked + 1 /\ told'.heard = told.heard \cup people
      /\ told'.enrolled = told.enrolled /\ told'.entered = told.entered /\ told'.moved = told.moved
      /\ told'.asOf = told.asOf /\ told'.crossed = told.crossed
      /\ told'.failures = told.failures /\ told'.failed = told.failed
  <2>1. PICK heard, asked : heard = told.heard \cup people /\ asked = told.asked + 1
    OBVIOUS
  <2>2. told' = [told EXCEPT !.heard = heard, !.asked = asked]
    BY <1>2, <2>1
  <2>3. heard \in SUBSET People /\ asked \in Nat
    BY <1>2, <1>8, <2>1 DEF ToldState
  <2>4. QED
    BY <1>2, <2>1, <2>2, <2>3 DEF ToldState
<1>10. core' = core /\ kept' = kept /\ news' = news /\ recent' = recent
  BY <1>2 DEF newsVars
<1>11. AsksOK'
  BY <1>1, <1>2, <1>6, <1>7, <1>9, <1>10 DEF NotifyInv, AsksOK
<1>12. MovesOK' /\ FailuresOK'
  BY <1>6, <1>7, <1>9, <1>10, MovesStay, FailuresStay DEF NotifyInv
<1>13. told'.heard \subseteq Active(core.members)
  BY <1>2, <1>8, <1>9
<1>14. e.at \in NewsPlaces /\ e.at \notin Sections /\ e.at \notin {"swap", "swapping", "status"}
  BY <1>6 DEF NewsPlaces, Sections
<1>15. QED
  BY <1>2, <1>5, <1>6, <1>9, <1>10, <1>11, <1>12, <1>13, <1>14, EventStep

\* A comment or an approval is told of: only what people have heard changes.
LEMMA NoticesKeep == ASSUME NotifyInv, NEW c \in Errands, NoticeComment(c) \/ NoticeApproval(c) PROVE NotifyInv'
<1>1. /\ scene = "events" /\ NotifyTypes /\ told \in ToldState /\ told.heard \subseteq Active(core.members)
      /\ UNCHANGED <<scene, deviceVars, newsVars>> /\ errand' = [errand EXCEPT ![c] = NoErrand]
  BY HandlerIs DEF NoticeComment, NoticeApproval, Done
<1>2. PICK people \in SUBSET Active(core.members) : told' = [told EXCEPT !.heard = @ \cup people]
  BY Recipients, <1>1 DEF NoticeComment, Tells, NoticeApproval, ToldState
<1>3. people \subseteq People
  BY Recipients
<1>4. /\ told' \in ToldState /\ told'.heard = told.heard \cup people
      /\ told'.enrolled = told.enrolled /\ told'.entered = told.entered /\ told'.moved = told.moved
      /\ told'.asOf = told.asOf /\ told'.crossed = told.crossed /\ told'.asked = told.asked
      /\ told'.failures = told.failures /\ told'.failed = told.failed
  BY <1>1, <1>2, <1>3 DEF ToldState
<1>5. /\ core' = core /\ kept' = kept /\ news' = news /\ recent' = recent /\ scene' = scene
      /\ listed' = listed /\ owner' = owner
  BY <1>1 DEF newsVars, deviceVars
<1>6. /\ errand' \in [Errands -> ErrandState] /\ errand'[c] = NoErrand
      /\ \A d \in Errands : d # c => errand'[d] = errand[d]
  BY <1>1, NoErrandIs, ErrandIs
<1>7. \A d \in Errands : \/ errand'[d] = errand[d]
                         \/ errand'[d].at \in QuietPlaces /\ (errand'[d].at = "idle" \/ scene = "events")
  BY <1>6, NoErrandIs DEF QuietPlaces
<1>8. /\ news' \in Seq(News) /\ Len(news') <= MaxNews /\ (scene = "devices" => news' = <<>>)
      /\ recent' \in Seq(Nat) /\ Len(recent') <= RecentEvents
  BY <1>1, <1>5 DEF NotifyTypes
<1>9. told'.heard \subseteq Active(core.members)
  BY <1>1, <1>2, <1>4
<1>10. QED
  BY <1>4, <1>5, <1>6, <1>7, <1>8, <1>9, QuietStep

LEMMA FailureReadsKeeps == ASSUME NotifyInv, NEW c \in Errands, FailureReads(c) PROVE NotifyInv'
<1>1. PICK old : old = errand[c]
  OBVIOUS
<1>2. /\ scene = "events" /\ old \in ErrandState /\ old.at = "throttle" /\ NotifyTypes
      /\ told \in ToldState /\ kept \in KeptState /\ told.heard \subseteq Active(core.members)
      /\ UNCHANGED <<scene, deviceVars, newsVars, told>> /\ TurnFree
  BY <1>1, HandlerIs DEF FailureReads
<1>3. CASE kept.failed # Never /\ core.hour - kept.failed < Window
  BY <1>3, QuietMoves DEF FailureReads
<1>4. CASE ~(kept.failed # Never /\ core.hour - kept.failed < Window)
  <2>1. PICK e : e = [old EXCEPT !.at = "throttling", !.asOf = core.hour]
    OBVIOUS
  <2>2. errand' = [errand EXCEPT ![c] = e]
    BY <1>1, <1>4, <2>1 DEF FailureReads
  <2>3. core.hour \in Nat /\ core.hour <= MaxHour /\ kept.failed \in Int
    BY <1>2, NotifyNumbers DEF NotifyTypes, CoreState, KeptState, Never
  <2>4. e \in ErrandState /\ e.at = "throttling" /\ e.asOf = core.hour
    BY <1>2, <2>1, <2>3 DEF ErrandState, NewsPlaces
  <2>5. errand'[c] = e /\ \A d \in Errands : d # c => errand'[d] = errand[d]
    BY <1>2, <2>2, <2>4, ErrandIs
  <2>6. core' = core /\ kept' = kept /\ told' = told /\ news' = news /\ recent' = recent
    BY <1>2 DEF newsVars
  <2>7. kept.failed = Never \/ core.hour - kept.failed >= Window
    BY <1>4, <2>3, NotifyNumbers
  <2>8. FailuresOK'
    BY <2>3, <2>4, <2>5, <2>6, <2>7 DEF NotifyInv, FailuresOK
  <2>9. MovesOK' /\ AsksOK'
    BY <2>4, <2>5, <2>6, MovesStay, AsksStay DEF NotifyInv
  <2>10. e.at \in NewsPlaces
    BY <2>4 DEF NewsPlaces
  <2>11. QED
    BY <1>2, <2>2, <2>4, <2>6, <2>8, <2>9, <2>10, EventStep
<1>5. QED
  BY <1>3, <1>4

LEMMA FailureWritesKeeps == ASSUME NotifyInv, NEW c \in Errands, FailureWrites(c) PROVE NotifyInv'
<1>1. PICK old : old = errand[c]
  OBVIOUS
<1>2. /\ scene = "events" /\ old \in ErrandState /\ old.at = "throttling" /\ NotifyTypes
      /\ told \in ToldState /\ kept \in KeptState /\ told.heard \subseteq Active(core.members)
      /\ UNCHANGED <<scene, deviceVars, core, news, recent, told>> /\ kept' = [kept EXCEPT !.failed = old.asOf]
  BY <1>1, HandlerIs DEF FailureWrites
<1>3. PICK e : e = [old EXCEPT !.at = "failed"]
  OBVIOUS
<1>4. errand' = [errand EXCEPT ![c] = e]
  BY <1>1, <1>3 DEF FailureWrites, To
<1>5. e \in ErrandState /\ e.at = "failed" /\ e.asOf = old.asOf
  BY <1>2, <1>3, Movable DEF NewsPlaces
<1>6. errand'[c] = e /\ \A d \in Errands : d # c => errand'[d] = errand[d]
  BY <1>2, <1>4, <1>5, ErrandIs
<1>7. old.asOf \in Nat /\ old.asOf <= MaxHour /\ (kept.failed = Never \/ old.asOf - kept.failed >= Window)
  BY <1>1, <1>2 DEF ErrandState, NotifyInv, FailuresOK
<1>8. kept' \in KeptState /\ kept'.failed = old.asOf /\ kept'.status = kept.status /\ kept'.asked = kept.asked
  BY <1>7, NotifyNumbers, <1>2 DEF Never, KeptState
<1>9. core' = core /\ told' = told /\ kept.failed \in Int /\ Never = -1 /\ Window \in Nat \ {0}
  BY <1>2, NotifyNumbers DEF KeptState, Never
<1>10. FailuresOK'
  <2>1. ASSUME NEW t \in Nat, t <= kept.failed
        PROVE  t <= old.asOf /\ Apart(old.asOf, t) /\ Apart(t, old.asOf)
    BY <1>7, <1>9, <2>1 DEF Apart
  <2>2. \A t \in told.failures : t \in Nat /\ t <= kept.failed
    BY <1>2 DEF NotifyInv, FailuresOK, ToldState
  <2>3. \A d \in Errands : d # c /\ errand[d].at = "failed" => errand[d].asOf \in Nat /\ errand[d].asOf <= kept.failed
    BY <1>2 DEF NotifyInv, NotifyTypes, FailuresOK, ErrandState
  <2>4. \A d \in Errands : errand'[d].at # "throttling"
    BY <1>1, <1>2, <1>5, <1>6 DEF NotifyInv, OneSection, Sections
  <2>5. ASSUME NEW d \in Errands, errand'[d].at = "failed"
        PROVE  errand'[d].asOf <= old.asOf /\ \A t \in told.failures : Apart(errand'[d].asOf, t)
    BY <1>5, <1>6, <1>7, <2>1, <2>2, <2>3, <2>5 DEF NotifyInv, FailuresOK
  <2>6. ASSUME NEW d \in Errands, NEW f \in Errands, errand'[d].at = "failed", errand'[f].at = "failed", d # f
        PROVE  Apart(errand'[d].asOf, errand'[f].asOf)
    BY <1>5, <1>6, <2>1, <2>3, <2>6 DEF NotifyInv, FailuresOK
  <2>7. /\ IsFiniteSet(told.failures) /\ told.failed = Cardinality(told.failures)
        /\ \A s, t \in told.failures : s # t => Apart(s, t)
        /\ \A t \in told.failures : t <= old.asOf
    BY <2>1, <2>2 DEF NotifyInv, FailuresOK
  <2>8. QED
    BY <1>8, <1>9, <2>4, <2>5, <2>6, <2>7 DEF FailuresOK
<1>11. MovesOK' /\ AsksOK'
  BY <1>5, <1>6, <1>8, <1>9, MovesStay, AsksStay DEF NotifyInv
<1>12. e.at \in NewsPlaces /\ e.at \notin Sections
  BY <1>5 DEF NewsPlaces, Sections
<1>13. QED
  BY <1>2, <1>4, <1>5, <1>8, <1>9, <1>10, <1>11, <1>12, EventStep

LEMMA NoticeFailureKeeps == ASSUME NotifyInv, NEW c \in Errands, NoticeFailure(c) PROVE NotifyInv'
<1>1. PICK old, people : old = errand[c] /\ people = FailureRecipients(core.members)
  OBVIOUS
<1>2. /\ scene = "events" /\ old \in ErrandState /\ old.at = "failed" /\ NotifyTypes
      /\ told \in ToldState /\ kept \in KeptState /\ told.heard \subseteq Active(core.members)
      /\ UNCHANGED <<scene, deviceVars, newsVars>> /\ errand' = [errand EXCEPT ![c] = NoErrand]
      /\ told' = [told EXCEPT !.heard = @ \cup people, !.failures = @ \cup {old.asOf}, !.failed = @ + 1]
  BY <1>1, HandlerIs DEF NoticeFailure, Tells, Done
<1>3. people \subseteq Active(core.members) /\ people \subseteq People /\ old.asOf \in Nat
  BY <1>1, <1>2, Recipients DEF ErrandState
<1>4. /\ told' \in ToldState /\ told'.failures = told.failures \cup {old.asOf} /\ told'.failed = told.failed + 1
      /\ told'.heard = told.heard \cup people /\ told'.asked = told.asked
      /\ told'.enrolled = told.enrolled /\ told'.entered = told.entered /\ told'.moved = told.moved
      /\ told'.asOf = told.asOf /\ told'.crossed = told.crossed
  <2>1. PICK heard, failures, failed : /\ heard = told.heard \cup people /\ failed = told.failed + 1
                                       /\ failures = told.failures \cup {old.asOf}
    OBVIOUS
  <2>2. told' = [told EXCEPT !.heard = heard, !.failures = failures, !.failed = failed]
    BY <1>2, <2>1
  <2>3. heard \in SUBSET People /\ failed \in Nat /\ failures \in SUBSET Nat
    BY <1>2, <1>3, <2>1 DEF ToldState
  <2>4. QED
    BY <1>2, <2>1, <2>2, <2>3 DEF ToldState
<1>5. core' = core /\ kept' = kept /\ news' = news /\ recent' = recent
  BY <1>2 DEF newsVars
<1>6. errand'[c] = NoErrand /\ \A d \in Errands : d # c => errand'[d] = errand[d]
  BY <1>2, NoErrandIs, ErrandIs
<1>7. FailuresOK'
  <2>1. old.asOf <= kept.failed /\ \A t \in told.failures : Apart(old.asOf, t) /\ t \in Nat
    BY <1>1, <1>2 DEF NotifyInv, FailuresOK, ToldState
  <2>2. \A t \in told.failures : Apart(t, old.asOf)
    BY <2>1 DEF Apart
  <2>3. old.asOf \notin told.failures
    BY <1>3, <2>1, NotifyNumbers DEF Apart
  <2>4. IsFiniteSet(told.failures) /\ told.failed = Cardinality(told.failures)
    BY DEF NotifyInv, FailuresOK
  <2>5. /\ IsFiniteSet(told.failures \cup {old.asOf})
        /\ Cardinality(told.failures \cup {old.asOf}) = Cardinality(told.failures) + 1
    BY <2>3, <2>4, FS_AddElement
  <2>6. \A d \in Errands : d # c /\ errand[d].at = "failed" => Apart(errand[d].asOf, old.asOf)
    BY <1>1, <1>2 DEF NotifyInv, FailuresOK
  <2>7. \A d \in Errands : errand'[d].at \in {"failed", "throttling"} => d # c /\ errand'[d] = errand[d]
    BY <1>6, NoErrandIs
  <2>8. /\ \A t \in told.failures \cup {old.asOf} : t <= kept.failed
        /\ \A s, t \in told.failures \cup {old.asOf} : s # t => Apart(s, t)
    BY <2>1, <2>2 DEF NotifyInv, FailuresOK
  <2>9. /\ \A d \in Errands : errand'[d].at = "failed" =>
              /\ errand'[d].asOf <= kept.failed
              /\ \A t \in told.failures \cup {old.asOf} : Apart(errand'[d].asOf, t)
        /\ \A d, f \in Errands : errand'[d].at = "failed" /\ errand'[f].at = "failed" /\ d # f =>
              Apart(errand'[d].asOf, errand'[f].asOf)
        /\ \A d \in Errands : errand'[d].at = "throttling" =>
              /\ errand'[d].asOf <= MaxHour
              /\ kept.failed = Never \/ errand'[d].asOf - kept.failed >= Window
    BY <2>6, <2>7 DEF NotifyInv, FailuresOK
  <2>10. told'.failed = Cardinality(told'.failures) /\ IsFiniteSet(told'.failures)
    BY <1>4, <2>4, <2>5
  <2>11. QED
    BY <1>4, <1>5, <2>8, <2>9, <2>10 DEF FailuresOK
<1>8. MovesOK' /\ AsksOK'
  BY <1>4, <1>5, <1>6, NoErrandIs, MovesStay, AsksStay DEF NotifyInv
<1>9. told'.heard \subseteq Active(core.members)
  BY <1>2, <1>3, <1>4
<1>10. NoErrand.at \in NewsPlaces \cup {"idle"} /\ NoErrand.at \notin Sections \cup {"swap", "swapping", "status"}
  BY NoErrandIs DEF Sections
<1>11. QED
  BY <1>2, <1>4, <1>5, <1>7, <1>8, <1>9, <1>10, NoErrandIs, EventStep

-----------------------------------------------------------------------------
(* Notices: the core moves on                                              *)

\* No request and no handler takes part in what the core does.
LEMMA CoreStep ==
    ASSUME NotifyInv, UNCHANGED <<scene, deviceVars, errand, recent, kept>>,
           news' \in Seq(News) /\ Len(news') <= MaxNews /\ (scene = "devices" => news' = <<>>),
           core' \in CoreState, core'.members = core.members, told' \in ToldState,
           told'.enrolled = told.enrolled, told'.asked = told.asked, told'.failures = told.failures,
           told'.failed = told.failed, told'.heard = told.heard, MovesOK'
    PROVE  NotifyInv'
BY DevicesStay, AsksStay, FailuresStay DEF deviceVars, NotifyInv, NotifyTypes, OneSection,
   Active

LEMMA HappensIs ==
    ASSUME NotifyInv, NEW type \in {"updated", "commented", "failed", "approval"},
           NEW previous \in {"todo", "done", "blocked", Nil}, Happens(type, previous)
    PROVE  /\ scene = "events" /\ UNCHANGED <<scene, deviceVars, errand, recent, kept>>
           /\ news' \in Seq(News) /\ Len(news') <= MaxNews /\ (scene = "devices" => news' = <<>>)
BY NotifyNumbers DEF News, Happens, NotifyInv, NotifyTypes

\* The core's question, clock or approvals change: no task moves.
LEMMA CoreChanges ==
    ASSUME NotifyInv, UNCHANGED <<scene, deviceVars, errand, recent, kept, told>>,
           news' \in Seq(News) /\ Len(news') <= MaxNews /\ (scene = "devices" => news' = <<>>), core' \in CoreState,
           core'.members = core.members, core'.status = core.status, core'.moves = core.moves
    PROVE  NotifyInv'
BY MovesStay, CoreStep DEF NotifyInv, NotifyTypes

LEMMA CoreKeeps ==
    ASSUME NotifyInv, TaskIsEdited \/ AgentAsks \/ RunFails \/ ApprovalRaised \/ ApprovalDecided \/ HourPasses
    PROVE  NotifyInv'
<1>1. core \in CoreState /\ news \in Seq(News) /\ Len(news) <= MaxNews /\ (scene = "devices" => news = <<>>)
  BY DEF NotifyInv, NotifyTypes
<1>2. CASE TaskIsEdited \/ RunFails
  BY <1>2, <1>1, HappensIs, CoreChanges DEF TaskIsEdited, RunFails
<1>3. CASE AgentAsks
  BY <1>3, <1>1, HappensIs, CoreChanges DEF AgentAsks, CoreState
<1>4. CASE ApprovalRaised
  BY <1>4, <1>1, HappensIs, CoreChanges DEF ApprovalRaised, CoreState
<1>5. CASE ApprovalDecided
  BY <1>5, <1>1, CoreChanges DEF ApprovalDecided, CoreState
<1>6. CASE HourPasses
  <2>1. /\ scene = "events" /\ core.hour < MaxHour /\ core' = [core EXCEPT !.hour = @ + 1]
        /\ UNCHANGED <<scene, deviceVars, errand, news, recent, kept, told>>
    BY <1>6 DEF HourPasses
  <2>2. /\ core' \in CoreState /\ core'.members = core.members /\ core'.status = core.status
        /\ core'.moves = core.moves
    BY <1>1, <2>1, NotifyNumbers DEF CoreState
  <2>3. QED
    BY <1>1, <2>1, <2>2, CoreChanges
<1>7. QED
  BY <1>2, <1>3, <1>4, <1>5, <1>6

\* The task moves: the history of its statuses is one longer.
LEMMA TaskMovesKeeps ==
    ASSUME NotifyInv, NEW status \in {"todo", "done"}, TaskMoves(status)
    PROVE  NotifyInv'
<1>1. core \in CoreState /\ told \in ToldState /\ kept \in KeptState
  BY DEF NotifyInv, NotifyTypes
<1>2. PICK previous \in {core.status, Nil} : Happens("updated", previous)
  BY DEF TaskMoves
<1>3. previous \in {"todo", "done", "blocked", Nil}
  BY <1>1, <1>2 DEF CoreState, TaskStates
<1>4. /\ scene = "events" /\ UNCHANGED <<scene, deviceVars, errand, recent, kept>>
      /\ news' \in Seq(News) /\ Len(news') <= MaxNews /\ (scene = "devices" => news' = <<>>)
  BY <1>2, <1>3, HappensIs
<1>5. PICK M \in Nat : M = core.moves
  BY <1>1 DEF CoreState
<1>6. core' = [core EXCEPT !.status = status, !.moves = M + 1]
  BY <1>5 DEF TaskMoves
<1>7. /\ core' \in CoreState /\ core'.members = core.members /\ core'.status = status /\ core'.moves = M + 1
  <2>1. PICK moves : moves = M + 1
    OBVIOUS
  <2>2. core' = [core EXCEPT !.status = status, !.moves = moves] /\ status \in TaskStates /\ moves \in Nat
    BY <1>6, <2>1 DEF TaskStates
  <2>3. QED
    BY <1>1, <2>1, <2>2 DEF CoreState
<1>8. PICK entered : entered = [told.entered EXCEPT ![status] = @ + 1]
  OBVIOUS
<1>9. told' = [told EXCEPT !.entered = entered]
  BY <1>8 DEF TaskMoves
<1>10. /\ entered \in [TaskStates -> Nat] /\ entered[status] = told.entered[status] + 1
       /\ \A s \in TaskStates : s # status => entered[s] = told.entered[s]
  BY <1>1, <1>8 DEF ToldState, TaskStates
<1>11. /\ told' \in ToldState /\ told'.entered = entered
       /\ told'.enrolled = told.enrolled /\ told'.asked = told.asked /\ told'.failures = told.failures
       /\ told'.failed = told.failed /\ told'.heard = told.heard /\ told'.moved = told.moved
       /\ told'.asOf = told.asOf /\ told'.crossed = told.crossed
  BY <1>1, <1>9, <1>10 DEF ToldState
<1>12. MovesOK'
  <2>1. SUFFICES ASSUME ~told.crossed
                 PROVE  \E h \in [0..(M + 1) -> TaskStates], m \in [TaskStates -> SUBSET (1..(M + 1))] :
                           MovesAre(h, m)'
    BY <1>7, <1>11 DEF MovesOK
  <2>2. PICK h \in [0..M -> TaskStates], m \in [TaskStates -> SUBSET (1..M)] : MovesAre(h, m)
    BY <1>5, <2>1 DEF NotifyInv, MovesOK
  <2>3. PICK k : k = [i \in 0..(M + 1) |-> IF i = M + 1 THEN status ELSE h[i]]
    OBVIOUS
  <2>4. /\ k \in [0..(M + 1) -> TaskStates] /\ k[M + 1] = status /\ \A i \in 0..M : k[i] = h[i]
        /\ m \in [TaskStates -> SUBSET (1..(M + 1))]
    BY <2>3 DEF TaskStates
  <2>5. told.asOf \in 0..M /\ told.asOf \in Nat /\ \A i \in 1..told.asOf : i \in 0..M
    BY <1>5, <2>2 DEF MovesAre
  <2>6. ASSUME NEW s \in TaskStates
        PROVE  entered[s] = Cardinality({i \in 1..(M + 1) : k[i] = s})
    <3>1. PICK old, new : old = {i \in 1..M : h[i] = s} /\ new = {i \in 1..(M + 1) : k[i] = s}
      OBVIOUS
    <3>2. IsFiniteSet(old) /\ M + 1 \notin old
      <4>1. IsFiniteSet(1..M)
        BY FS_Interval
      <4>2. old \subseteq 1..M /\ M + 1 \notin 1..M
        BY <3>1
      <4>3. QED
        BY <4>1, <4>2, FS_Subset
    <3>3. \A i \in 1..(M + 1) : (i \in 1..M /\ i \in 0..M) \/ i = M + 1
      OBVIOUS
    <3>4. M + 1 \in 1..(M + 1) /\ \A i \in 1..M : i \in 1..(M + 1) /\ i # M + 1
      OBVIOUS
    <3>5. told.entered[s] = Cardinality(old)
      BY <1>5, <2>2, <3>1 DEF MovesAre
    <3>6. CASE s = status
      <4>1. new = old \cup {M + 1}
        BY <2>4, <3>1, <3>3, <3>4, <3>6
      <4>2. Cardinality(old \cup {M + 1}) = Cardinality(old) + 1
        BY <3>2, FS_AddElement
      <4>3. QED
        BY <1>10, <3>1, <3>5, <3>6, <4>1, <4>2
    <3>7. CASE s # status
      BY <2>4, <3>1, <3>3, <3>4, <3>7, <1>10, <3>5
    <3>8. QED
      BY <3>6, <3>7
  <2>7. \A s \in TaskStates : /\ told.moved[s] = Cardinality(m[s])
                              /\ m[s] \subseteq {i \in 1..told.asOf : k[i] = s}
    BY <2>2, <2>4, <2>5 DEF MovesAre
  <2>8. ASSUME NEW c \in Errands
        PROVE  /\ errand[c].at \in {"swap", "swapping", "status"} =>
                     errand[c].asOf \in 0..(M + 1) /\ errand[c].status = k[errand[c].asOf]
               /\ errand[c].at = "swapping" => errand[c].stored = kept.status
               /\ errand[c].at = "status" => /\ errand[c].asOf \in 1..told.asOf
                                             /\ \A s \in TaskStates : errand[c].asOf \notin m[s]
    BY <1>5, <2>2, <2>4 DEF MovesAre
  <2>9. /\ k[0] = "todo" /\ told.asOf \in 0..(M + 1)
        /\ kept.status \in {Nil, k[told.asOf]} /\ (kept.status = Nil => told.asOf = 0)
        /\ \A c, d \in Errands :
              errand[c].at = "status" /\ errand[d].at = "status" /\ errand[c].asOf = errand[d].asOf => c = d
    BY <2>5, <2>2, <2>4 DEF MovesAre
  <2>10. MovesAre(k, m)'
    BY <1>4, <1>7, <1>11, <2>4, <2>6, <2>7, <2>8, <2>9 DEF MovesAre
  <2>11. QED
    BY <2>4, <2>10
<1>13. QED
  BY <1>4, <1>7, <1>11, <1>12, CoreStep

-----------------------------------------------------------------------------
(* Notices: the theorem                                                    *)

LEMMA NotifyStarts == NotifyInit => NotifyInv
<1>1. SUFFICES ASSUME NotifyInit
               PROVE  NotifyInv
  OBVIOUS
<1>2. /\ scene \in {"devices", "events"} /\ listed = [p \in People |-> <<>>]
      /\ owner = [d \in Devices |-> Nobody] /\ errand = [c \in Errands |-> NoErrand]
      /\ news = <<>> /\ recent = <<>> /\ kept = [status |-> Nil, asked |-> FALSE, failed |-> Never]
  BY <1>1 DEF NotifyInit
<1>3. PICK zero : zero = [s \in {"todo", "done", "blocked"} |-> 0]
  OBVIOUS
<1>4. told = [errands |-> 0, enrolled |-> {}, entered |-> zero, moved |-> zero, asOf |-> 0, crossed |-> FALSE,
              asked |-> 0, failures |-> {}, failed |-> 0, heard |-> {}]
  BY <1>1, <1>3 DEF NotifyInit
<1>5. zero \in [TaskStates -> Nat] /\ \A s \in TaskStates : zero[s] = 0
  BY <1>3 DEF TaskStates
<1>6. /\ told \in ToldState /\ told.enrolled = {} /\ told.entered = zero /\ told.moved = zero /\ told.asOf = 0
      /\ told.asked = 0 /\ told.failures = {} /\ told.failed = 0 /\ told.heard = {}
  BY <1>4, <1>5 DEF ToldState
<1>7. core \in CoreState /\ core.status = "todo" /\ core.moves = 0
  BY <1>1, NotifyNumbers DEF NotifyInit, SecondPerson, CoreState, TaskStates
<1>8. /\ \A c \in Errands : errand[c] = NoErrand /\ errand[c].at = "idle"
      /\ errand \in [Errands -> ErrandState]
  BY <1>2, NoErrandIs
<1>9. NotifyTypes
  BY NoList, NotifyNumbers, <1>2, <1>6, <1>7, <1>8 DEF OwnList, KeptState, Never,
     NotifyTypes
<1>10. OneSection /\ AsksOK
  BY <1>6, <1>8 DEF OneSection, AsksOK, Sections
<1>11. DevicesOK
  BY <1>2, <1>8, <1>6, NoList DEF ErrandFits, DevicePlaces, NewsPlaces, DevicesOK
<1>12. FailuresOK
  BY <1>6, <1>8, FS_EmptySet DEF FailuresOK
<1>13. MovesOK
  <2>1. PICK h, m : h = [i \in 0..0 |-> "todo"] /\ m = [s \in TaskStates |-> {}]
    OBVIOUS
  <2>2. h \in [0..0 -> TaskStates] /\ m \in [TaskStates -> SUBSET (1..0)] /\ h[0] = "todo"
    BY <2>1 DEF TaskStates
  <2>3. \A s \in TaskStates : m[s] = {} /\ {i \in 1..0 : h[i] = s} = {}
    BY <2>1
  <2>4. Cardinality({}) = 0
    BY FS_EmptySet
  <2>5. kept.status = Nil
    BY <1>2
  <2>6. MovesAre(h, m)
    BY <1>5, <1>6, <1>7, <1>8, <2>2, <2>3, <2>4, <2>5 DEF MovesAre
  <2>7. QED
    BY <1>7, <2>2, <2>6 DEF MovesOK
<1>14. QED
  BY <1>6, <1>9, <1>10, <1>11, <1>12, <1>13 DEF NotifyInv

LEMMA HandlersKeep ==
    ASSUME NotifyInv, NEW c \in Errands,
           \/ ReadIssue(c) \/ SwapReads(c) \/ SwapWrites(c) \/ NoticeStatus(c)
           \/ CheckQuestions(c) \/ ClaimReads(c) \/ ClaimWrites(c) \/ NoticeQuestion(c) \/ NoticeComment(c)
           \/ FailureHeard(c) \/ FailureReads(c) \/ FailureWrites(c) \/ NoticeFailure(c) \/ NoticeApproval(c)
           \/ ErrandFails(c)
    PROVE  NotifyInv'
BY ReadIssueKeeps, SwapReadsKeeps, SwapWritesKeeps, NoticeStatusKeeps, QuietMoves, ClaimReadsKeeps,
   ClaimWritesKeeps, NoticeQuestionKeeps, NoticesKeep, FailureReadsKeeps, FailureWritesKeeps,
   NoticeFailureKeeps, Zenon

LEMMA NotifyStutters == ASSUME NotifyInv, UNCHANGED notifyVars PROVE NotifyInv'
BY DevicesStay, MovesStay, AsksStay, FailuresStay DEF notifyVars, NotifyInv, NotifyTypes,
   OneSection, Active

LEMMA NotifyKeeps == NotifyInv /\ [NotifyNext]_notifyVars => NotifyInv'
<1>1. SUFFICES ASSUME NotifyInv, [NotifyNext]_notifyVars
               PROVE  NotifyInv'
  OBVIOUS
<1>2. CASE UNCHANGED notifyVars
  BY <1>1, <1>2, NotifyStutters
<1>3. ASSUME NEW c \in Errands, NEW p \in People, NEW d \in Devices, Subscribe(c, p, d) \/ Unsubscribe(c, p, d)
      PROVE  NotifyInv'
  BY <1>1, <1>3, SubscribeKeeps
<1>4. ASSUME NEW c \in Errands, NEW p \in People, Deliver(c, p)
      PROVE  NotifyInv'
  BY <1>1, <1>4, DeliverKeeps
<1>5. ASSUME NEW c \in Errands,
             Sent(c) \/ SectionBegins(c) \/ LeavePrevious(c) \/ Own(c) \/ Reread(c) \/ Save(c) \/ ReleaseOwner(c)
      PROVE  NotifyInv'
  BY <1>1, <1>5, SentKeeps, SectionBeginsKeeps, LeavePreviousKeeps, OwnKeeps, RereadKeeps, SaveKeeps,
     ReleaseOwnerKeeps, Zenon
<1>6. ASSUME NEW c \in Errands, NEW n \in DOMAIN news, Handle(c, n)
      PROVE  NotifyInv'
  BY <1>1, <1>6, HandleKeeps
<1>7. ASSUME NEW status \in {"todo", "done"}, TaskMoves(status)
      PROVE  NotifyInv'
  BY <1>1, <1>7, TaskMovesKeeps
<1>8. CASE TaskIsEdited \/ AgentAsks \/ RunFails \/ ApprovalRaised \/ ApprovalDecided \/ HourPasses
  BY <1>1, <1>8, CoreKeeps
<1>9. CASE WorkerStarts
  BY <1>1, <1>9, WorkerStartsKeeps
<1>10. QED
  BY <1>1, <1>2, <1>3, <1>4, <1>5, <1>6, <1>7, <1>8, <1>9, HandlersKeep, Zenon DEF NotifyNext

\* Every move told of is a move the task made.
LEMMA MovesFollow == NotifyInv => MovesAreToldOnce
<1>1. SUFFICES ASSUME NotifyInv, ~told.crossed, NEW s \in TaskStates
               PROVE  told.moved[s] <= told.entered[s]
  BY DEF MovesAreToldOnce, TaskStates
<1>2. PICK h, m : MovesAre(h, m)
  BY <1>1 DEF NotifyInv, MovesOK
<1>3. PICK M \in Nat : M = core.moves
  BY <1>1 DEF NotifyInv, NotifyTypes, CoreState
<1>4. PICK all, some : all = {i \in 1..M : h[i] = s} /\ some = m[s]
  OBVIOUS
<1>5. /\ told.entered[s] = Cardinality(all) /\ told.moved[s] = Cardinality(some)
      /\ some \subseteq {i \in 1..told.asOf : h[i] = s} /\ told.asOf \in 0..M
  BY <1>1, <1>2, <1>3, <1>4 DEF MovesAre
<1>6. some \subseteq all
  BY <1>4, <1>5
<1>7. IsFiniteSet(all)
  <2>1. IsFiniteSet(1..M) /\ all \subseteq 1..M
    BY <1>4, FS_Interval
  <2>2. QED
    BY <2>1, FS_Subset
<1>8. Cardinality(some) <= Cardinality(all)
  BY <1>6, <1>7, FS_Subset
<1>9. QED
  BY <1>5, <1>8

LEMMA NotifyHolds ==
    NotifyInv => /\ NotifyTypeOK /\ OneScreenOnePerson /\ RegistrationsStay
                 /\ MovesAreToldOnce /\ AsksAndFailuresOnce
<1>1. SUFFICES ASSUME NotifyInv
               PROVE  /\ NotifyTypeOK /\ OneScreenOnePerson /\ RegistrationsStay
                      /\ MovesAreToldOnce /\ AsksAndFailuresOnce
  OBVIOUS
<1>2. NotifyTypes /\ DevicesOK
  BY <1>1 DEF NotifyInv
<1>3. ASSUME NEW p \in People
      PROVE  /\ OwnList(listed[p]) /\ Len(listed[p]) <= MaxDevices
             /\ \A d : Contains(listed[p], d) <=> OnList(listed[p], d)
  BY <1>2, ListIs DEF NotifyTypes
<1>4. NotifyTypeOK
  <2>1. listed \in [People -> {s \in UNION {[1..n -> Devices] : n \in 0..MaxDevices} : IsInjective(s)}]
    <3>1. \A p \in People : listed[p] \in {s \in UNION {[1..n -> Devices] : n \in 0..MaxDevices} : IsInjective(s)}
      BY <1>3, DevicesListed
    <3>2. DOMAIN listed = People /\ listed = [p \in DOMAIN listed |-> listed[p]]
      BY <1>2 DEF NotifyTypes
    <3> DEFINE Fitting == {s \in UNION {[1..n -> Devices] : n \in 0..MaxDevices} : IsInjective(s)}
    <3>3. \A p \in People : listed[p] \in Fitting
      BY <3>1
    <3> HIDE DEF Fitting
    <3>4. listed \in [People -> Fitting]
      BY <3>2, <3>3
    <3>5. QED
      BY <3>4 DEF Fitting
  <2>2. \A c \in Errands : errand[c].event \in 0..MaxNews
    BY <1>2 DEF NotifyTypes, ErrandState
  <2>3. /\ owner \in [Devices -> People \cup {Nobody}] /\ \A n \in DOMAIN news : news[n] \in News
        /\ Len(recent) <= RecentEvents /\ kept.failed \in Never..MaxHour
    BY <1>2 DEF NotifyTypes, KeptState
  <2>4. QED
    BY <2>1, <2>2, <2>3 DEF NotifyTypeOK
<1>5. OneScreenOnePerson
  BY <1>2, <1>3 DEF DevicesOK, OneScreenOnePerson
<1>6. RegistrationsStay
  BY <1>2, <1>3 DEF NotifyTypes, ToldState, DevicesOK, RegistrationsStay
<1>7. AsksAndFailuresOnce
  BY <1>1, <1>2, NotifyNumbers DEF NotifyInv, AsksOK, NotifyTypes, ToldState, FailuresOK,
     Apart, AsksAndFailuresOnce
<1>8. QED
  BY <1>1, <1>4, <1>5, <1>6, <1>7, MovesFollow

-----------------------------------------------------------------------------
(* The behaviours of MCServices                                            *)

\* Each behaviour is about one part.
ServiceParts ==
    /\ part = "sessions" => SessionsInv
    /\ part = "notices" => NotifyInv
    /\ part = "files" => FilesInv
    /\ part = "setup" => BootInv

LEMMA ServicePartsInitially == ServicesInit => ServiceParts
BY SessionsStart, NotifyStarts, BootStarts, FilesStart DEF ServicesInit, ServiceParts

LEMMA ServicePartsInductive ==
    ServiceParts /\ [ServicesNext]_<<part, vars, notifyVars, filesVars, bootVars>> => ServiceParts'
<1>1. SUFFICES ASSUME ServiceParts, [ServicesNext]_<<part, vars, notifyVars, filesVars, bootVars>>
               PROVE  ServiceParts'
  OBVIOUS
<1>2. part' = part
  BY <1>1 DEF ServicesNext
<1>3. part = "files" => [FilesNext]_filesVars
  BY <1>1 DEF ServicesNext
<1>4. part = "setup" => [BootstrapNext]_bootVars
  BY <1>1 DEF ServicesNext
<1>5. part = "sessions" => [Next]_vars
  BY <1>1 DEF ServicesNext
<1>6. part = "sessions" => SessionsInv'
  BY <1>1, <1>5, SessionsKeep DEF ServiceParts
<1>7. (part = "files" => FilesInv') /\ (part = "setup" => BootInv')
  BY <1>1, <1>3, <1>4, BootKeeps, FilesKeep DEF ServiceParts
<1>8. part = "notices" => NotifyInv'
  BY <1>1, NotifyKeeps DEF ServicesNext, ServiceParts
<1>9. QED
  BY <1>2, <1>6, <1>7, <1>8 DEF ServiceParts

\* A session's output reaches whoever reads it whole, once and in order, its scrollback is
\* counted right, and its exit is told once, as the last of it (push, flushOutput, onExit).
THEOREM SessionOutputStaysWhole == ServicesSpec => []SessionOutputIsWhole
<1>1. ServiceParts => SessionOutputIsWhole
  BY TypesFollow, OutputFollows, ScrollbackFollows, ExitFollows DEF ServiceParts, SessionOutputIsWhole
<1>2. QED
  BY <1>1, ServicePartsInitially, ServicePartsInductive, PTL DEF ServicesSpec

\* No call sleeps on news it could tell, and no answer leaves anything out without saying so
\* or reports an end without the exit (wait, snapshot, answerWaiters).
THEOREM AnswersStayTrue == ServicesSpec => []AnswersWakeAndTell
<1>1. ServiceParts => AnswersWakeAndTell
  BY NobodySleeps, AnswersFollow DEF ServiceParts, AnswersWakeAndTell
<1>2. QED
  BY <1>1, ServicePartsInitially, ServicePartsInductive, PTL DEF ServicesSpec

\* A device rings for the one person it is registered to, a registration that succeeded stays
\* until something takes it away, and a move of a task, a question and an agent's failures are
\* told once and to active members only, however requests, sends, events and failing calls
\* interleave and wherever the worker restarts (kyoube-notify store.ts, notifier.ts, push.ts).
THEOREM NoticesReachPeople == ServicesSpec => []NoticesReachTheirPeople
<1>1. ServiceParts => NoticesReachTheirPeople
  BY NotifyHolds DEF ServiceParts, NoticesReachTheirPeople
<1>2. QED
  BY <1>1, ServicePartsInitially, ServicePartsInductive, PTL DEF ServicesSpec

\* The container's commands keep their promises in every behaviour that is about them: a setup
\* that ended well found the image's plugins running, an approved key is kept, the rules token
\* is one, and no copy of a sign-in stays behind (docker/bootstrap).
THEOREM BootstrapStays == ServicesSpec => []BootstrapHolds
<1>1. ServiceParts => BootstrapHolds
  BY BootHolds DEF ServiceParts, BootstrapHolds
<1>2. QED
  BY <1>1, ServicePartsInitially, ServicePartsInductive, PTL DEF ServicesSpec

\* Nobody reads or writes a file on a role long lost, no save overwrites what the person has not
\* seen, and the page shows the file and folder it names, however the requests, the agents and
\* the page interleave (kyoube-files auth.ts, fs-service.ts, ProjectFiles.tsx).
THEOREM FilesStayKept == ServicesSpec => []FilesAreKept
<1>1. ServiceParts => FilesAreKept
  BY FilesHolds DEF ServiceParts, FilesAreKept
<1>2. QED
  BY <1>1, ServicePartsInitially, ServicePartsInductive, PTL DEF ServicesSpec
=============================================================================
