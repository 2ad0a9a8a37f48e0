----------------------------- MODULE MCServices -----------------------------
(***************************************************************************)
(* The terminal's sessions, the notices, the file browser and the commands *)
(* that set the platform up share no state: a behaviour is about one of    *)
(* them, and the variables of the others are off.                          *)
(***************************************************************************)
EXTENDS TerminalSessions, Notify, Files, Bootstrap, TLC

VARIABLE part       \* what this behaviour is about

Off == "off"

SessionsOff  == session = Off /\ shell = Off /\ poll = Off /\ clock = Off
NotifyOff    == /\ scene = Off /\ listed = Off /\ owner = Off /\ errand = Off /\ core = Off
                /\ news = Off /\ recent = Off /\ kept = Off /\ told = Off
FilesOff     == /\ surface = Off /\ member = Off /\ disk = Off /\ viewer = Off /\ browser = Off
                /\ visit = Off /\ visited = Off
BootstrapOff == /\ stage = Off /\ bundle = Off /\ board = Off /\ library = Off /\ command = Off
                /\ token = Off /\ signin = Off /\ chronicle = Off

ServicesInit ==
    /\ part \in {"sessions", "notices", "files", "setup"}
    /\ IF part = "sessions" THEN Init ELSE SessionsOff
    /\ IF part = "notices" THEN NotifyInit ELSE NotifyOff
    /\ IF part = "files" THEN FilesInit ELSE FilesOff
    /\ IF part = "setup" THEN BootstrapInit ELSE BootstrapOff

ServicesNext ==
    /\ UNCHANGED part
    /\ \/ part = "sessions" /\ Next /\ UNCHANGED <<notifyVars, filesVars, bootVars>>
       \/ part = "notices" /\ NotifyNext /\ UNCHANGED <<vars, filesVars, bootVars>>
       \/ part = "files" /\ FilesNext /\ UNCHANGED <<vars, notifyVars, bootVars>>
       \/ part = "setup" /\ BootstrapNext /\ UNCHANGED <<vars, notifyVars, filesVars>>

ServicesSpec == ServicesInit /\ [][ServicesNext]_<<part, vars, notifyVars, filesVars, bootVars>>

-----------------------------------------------------------------------------
(* Constants of the instances                                              *)

CONSTANTS u1, u2, x1, x2, y1, y2

UserPair == {u1, u2}
\* Sessions, notices under way, requests of the file browser, runs of `kyoube setup`
Pair == {x1, x2}
PathPair == {y1, y2}
Alike == Permutations(Pair) \cup Permutations(PathPair)

-----------------------------------------------------------------------------
\* A session's output reaches whoever reads it whole, once and in order, its scrollback is
\* counted right, and its exit is told once, as the last of it (sessions.ts).
SessionOutputIsWhole ==
    part = "sessions" => TypeOK /\ OutputIsWhole /\ ScrollbackIsBounded /\ OneExitAndLast

\* No call sleeps on news it could tell, and what an answer says of the session is so
\* (sessions.ts).
AnswersWakeAndTell == part = "sessions" => NobodySleepsOnNews /\ AnswersAreHonest

\* A device rings for the one person it is registered to, and every move of a task and
\* every question is told once (push.ts, store.ts, notifier.ts).
NoticesReachTheirPeople ==
    part = "notices" =>
        /\ NotifyTypeOK /\ OneScreenOnePerson /\ RegistrationsStay
        /\ MovesAreToldOnce /\ AsksAndFailuresOnce

\* Nobody reads or writes a file on a role long lost, no save overwrites what the person
\* has not seen, and the page shows the file and folder it names (kyoube-files).
FilesAreKept ==
    part = "files" =>
        /\ FilesTypeOK /\ RolesAreRecent /\ NothingIsLostUnasked
        /\ PageShowsTheFile /\ ListingIsOfTheFolder

\* The container's commands end well only on the image's plugins, keep a key that was
\* approved, agree on one token and leave no copy behind (docker/bootstrap).
BootstrapHolds ==
    part = "setup" =>
        /\ BootstrapTypeOK /\ EndedWellMeansCurrent /\ PassesFailForACause
        /\ ApprovedKeyIsKept /\ OneRulesToken /\ NoCopyStays
=============================================================================
