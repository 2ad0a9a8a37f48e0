-------------------------------- MODULE Files --------------------------------
(***************************************************************************)
(* Project files (kyoube-files): the role check of every action, the       *)
(* worker's operations on the folder, and the page that lists a folder and *)
(* edits a file, while agents and other people change the same folder.     *)
(*                                                                         *)
(* A behaviour is about one of the three (`scene` of the page): who may    *)
(* ("roles"), the files ("edit"), or the folder shown ("browse").  Every   *)
(* await of an operation is a step.  Paths are names in one folder:        *)
(* normalisation and containment are left out.  Every write of a file      *)
(* gives it a new time stamp.                                              *)
(***************************************************************************)
EXTENDS Integers, FiniteSets

CONSTANTS
    Visits,         \* requests under way
    Paths,          \* names in the folder
    RoleCacheMs,    \* cacheMs of RoleResolver
    RoleTimeout,    \* the host's limit on a members call
    MaxMoment,      \* bound: the clock of the scene "roles"
    MaxStamp,       \* bound: writes of files
    MaxTyped,       \* bound: texts typed
    MaxVisits       \* bound: mounts, refreshes and requests begun

ASSUME FilesAssumption ==
    /\ RoleCacheMs \in Nat \ {0} /\ RoleTimeout \in Nat \ {0} /\ MaxMoment \in Nat
    /\ MaxStamp \in Nat \ {0} /\ MaxVisits \in Nat /\ MaxTyped \in Nat /\ Cardinality(Paths) >= 2

VARIABLES
    surface,        \* what this behaviour is about
    member,         \* the person's role in the core, the cache of it, the clock
    disk,           \* the folder's entries
    viewer,         \* FileView
    browser,        \* Browser
    visit,          \* the locals of each request
    visited         \* history

filesVars == <<surface, member, disk, viewer, browser, visit, visited>>

-----------------------------------------------------------------------------
Gone      == [kind |-> "none", text |-> 0, mtime |-> 0, born |-> {}, moved |-> FALSE]
Unmounted == [path |-> "none", mtime |-> 0, text |-> 0, draft |-> 0, open |-> FALSE, saving |-> FALSE,
              conflict |-> FALSE, changed |-> FALSE, mount |-> 0]
NoVisit == [at |-> "idle", kind |-> "none", need |-> "read", began |-> 0, asked |-> 0, role |-> "none", joins |-> "none",
            path |-> "none", to |-> "none", base |-> 0, force |-> FALSE, text |-> 0, mtime |-> 0,
            mount |-> 0, result |-> "none"]

Roles   == {"member", "viewer"}
Dirty   == viewer.open /\ viewer.draft # viewer.text
Stamp   == visited.stamp + 1
Goes(c, at)      == visit' = [visit EXCEPT ![c].at = at]
Finishes(c)         == visit' = [visit EXCEPT ![c] = NoVisit]
Begins(c, what)  == /\ visit[c].at = "idle" /\ visited.begun < MaxVisits
                    /\ visit' = [visit EXCEPT ![c] = what]
\* A write of `path` that happens now falls between the check and the end of these operations.
WithinChecks(path) == {c \in Visits : visit[c].at \in {"checked", "written"} /\ path \in {visit[c].path, visit[c].to}}
Written(path, text, kind, by) ==
    [kind |-> kind, text |-> text, mtime |-> Stamp, born |-> WithinChecks(path) \ by, moved |-> FALSE]
\* A file that was away under another name is back with its old time stamp.
Moved(entry, path, by) == [entry EXCEPT !.born = @ \cup (WithinChecks(path) \ by), !.moved = TRUE]

-----------------------------------------------------------------------------
(* Roles: RoleResolver and authorize                                       *)

\* An action of the plugin: its settings are read, then the role.
Visit(c, need) ==
    /\ surface = "roles"
    /\ Begins(c, [NoVisit EXCEPT !.at = "settings", !.need = need,
                                 !.began = IF need = "write" THEN member.now ELSE 0])
    /\ visited' = [visited EXCEPT !.begun = @ + 1]
    /\ UNCHANGED <<surface, member, disk, viewer, browser>>

\* The role used is one the person held lately, or, for a change, during the call.
Decided(c, role, v) ==
    LET lately == IF v[c].need = "write" THEN v[c].began ELSE member.now - RoleCacheMs - RoleTimeout + 1
    IN  member.held[role] >= lately

FreshFor(c) == visit[c].need = "write"
\* assertAllowed: the cached role, the one being fetched, or a fetch of its own.
ResolveRole(c) ==
    LET cached == member.cache IN
    /\ visit[c].at = "settings"
    /\ \/ /\ FreshFor(c)
          /\ visit' = [visit EXCEPT ![c].at = "asking", ![c].asked = member.now]
          /\ UNCHANGED <<member, visited>>
       \/ /\ ~FreshFor(c) /\ cached.kind = "pending"
          /\ visit' = [visit EXCEPT ![c].at = "joined", ![c].joins = cached.by]
          /\ UNCHANGED <<member, visited>>
       \/ /\ ~FreshFor(c) /\ cached.kind = "entry" /\ member.now - cached.at < RoleCacheMs
          /\ visited' = [visited EXCEPT !.stale = @ \/ ~Decided(c, cached.role, visit)]
          /\ Finishes(c) /\ UNCHANGED member
       \/ /\ ~FreshFor(c) /\ (cached.kind = "none" \/ (cached.kind = "entry" /\ member.now - cached.at >= RoleCacheMs))
          /\ member' = [member EXCEPT !.cache = [kind |-> "pending", by |-> c]]
          /\ visit' = [visit EXCEPT ![c].at = "asking", ![c].asked = member.now]
          /\ UNCHANGED visited
    /\ UNCHANGED <<surface, disk, viewer, browser>>

\* The core answers members.list, and the answer comes back.
HostReads(c) ==
    /\ visit[c].at = "asking"
    /\ visit' = [visit EXCEPT ![c].at = "answering", ![c].role = member.role]
    /\ UNCHANGED <<surface, member, disk, viewer, browser, visited>>
Joined(c) == {c} \cup {d \in Visits : visit[d].at = "joined" /\ visit[d].joins = c}
Fetched(c) == [kind |-> "entry", role |-> visit[c].role, at |-> member.now]
RolesArrive(c) ==
    /\ visit[c].at = "answering"
    /\ member' = [member EXCEPT !.cache = Fetched(c)]
    /\ visited' = [visited EXCEPT !.stale = @ \/ \E d \in Joined(c) : ~Decided(d, visit[c].role, visit)]
    /\ visit' = [d \in Visits |-> IF d \in Joined(c) THEN NoVisit ELSE visit[d]]
    /\ UNCHANGED <<surface, disk, viewer, browser>>
RolesFail(c) ==
    /\ visit[c].at \in {"asking", "answering"}
    /\ member' = [member EXCEPT !.cache = [kind |-> "none"]]
    /\ visit' = [d \in Visits |-> IF d \in Joined(c) THEN NoVisit ELSE visit[d]]
    /\ UNCHANGED <<surface, disk, viewer, browser, visited>>

RoleChanges ==
    /\ surface = "roles"
    /\ \E role \in Roles \ {member.role} : member' = [member EXCEPT !.role = role, !.held[role] = member.now]
    /\ UNCHANGED <<surface, disk, viewer, browser, visit, visited>>
\* A members call that takes longer than the host's limit has failed.
MomentPasses ==
    /\ surface = "roles" /\ member.now < MaxMoment
    /\ \A c \in Visits : visit[c].at \in {"asking", "answering"} => member.now - visit[c].asked < RoleTimeout
    /\ member' = [member EXCEPT !.now = @ + 1, !.held[member.role] = member.now + 1]
    /\ UNCHANGED <<surface, disk, viewer, browser, visit, visited>>

-----------------------------------------------------------------------------
(* The worker's operations on the folder                                   *)

FileStep(c, kind, at) == surface = "edit" /\ visit[c].kind = kind /\ visit[c].at = at
Quiet == UNCHANGED <<surface, member, browser>>

\* Somebody else's request: create (or upload a file that is not there), upload over one
\* that is, rename, delete.
Request(c, kind, path, to, overwrite) ==
    /\ surface = "edit"
    /\ Begins(c, [NoVisit EXCEPT !.at = "asked", !.kind = kind, !.path = path, !.to = to,
                                 !.force = overwrite, !.mount = -1])
    /\ visited' = [visited EXCEPT !.begun = @ + 1]
    /\ Quiet /\ UNCHANGED <<disk, viewer>>

\* read: lstat, then readFile.
ReadStats(c) ==
    /\ FileStep(c, "read", "asked")
    /\ IF disk[visit[c].path].kind = "file"
       THEN visit' = [visit EXCEPT ![c].at = "stated", ![c].mtime = disk[visit[c].path].mtime]
       ELSE visit' = [visit EXCEPT ![c].at = "answered", ![c].result = "refused"]
    /\ Quiet /\ UNCHANGED <<disk, viewer, visited>>
ReadFile(c) ==
    /\ FileStep(c, "read", "stated")
    /\ visit' = [visit EXCEPT ![c].at = "answered", ![c].text = disk[visit[c].path].text,
                              ![c].result = IF disk[visit[c].path].kind = "file" THEN "ok" ELSE "refused"]
    /\ Quiet /\ UNCHANGED <<disk, viewer, visited>>
\* stat.
Stat(c) ==
    /\ FileStep(c, "stat", "asked")
    /\ visit' = [visit EXCEPT ![c].at = "answered", ![c].mtime = disk[visit[c].path].mtime,
                              ![c].result = IF disk[visit[c].path].kind = "none" THEN "refused" ELSE "ok"]
    /\ Quiet /\ UNCHANGED <<disk, viewer, visited>>

SaveCheckExists(c) ==       \* mutant: only looks whether the file is there
    IF disk[visit[c].path].kind = "file" THEN "ok" ELSE "not_found"
\* write, as files.write calls it: mustExist, and the time stamp the page knows.
SaveCheck(c) ==
    LET entry == disk[visit[c].path] IN
    CASE entry.kind = "none" -> "not_found"
      [] entry.kind = "dir"  -> "refused"
      [] entry.kind = "file" /\ ~visit[c].force /\ entry.mtime # visit[c].base -> "conflict"
      [] OTHER -> "ok"
CheckSave(c) ==
    /\ FileStep(c, "write", "asked")
    /\ visit' = [visit EXCEPT ![c].at = IF SaveCheck(c) = "ok" THEN "checked" ELSE "answered",
                              ![c].result = SaveCheck(c)]
    /\ Quiet /\ UNCHANGED <<disk, viewer, visited>>

\* fs.writeFile: whatever is there by now is replaced.
WriteFile(c) ==
    LET path == visit[c].path  old == disk[path]  saw == old.text \in visited.seen \/ old.born # {} \/ old.moved IN
    /\ FileStep(c, "write", "checked") /\ visited.stamp < MaxStamp
    /\ IF old.kind = "dir" THEN /\ visit' = [visit EXCEPT ![c].at = "answered", ![c].result = "refused"]
                                /\ UNCHANGED <<disk, visited>>
       ELSE /\ disk' = [disk EXCEPT ![path] = Written(path, visit[c].text, "file", {c})]
            /\ Goes(c, "written")
            /\ visited' = [visited EXCEPT !.stamp = Stamp, !.seen = @ \cup {visit[c].text},
                 !.lost = @ \/ (~visit[c].force /\ old.kind = "file" /\ ~saw)]
    /\ Quiet /\ UNCHANGED viewer
\* The time stamp the page will know; then the activity log, which may fail.
StatWritten(c) ==
    /\ FileStep(c, "write", "written")
    /\ \E result \in {"ok", "refused"} :
         visit' = [visit EXCEPT ![c].at = "answered", ![c].mtime = disk[visit[c].path].mtime,
                     ![c].result = IF disk[visit[c].path].kind = "none" THEN "refused" ELSE result]
    /\ Quiet /\ UNCHANGED <<disk, viewer, visited>>

\* create (file or folder), upload, rename, delete: the look, then the deed.
LookFirst(c) ==
    LET kind == disk[visit[c].path].kind IN
    CASE visit[c].kind = "delete" -> kind # "none"
      [] visit[c].kind = "rename" -> kind # "none" /\ disk[visit[c].to].kind = "none"
      [] OTHER                    -> IF visit[c].force THEN kind # "dir" ELSE kind = "none"
Looks(c) ==
    /\ surface = "edit" /\ visit[c].at = "asked" /\ visit[c].kind \in {"create", "mkdir", "upload", "rename", "delete"}
    /\ IF LookFirst(c) THEN Goes(c, "checked") ELSE Finishes(c)
    /\ Quiet /\ UNCHANGED <<disk, viewer, visited>>
\* Replaced without anybody having been asked, and not born since the look.
Replaces(c, path) == disk[path].kind # "none" /\ ~visit[c].force /\ c \notin disk[path].born
Does(c) ==
    LET path == visit[c].path IN
    /\ surface = "edit" /\ visit[c].at = "checked" /\ visit[c].kind \in {"create", "mkdir", "upload", "rename", "delete"}
    /\ Finishes(c)
    /\ \/ /\ visit[c].kind \in {"create", "upload"} /\ disk[path].kind # "dir" /\ visited.stamp < MaxStamp
          /\ disk' = [disk EXCEPT ![path] = Written(path, Stamp, "file", {c})]
          /\ visited' = [visited EXCEPT !.stamp = Stamp, !.replaced = @ \/ Replaces(c, path)]
       \/ /\ visit[c].kind = "mkdir" /\ disk[path].kind = "none" /\ visited.stamp < MaxStamp
          /\ disk' = [disk EXCEPT ![path] = Written(path, 0, "dir", {c})]
          /\ visited' = [visited EXCEPT !.stamp = Stamp]
       \/ /\ visit[c].kind = "rename" /\ disk[path].kind # "none" /\ disk[visit[c].to].kind # "dir"
          /\ disk' = [disk EXCEPT ![path] = Gone,
                                  ![visit[c].to] = Moved(disk[path], visit[c].to, {c})]
          /\ visited' = [visited EXCEPT !.replaced = @ \/ Replaces(c, visit[c].to)]
       \/ /\ visit[c].kind = "delete" /\ disk[path].kind # "none"
          /\ disk' = [disk EXCEPT ![path] = Gone] /\ UNCHANGED visited
       \/ UNCHANGED <<disk, visited>>      \* the file system refuses
    /\ Quiet /\ UNCHANGED viewer

\* An agent writes or deletes a file.
AgentWrites(path) ==
    /\ surface = "edit" /\ disk[path].kind # "dir" /\ visited.stamp < MaxStamp
    /\ disk' = [disk EXCEPT ![path] = Written(path, Stamp, "file", {})]
    /\ visited' = [visited EXCEPT !.stamp = Stamp]
    /\ Quiet /\ UNCHANGED <<viewer, visit>>
AgentDeletes(path) ==
    /\ surface = "edit" /\ disk[path].kind # "none"
    /\ disk' = [disk EXCEPT ![path] = Gone]
    /\ Quiet /\ UNCHANGED <<viewer, visit, visited>>

-----------------------------------------------------------------------------
(* FileView                                                                *)

Asks(c, kind, path, mount) == [NoVisit EXCEPT !.at = "asked", !.kind = kind, !.path = path, !.mount = mount]
FileAnswered(c, kind) == FileStep(c, kind, "answered")
Mounted(c) == visit[c].mount = viewer.mount
Page == surface = "edit" /\ viewer.open

\* A file is selected: the view is mounted anew, and loads it.
Select(c, path) ==
    /\ surface = "edit"
    /\ Begins(c, Asks(c, "read", path, viewer.mount + 1))
    /\ viewer' = [Unmounted EXCEPT !.path = path, !.mount = viewer.mount + 1]
    /\ visited' = [visited EXCEPT !.begun = @ + 1]
    /\ Quiet /\ UNCHANGED disk

\* load: what it brings replaces the draft.
Loads(c) ==
    /\ FileAnswered(c, "read")
    /\ IF Mounted(c) /\ visit[c].result = "ok"
       THEN /\ viewer' = [viewer EXCEPT !.mtime = visit[c].mtime, !.text = visit[c].text, !.draft = visit[c].text,
                                        !.open = TRUE, !.conflict = FALSE, !.changed = FALSE]
            /\ visited' = [visited EXCEPT !.seen = @ \cup {visit[c].text}]
       ELSE UNCHANGED <<viewer, visited>>
    /\ Finishes(c) /\ Quiet /\ UNCHANGED disk

Type ==
    /\ Page /\ visited.typed < MaxTyped
    /\ viewer' = [viewer EXCEPT !.draft = MaxStamp + visited.typed + 1]
    /\ visited' = [visited EXCEPT !.typed = @ + 1]
    /\ Quiet /\ UNCHANGED <<disk, visit>>
Revert ==
    /\ Page /\ Dirty /\ ~viewer.saving
    /\ viewer' = [viewer EXCEPT !.draft = viewer.text, !.conflict = FALSE]
    /\ Quiet /\ UNCHANGED <<disk, visit, visited>>

\* The poll of the open file.
PollFile(c) ==
    /\ Page
    /\ Begins(c, Asks(c, "stat", viewer.path, viewer.mount))
    /\ visited' = [visited EXCEPT !.begun = @ + 1]
    /\ Quiet /\ UNCHANGED <<disk, viewer>>
FilePolled(c) ==
    LET news == Mounted(c) /\ visit[c].result = "ok" /\ visit[c].mtime # viewer.mtime IN
    /\ FileAnswered(c, "stat")
    /\ viewer' = [viewer EXCEPT !.changed = @ \/ (news /\ Dirty)]
    /\ IF news /\ ~Dirty THEN visit' = [visit EXCEPT ![c] = Asks(c, "read", viewer.path, viewer.mount)]
                         ELSE Finishes(c)
    /\ Quiet /\ UNCHANGED <<disk, visited>>

\* Save, Overwrite, Reload.
SaveFile(c, force) ==
    /\ Page /\ IF force THEN viewer.conflict ELSE Dirty /\ ~viewer.saving
    /\ Begins(c, [Asks(c, "write", viewer.path, viewer.mount) EXCEPT
                    !.text = viewer.draft, !.base = viewer.mtime, !.force = force])
    /\ viewer' = [viewer EXCEPT !.saving = TRUE]
    /\ visited' = [visited EXCEPT !.begun = @ + 1]
    /\ Quiet /\ UNCHANGED disk
FileSaved(c) ==
    /\ FileAnswered(c, "write")
    /\ viewer' = IF ~Mounted(c) THEN viewer
                 ELSE CASE visit[c].result = "ok" ->
                             [viewer EXCEPT !.mtime = visit[c].mtime, !.text = visit[c].text,
                                            !.conflict = FALSE, !.changed = FALSE, !.saving = FALSE]
                        [] visit[c].result = "conflict" -> [viewer EXCEPT !.conflict = TRUE, !.saving = FALSE]
                        [] OTHER -> [viewer EXCEPT !.saving = FALSE]
    /\ Finishes(c) /\ Quiet /\ UNCHANGED <<disk, visited>>
Reload(c) ==
    /\ Page /\ viewer.conflict
    /\ Begins(c, Asks(c, "read", viewer.path, viewer.mount))
    /\ visited' = [visited EXCEPT !.begun = @ + 1]
    /\ Quiet /\ UNCHANGED <<disk, viewer>>

-----------------------------------------------------------------------------
(* Browser: the listing of a folder                                        *)

Lists(folder, turn) == [NoVisit EXCEPT !.at = "asked", !.kind = "list", !.path = folder, !.mount = turn]
Browses == surface = "browse"
Elsewhere == UNCHANGED <<surface, member, disk, viewer>>
\* The list effect runs when the folder or the tick changes; its cleanup cancels the one before.
OpenFolder(c, folder) ==
    /\ Browses /\ Begins(c, Lists(folder, browser.turn + 1))
    /\ browser' = [browser EXCEPT !.dir = folder, !.turn = @ + 1]
    /\ visited' = [visited EXCEPT !.begun = @ + 1]
    /\ Elsewhere
FolderAnswers(c) ==
    /\ Browses /\ visit[c].at = "asked"
    /\ \E result \in {"refused", IF visit[c].path = "top" \/ browser.there THEN "ok" ELSE "not_found"} :
         visit' = [visit EXCEPT ![c].at = "answered", ![c].result = result]
    /\ Elsewhere /\ UNCHANGED <<browser, visited>>
Cancelled(c) == visit[c].mount # browser.turn
ListAnswered(c) ==
    /\ Browses /\ visit[c].at = "answered"
    /\ CASE Cancelled(c) -> Finishes(c) /\ UNCHANGED browser
         [] ~Cancelled(c) /\ visit[c].result = "ok" ->
              Finishes(c) /\ browser' = [browser EXCEPT !.listing = visit[c].path, !.error = FALSE]
         [] ~Cancelled(c) /\ visit[c].result = "not_found" ->
              /\ visit' = [visit EXCEPT ![c] = Lists("top", browser.turn + 1)]
              /\ browser' = [browser EXCEPT !.dir = "top", !.turn = @ + 1]
         [] OTHER -> Finishes(c) /\ browser' = [browser EXCEPT !.error = TRUE]
    /\ Elsewhere /\ UNCHANGED visited
FolderComesOrGoes ==
    /\ Browses /\ browser' = [browser EXCEPT !.there = ~@]
    /\ Elsewhere /\ UNCHANGED <<visit, visited>>

-----------------------------------------------------------------------------
FilesInit ==
    /\ surface \in {"roles", "edit", "browse"}
    /\ member = [role |-> "member", now |-> 0, cache |-> [kind |-> "none"],
                 held |-> [r \in Roles |-> IF r = "member" THEN 0 ELSE -(RoleCacheMs + RoleTimeout)]]
    /\ disk = [p \in Paths |-> Gone]
    /\ viewer = Unmounted
    /\ visit = [c \in Visits |-> NoVisit]
    /\ browser = [dir |-> "top", listing |-> "none", error |-> FALSE, turn |-> 0, there |-> TRUE]
    /\ visited = [begun |-> 0, stamp |-> 0, typed |-> 0, stale |-> FALSE, lost |-> FALSE, replaced |-> FALSE, seen |-> {}]

FilesNext ==
    \/ \E c \in Visits :
         \/ \E need \in {"read", "write"} : Visit(c, need)
         \/ ResolveRole(c) \/ HostReads(c) \/ RolesArrive(c) \/ RolesFail(c)
         \/ \E p \in Paths :
              \/ Request(c, "upload", p, p, TRUE)
              \/ \E kind \in {"create", "mkdir", "delete"} : Request(c, kind, p, p, FALSE)
              \/ \E q \in Paths \ {p} : Request(c, "rename", p, q, FALSE)
              \/ Select(c, p)
         \/ ReadStats(c) \/ ReadFile(c) \/ Stat(c) \/ CheckSave(c) \/ WriteFile(c) \/ StatWritten(c)
         \/ Looks(c) \/ Does(c)
         \/ Loads(c) \/ PollFile(c) \/ FilePolled(c) \/ SaveFile(c, TRUE) \/ SaveFile(c, FALSE) \/ FileSaved(c) \/ Reload(c)
         \/ \E folder \in {"top", "inner"} : OpenFolder(c, folder)
         \/ FolderAnswers(c) \/ ListAnswered(c)
    \/ RoleChanges \/ MomentPasses \/ Type \/ Revert \/ FolderComesOrGoes
    \/ \E p \in Paths : AgentWrites(p) \/ AgentDeletes(p)

FilesSpec == FilesInit /\ [][FilesNext]_filesVars

-----------------------------------------------------------------------------
FilesTypeOK ==
    /\ member.role \in Roles /\ member.now \in 0..MaxMoment
    /\ \A p \in Paths : disk[p].kind \in {"none", "file", "dir"} /\ disk[p].mtime \in 0..MaxStamp
    /\ viewer.path \in Paths \cup {"none"} /\ viewer.mtime \in 0..MaxStamp
    /\ browser.dir \in {"top", "inner"}

\* Nobody acts on a role they have not held since the cache's age and one members call ago,
\* or, to change a file, since the call began, however fetches cross; and nobody waits for
\* a fetch that is over (auth.ts).
RolesAreRecent ==
    /\ ~visited.stale
    /\ member.cache.kind = "pending" => visit[member.cache.by].at \in {"asking", "answering"}
    /\ \A c \in Visits : visit[c].at = "joined" => visit[visit[c].joins].at \in {"asking", "answering"}

\* A save that the person did not force replaces only what they have seen, and nothing is
\* replaced by a new entry or a rename, but for writes that fall between an operation's own
\* look at the file and its end (fs-service.ts).
NothingIsLostUnasked == ~visited.lost /\ ~visited.replaced

\* While the page knows the file's time stamp, it shows the file's text, but for writes
\* between a save's own look and its end (fs-service.ts, ProjectFiles.tsx).
PageShowsTheFile ==
    LET entry == disk[viewer.path] IN
    viewer.open /\ entry.kind = "file" /\ entry.mtime = viewer.mtime /\ entry.born = {} /\ ~entry.moved
        => viewer.text = entry.text

\* The entries shown are of the folder shown, unless its listing is under way or an error
\* is shown (ProjectFiles.tsx).
ListingIsOfTheFolder ==
    \/ browser.listing \in {browser.dir, "none"} \/ browser.error
    \/ \E c \in Visits : visit[c].kind = "list" /\ visit[c].mount = browser.turn
=============================================================================
