--------------------------- MODULE Configuration ----------------------------
(***************************************************************************)
(* The configuration: its file, read and replaced by config.c; the one     *)
(* each process runs with; and restart_required, by which the Web          *)
(* interface tells that the two differ (config_post of web.c and           *)
(* json_add_config_state of app.c, in a thread for each request).  A       *)
(* backup process and Web-only ones share the file.  Any call of a save    *)
(* may fail, processes are killed, and the power may go.                   *)
(***************************************************************************)
EXTENDS Naturals

CONSTANTS
    Procs,          \* processes with a Web server
    Requests,       \* the threads that serve requests
    Paths,
    Mounts,         \* the paths that come and go
    Within,         \* the pairs <<base, path>> for which path_is_within holds
    Trimmed,        \* path -> what config_load reads where config_save wrote it
    MaxThreads,     \* SYSEBA_MAX_THREADS
    First,          \* the configuration in the file at first
    Updates,        \* the bodies of POST /api/config: field -> value, partial
    MaxPosts,       \* bound on the POST requests
    MaxFaults,      \* bound on failing calls
    MaxCrashes      \* bound on stops, kills and power losses

PathFields == {"source", "backup", "restore", "log_file"}
Fields == PathFields \cup {"threads"}

ASSUME ConfigurationAssumption ==
    /\ Within \subseteq Paths \X Paths
    /\ \A p \in Paths : <<p, p>> \in Within
    /\ Trimmed \in [Paths -> Paths]
    /\ DOMAIN First = Fields
    /\ \A u \in Updates : DOMAIN u \subseteq Fields

Torn == [torn |-> TRUE]     \* a file that was not written to its end
Off == [off |-> TRUE]       \* the process is not running
Idle == [at |-> "idle"]

VARIABLES
    file,           \* what the file holds: [text, save], where save numbers the saves
    disk,           \* what it may hold after a power loss
    directories,    \* the paths that are directories
    active,         \* process -> app->config
    flag,           \* process -> app->restart_required
    call,           \* request -> where its handler is, its variables, and the number of
                    \* its save, 0 without one or when its directory was not flushed
    posts,
    faults,
    crashes

vars == <<file, disk, directories, active, flag, call, posts, faults, crashes>>
bounds == <<posts, faults, crashes>>

Running == {p \in Procs : active[p] # Off}

-----------------------------------------------------------------------------
(* config_validate, without and with its look at the source.               *)

Apart(c) ==
    /\ \A f, g \in {"source", "backup", "restore"} : f # g => <<c[f], c[g]>> \notin Within
    /\ <<c["source"], c["log_file"]>> \notin Within
    /\ c["threads"] \in 1..MaxThreads

Valid(c) == Apart(c) /\ c["source"] \in directories

(* The configuration that was installed is valid.                          *)
ASSUME FirstAssumption == Apart(First)

(* config_load trims every value.                                          *)
Loaded(c) == [f \in Fields |-> IF f \in PathFields THEN Trimmed[c[f]] ELSE c[f]]

Loads(text) == text # Torn /\ Valid(Loaded(text))

Saved == Loaded(file.text)
Differs(p) == Saved # active[p]

Init ==
    /\ file = [text |-> First, save |-> 0]
    /\ disk = {file}
    /\ directories = Paths
    /\ active = [p \in Procs |-> Off]
    /\ flag = [p \in Procs |-> FALSE]
    /\ call = [r \in Requests |-> Idle]
    /\ posts = 0
    /\ faults = 0
    /\ crashes = 0

-----------------------------------------------------------------------------
(* Processes.  cli_execute loads the file, and ends if it cannot.          *)

Start(p) ==
    /\ p \notin Running
    /\ Loads(file.text)
    /\ active' = [active EXCEPT ![p] = Saved]
    /\ flag' = [flag EXCEPT ![p] = FALSE]
    /\ UNCHANGED <<file, disk, directories, call, bounds>>

Crash == crashes < MaxCrashes /\ crashes' = crashes + 1
Calls(p) == {r \in Requests : call[r] # Idle /\ call[r].process = p}

(* mg_stop waits for the handlers, a kill does not.                        *)
Stop(p) ==
    /\ p \in Running
    /\ Crash
    /\ active' = [active EXCEPT ![p] = Off]
    /\ call' = [r \in Requests |-> IF r \in Calls(p) THEN Idle ELSE call[r]]
    /\ UNCHANGED <<file, disk, directories, flag, posts, faults>>

PowerLoss ==
    /\ Crash
    /\ file' \in disk
    /\ disk' = {file'}
    /\ active' = [p \in Procs |-> Off]
    /\ call' = [r \in Requests |-> Idle]
    /\ UNCHANGED <<directories, flag, posts, faults>>

(* A source is unmounted or comes back.                                    *)
Mount(p) ==
    /\ faults < MaxFaults
    /\ faults' = faults + 1
    /\ directories' = IF p \in directories THEN directories \ {p} ELSE directories \cup {p}
    /\ UNCHANGED <<file, disk, active, flag, call, posts, crashes>>

-----------------------------------------------------------------------------
Goto(r, label) == call' = [call EXCEPT ![r].at = label]
Return(r) == call' = [call EXCEPT ![r] = Idle]
At(r, label) == call[r].at = label
Fault == faults < MaxFaults /\ faults' = faults + 1

(* config_post: the fields of the request replace those of the running     *)
(* configuration, and the result must be valid.                            *)
Post(r, p, update) ==
    LET candidate == [f \in Fields |-> IF f \in DOMAIN update THEN update[f] ELSE active[p][f]]
    IN  /\ call[r] = Idle
        /\ p \in Running
        /\ posts < MaxPosts
        /\ posts' = posts + 1
        /\ call' = IF Valid(candidate)
                   THEN [call EXCEPT ![r] = [at |-> "save", process |-> p,
                                             candidate |-> candidate, flushed |-> FALSE,
                                             save |-> 0]]
                   ELSE call
        /\ UNCHANGED <<file, disk, directories, active, flag, faults, crashes>>

(* config_save validates again, makes a temporary file and writes it, and  *)
(* then flushes it.  A failure removes it.                                 *)
SaveWrites(r) ==
    /\ At(r, "save")
    /\ \/ Valid(call[r].candidate) /\ Goto(r, "flush") /\ UNCHANGED faults
       \/ ~Valid(call[r].candidate) /\ Return(r) /\ UNCHANGED faults
       \/ Fault /\ Return(r)
    /\ UNCHANGED <<file, disk, directories, active, flag, posts, crashes>>

(* Mutant: the data stay in memory.                                        *)
SaveCloses(r) ==
    /\ At(r, "flush")
    /\ Goto(r, "rename")
    /\ UNCHANGED <<file, disk, directories, active, flag, bounds>>

SaveFlushes(r) ==
    /\ At(r, "flush")
    /\ \/ /\ call' = [call EXCEPT ![r] =
                [at |-> "rename", process |-> @.process, candidate |-> @.candidate,
                 flushed |-> TRUE, save |-> @.save]]
          /\ UNCHANGED faults
       \/ Fault /\ Return(r)
    /\ UNCHANGED <<file, disk, directories, active, flag, posts, crashes>>

(* atomic_replace: the rename, which a power loss may undo, and the flush  *)
(* of the directory, whose failure comes too late to undo it.              *)
SaveRenames(r) ==
    LET renamed == [text |-> call[r].candidate, save |-> file.save + 1]
        torn == [renamed EXCEPT !.text = Torn]
    IN  /\ At(r, "rename")
        /\ \/ /\ file' = renamed
              /\ disk' = disk \cup (IF call[r].flushed THEN {renamed} ELSE {renamed, torn})
              /\ call' = [call EXCEPT ![r] =
                    [at |-> "sync", process |-> @.process, candidate |-> @.candidate,
                     flushed |-> @.flushed, save |-> renamed.save]]
              /\ UNCHANGED faults
           \/ /\ Fault
              /\ Return(r)
              /\ UNCHANGED <<file, disk>>
        /\ UNCHANGED <<directories, active, flag, posts, crashes>>

(* A filesystem that refuses to flush a directory (EINVAL, EROFS) does not *)
(* make the save fail.                                                     *)
SaveSyncs(r) ==
    /\ At(r, "sync")
    /\ \/ disk' = {file} /\ Goto(r, "flag") /\ UNCHANGED faults
       \/ Fault /\ Return(r) /\ UNCHANGED disk
       \/ /\ Fault
          /\ call' = [call EXCEPT ![r] =
                [at |-> "flag", process |-> @.process, candidate |-> @.candidate,
                 flushed |-> @.flushed, save |-> 0]]
          /\ UNCHANGED disk
    /\ UNCHANGED <<file, directories, active, flag, posts, crashes>>

SetFlag(r) ==
    /\ At(r, "flag")
    /\ flag' = [flag EXCEPT ![call[r].process] =
                    call[r].candidate # active[call[r].process]]
    /\ Goto(r, "state")
    /\ UNCHANGED <<file, disk, directories, active, bounds>>

-----------------------------------------------------------------------------
(* json_add_config_state, for GET /api/status, GET /api/config/state and   *)
(* the answer to a POST: the file is loaded, and later the flag is set.    *)

Status(r, p) ==
    /\ call[r] = Idle
    /\ p \in Running
    /\ call' = [call EXCEPT ![r] = [at |-> "state", process |-> p, save |-> 0]]
    /\ UNCHANGED <<file, disk, directories, active, flag, bounds>>

(* A file that cannot be loaded leaves the flag alone.                     *)
LoadSaved(r) ==
    /\ At(r, "state")
    /\ call' = [call EXCEPT ![r] =
            [at |-> IF Loads(file.text) THEN "compare" ELSE "answer",
             process |-> @.process, save |-> @.save, differs |-> Differs(@.process)]]
    /\ UNCHANGED <<file, disk, directories, active, flag, bounds>>

(* Mutant: the flag is left to config_post.                                *)
StoreNothing(r) ==
    /\ At(r, "compare")
    /\ Goto(r, "answer")
    /\ UNCHANGED <<file, disk, directories, active, flag, bounds>>

StoreFlag(r) ==
    /\ At(r, "compare")
    /\ flag' = [flag EXCEPT ![call[r].process] = call[r].differs]
    /\ Goto(r, "answer")
    /\ UNCHANGED <<file, disk, directories, active, bounds>>

(* The answer to a POST has the flag as it is now.                         *)
Answer(r) ==
    /\ At(r, "answer")
    /\ Return(r)
    /\ UNCHANGED <<file, disk, directories, active, flag, bounds>>

-----------------------------------------------------------------------------
Serve(r) ==
    \/ SaveWrites(r) \/ SaveFlushes(r) \/ SaveRenames(r) \/ SaveSyncs(r)
    \/ SetFlag(r) \/ LoadSaved(r) \/ StoreFlag(r) \/ Answer(r)

Next ==
    \/ \E p \in Procs : Start(p) \/ Stop(p)
    \/ \E p \in Mounts : Mount(p)
    \/ PowerLoss
    \/ \E r \in Requests :
          \/ Serve(r)
          \/ \E p \in Procs : Status(r, p) \/ \E u \in Updates : Post(r, p, u)

Spec == Init /\ [][Next]_vars

(* Handlers go on, and the page of every process asks again and again.     *)
FairSpec ==
    /\ Spec
    /\ \A r \in Requests : WF_vars(Serve(r))
    /\ \A p \in Procs : SF_vars(\E r \in Requests : Status(r, p))

-----------------------------------------------------------------------------
(* Whatever fails, and whenever a process or the machine stops, the file   *)
(* holds a complete configuration that config_validate accepted; and once  *)
(* config_save has returned no power loss brings back an earlier one,      *)
(* unless the filesystem refused to flush the directory: then config_save  *)
(* succeeds all the same, and the configuration before may come back.      *)
SavedConfigurationSurvives ==
    \A kept \in disk \cup {file} :
        /\ kept.text # Torn
        /\ Apart(kept.text)
        /\ \A r \in Requests :
              call[r].at \in {"flag", "state", "compare", "answer"} => kept.save >= call[r].save

(* Once no more is saved, restart_required becomes and stays right in      *)
(* every running process, also when another process saved the file, and    *)
(* although requests that loaded an earlier file store what they found.    *)
FlagSettles ==
    \A p \in Procs : <>[](p \in Running /\ Loads(file.text) => flag[p] = Differs(p))

(* The answer to a POST says that a restart is required exactly if the     *)
(* file then differs from the running configuration.                       *)
AnswerIsRight ==
    \A r \in Requests :
        At(r, "answer") /\ call[r].save > 0 /\ Loads(file.text) =>
            flag[call[r].process] = Differs(call[r].process)
=============================================================================
