---------------------------- MODULE CommandStart ----------------------------
(***************************************************************************)
(* The NodeServer's startServer: CommandStart runs the script of a server  *)
(* in a child process through popen2 and pclose2.  The handles of the      *)
(* servant's adapter run it concurrently, and share the static table       *)
(* childpid, which the first call allocates and no lock protects.  An      *)
(* entry of the table is found by the descriptor of the stream, and        *)
(* descriptors are reused as soon as they are closed.                      *)
(*                                                                         *)
(* External: pipe, fork, fclose and waitpid, as POSIX specifies them.      *)
(***************************************************************************)
EXTENDS Naturals, Sequences, FiniteSets

CONSTANTS
    Starter,      \* the handles that run startServer
    Fd,           \* descriptors the process can have open besides its own
    NoFd,         \* no stream yet
    NoPid,        \* 0: no child is known for the descriptor
    JunkPid,      \* what a fresh table may contain
    MaxChildren   \* bound: children that are started

Child == 1 .. MaxChildren

ASSUME StartAssumption ==
    /\ MaxChildren \in Nat
    /\ NoPid \notin Child /\ JunkPid \notin Child \cup {NoPid}

VARIABLES
    tables,       \* the tables allocated so far; the last one is childpid
    where,        \* where a handle is in startServer
    stream,       \* the descriptor of its stream fp
    child,        \* pid: in popen2 the child it forked, in pclose2 the one it waits for
    forked,       \* history: the child each handle forked in this call
    open,         \* open descriptors
    children,     \* "runs", "exited" or "reaped", for every child
    ended,        \* the process has died of a NULL stream
    clobbered     \* history: a table in use was replaced or cleared

startVars == <<tables, where, stream, child, forked, open, children, ended, clobbered>>

StartInit ==
    /\ tables = << >>
    /\ where = [t \in Starter |-> "idle"]
    /\ stream = [t \in Starter |-> NoFd]
    /\ child = [t \in Starter |-> NoPid] /\ forked = [t \in Starter |-> NoPid]
    /\ open = {} /\ children = << >>
    /\ ended = FALSE /\ clobbered = FALSE

At(t, here) == ~ended /\ where[t] = here
Goto(t, next) == where' = [where EXCEPT ![t] = next]

(* childpid[fd] of the table childpid points at now                        *)
Entry(fd) == tables[Len(tables)][fd]
SetEntry(fd, pid) == tables' = [tables EXCEPT ![Len(tables)][fd] = pid]

Used == \E t \in Starter : where[t] \notin {"idle", "new", "clear"}

(* NodeImp::startServer makes a CommandStart, whose doProcess finds it     *)
(* EXECUTABLE and comes to popen2; childpid is tested.                     *)
StartServer(t) ==
    /\ At(t, "idle") /\ Len(children) < MaxChildren
    /\ Goto(t, IF tables = << >> THEN "new" ELSE "pipe")
    /\ UNCHANGED <<tables, stream, child, forked, open, children, ended, clobbered>>

(* childpid = new pid_t[maxfd], whose memory is not cleared yet            *)
NewTable(t) ==
    /\ At(t, "new")
    /\ \E pid \in {NoPid, JunkPid} : tables' = Append(tables, [fd \in Fd |-> pid])
    /\ Goto(t, "clear")
    /\ clobbered' = (clobbered \/ Used)
    /\ UNCHANGED <<stream, child, forked, open, children, ended>>

(* memset(childpid, 0, ...)                                                *)
ClearTable(t) ==
    /\ At(t, "clear")
    /\ tables' = [tables EXCEPT ![Len(tables)] = [fd \in Fd |-> NoPid]]
    /\ Goto(t, "pipe")
    /\ clobbered' = (clobbered \/ Used)
    /\ UNCHANGED <<stream, child, forked, open, children, ended>>

(* pipe and fork; the parent closes the writing end and makes fp of the    *)
(* reading end.                                                            *)
Fork(t) ==
    /\ At(t, "pipe") /\ Len(children) < MaxChildren
    /\ \E fd \in Fd \ open :
         /\ open' = open \cup {fd}
         /\ stream' = [stream EXCEPT ![t] = fd]
    /\ children' = Append(children, "runs")
    /\ child' = [child EXCEPT ![t] = Len(children) + 1]
    /\ forked' = [forked EXCEPT ![t] = Len(children) + 1]
    /\ Goto(t, "store")
    /\ UNCHANGED <<tables, ended, clobbered>>

(* pipe, fork or fdopen fails: popen2 returns NULL, which startByScript    *)
(* hands to fileno.                                                        *)
PopenFails(t) ==
    /\ At(t, "pipe")
    /\ ended' = TRUE
    /\ UNCHANGED <<tables, where, stream, child, forked, open, children, clobbered>>

(* childpid[fileno(fp)] = pid; the flags of the descriptor do not matter:  *)
(* startByScript calls pclose2 whether fcntl fails or not, and execute     *)
(* returns 0 either way.                                                   *)
Remember(t) ==
    /\ At(t, "store")
    /\ SetEntry(stream[t], child[t])
    /\ Goto(t, "close")
    /\ UNCHANGED <<stream, child, forked, open, children, ended, clobbered>>

(* pclose2 up to fclose: the entry is read and cleared while the           *)
(* descriptor is still open.  Without an entry the call returns -1 and     *)
(* closes nothing.                                                         *)
Forget(t) ==
    /\ At(t, "close")
    /\ IF Entry(stream[t]) = NoPid
         THEN Goto(t, "idle") /\ UNCHANGED <<tables, child>>
         ELSE /\ child' = [child EXCEPT ![t] = Entry(stream[t])]
              /\ SetEntry(stream[t], NoPid)
              /\ Goto(t, "fclose")
    /\ UNCHANGED <<stream, forked, open, children, ended, clobbered>>

(* fclose(fp): the descriptor is free for the next pipe.                   *)
Close(t) ==
    /\ At(t, "fclose")
    /\ open' = open \ {stream[t]}
    /\ Goto(t, "wait")
    /\ UNCHANGED <<tables, stream, child, forked, children, ended, clobbered>>

MutantWaitForgets(t) ==
    /\ At(t, "wait")
    /\ IF child[t] \in DOMAIN children /\ children[child[t]] # "reaped"
         THEN /\ children[child[t]] = "exited"
              /\ children' = [children EXCEPT ![child[t]] = "reaped"]
         ELSE UNCHANGED children
    /\ SetEntry(stream[t], NoPid)
    /\ Goto(t, "idle")
    /\ UNCHANGED <<stream, child, forked, open, ended, clobbered>>

(* waitpid(pid), again after EINTR.  It returns when the child has exited, *)
(* or with an error when there is no such child.                           *)
WaitPid(t) ==
    /\ At(t, "wait")
    /\ IF child[t] \in DOMAIN children /\ children[child[t]] # "reaped"
         THEN /\ children[child[t]] = "exited"
              /\ children' = [children EXCEPT ![child[t]] = "reaped"]
         ELSE UNCHANGED children
    /\ Goto(t, "idle")
    /\ UNCHANGED <<tables, stream, child, forked, open, ended, clobbered>>

(* sh has put the script into the background and exits.                    *)
ChildExits(c) ==
    /\ ~ended /\ children[c] = "runs"
    /\ children' = [children EXCEPT ![c] = "exited"]
    /\ UNCHANGED <<tables, where, stream, child, forked, open, ended, clobbered>>

StartNext ==
    \/ \E t \in Starter :
         \/ StartServer(t) \/ NewTable(t) \/ ClearTable(t) \/ Fork(t) \/ PopenFails(t)
         \/ Remember(t) \/ Forget(t) \/ Close(t) \/ WaitPid(t)
    \/ \E c \in DOMAIN children : ChildExits(c)

StartSpec == StartInit /\ [][StartNext]_startVars

-----------------------------------------------------------------------------
InCall(t) == where[t] \notin {"idle", "new", "clear", "pipe"}

(* Every call waits for the child it forked and closes its own stream,     *)
(* although another call may get the same descriptor the moment it is      *)
(* closed: a handle that has returned leaves no child and no descriptor    *)
(* behind.  Only calls that overlap with the very first one, which makes   *)
(* the table, may lose theirs.                                             *)
ChildReaped ==
    ~clobbered =>
        /\ \A c \in DOMAIN children : children[c] # "reaped" =>
             \E t \in Starter : InCall(t) /\ forked[t] = c /\ child[t] = c
        /\ open = {stream[t] : t \in {u \in Starter : InCall(u) /\ where[u] # "wait"}}
=============================================================================
