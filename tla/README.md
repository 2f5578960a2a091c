# A verification project for linux_ns

linux_ns is a collection of small C programs and scripts that show how Linux
namespaces work. Most print what a system call returns. A few are real
concurrent programs: several processes, pipes, sockets, semaphores, and error
paths that end one process while another still waits for it. This directory
models those programs in TLA+, checks them with TLC and proves the most
important results with TLAPS.

    tlc -config Shns3_all.cfg MCShns3       # one run
    tlapm Shns3_proofs.tla                  # the proofs of one module

## 1. Inventory of the system

| Part | Source | State | Operations | Interaction | Hard behaviour |
|---|---|---|---|---|---|
| Shell launcher | `shns3.c` | selected namespaces, maps, pids, two pipes | option scan, pipe, fork, unshare, read/write, waitpid, helpers, execve | father, mapper (child1), child (child2) over pipes `sync1`, `sync2` | order of three processes, inherited descriptors, end of file taken for a message, ignored statuses |
| Command launcher | `userns_child_exec.c` | flags, maps, one pipe | clone, uid_map, setgroups, gid_map, close, waitpid, execvp | parent and child; the message is the end of file | an exit of the parent looks like the message |
| Id translator | `getnsids.c`, `cmp_ns` of `util.c` | id mask, socket, fds, child, rc | cmp_ns, open, setns, fork, connect, sendmsg, read, waitpid; accept, recvmsg, write | father and child over a UNIX socket, another process as target | the target ends meanwhile, error paths after fork, two programs on one socket name |
| Producer and consumer | `prodcons4.c` | shared memory, named semaphore | P/V loops, signal handler, cleanup, `-d` restart | two programs over POSIX IPC objects found by name | signal in the critical section, restart of one side, creation order |
| Run in a process's namespaces | `execns.c`, `cmp_ns` of `util.c` | `ns_list[].selected`, target pid | cmp_ns, open, setns, fork, exec, waitpid | a target process, a child | the target ends between two steps; the order of setns(); -1 taken for "same" |
| Compare namespaces | `cmpns.c` | `rc` | two stat() per namespace | two processes of the user | one variable for the result and for errors |
| Semaphores across IPC namespaces | `semns.c`, `getanswer` of `util.c` | one System V semaphore, a pipe | P, V, unshare, SEM_UNDO | father and child, other programs on the key | deadlock without SEM_UNDO, an id used in another namespace, a semaphore without its value |
| Producer and consumer across IPC namespaces | `prodcons.c`, `prodcons2.c`, `prodcons3.c` | System V segment with a semaphore in it, System V queue, POSIX queue | write/send, read/receive, display, unshare, SIGINT handler, removal at the start | two programs over an object found by key or name | an id in another namespace, a removal under a reader, a date received and not displayed yet, the semaphore found before it is initialised |
| Reaper | `reaper.c`, `orphan.c` | `pid_sh`, signal handlers | SIGCHLD handler, fork, pause | init of a pid namespace, its shell, the shell's tools and their orphans | handler before `pid_sh` is assigned, waitpid without children, several ends in one signal |
| First launchers | `shns.c`, `shns2.c`, `clonens.c`, `enter_pidns_up.c`, `setnshost.c`, `userns.c` | flags | unshare/clone/setns, exec | - | what shns3.c adds: none of it |
| Queries | `idns.c`, `linfo.c`, `fsinfo.c`, `ownerns.c`, `parentns.c` | none | stat, ioctl, print | /proc | none |
| Others | `udpsrv.c`, `udpcli.c`, `socket.c`, `rebootns.c`, `sem.c`, `shmns.c`, `pmsg.c`, `multi-th.c`, `sigwait.c`, `pid.c`, `pause.c`, LXC scripts | none or one object | one call after the other | kernel | none of their own |

What makes each of the concurrent parts correct:

* launchers: the command never runs before its id maps are written, and no map
  is written behind its back; every process of the launcher ends; the launcher
  stays until its command has ended;
* translator: what is printed on success is the id in the target's namespace;
  failures are reported; the call returns and leaves nothing behind;
* producer and consumer: what is read is a date written as a whole; no signal
  or restart leaves one side waiting for ever;
* execns: the command runs in exactly the namespaces asked for, and 0 means
  that it ran; cmpns: 0 means that the namespaces are equal;
* semaphores: taken by one process at a time, given back once; no deadlock but
  the one the program demonstrates;
* dates: whatever carries them, each consumer displays later and later ones and
  no date is displayed twice; one is lost only in a segment, by a newer one, in a
  queue, by its removal, or with the consumer that had received it;
* reaper: every orphan is reaped, and the reaper ends with its shell.

## 2. Modules

| Module | Models | Runs on | Proofs |
|---|---|---|---|
| `Launcher` | the promise of a launcher, abstractly | - | - |
| `Shns3` | `shns3.c` | `MCShns3` | `Shns3_proofs` |
| `UsernsChildExec` | `userns_child_exec.c` | `MCUsernsChildExec` | `UsernsChildExec_proofs` |
| `GetNsIds` | `getnsids.c` and `cmp_ns()` of `util.c` | `MCGetNsIds` | `GetNsIds_proofs` |
| `Prodcons4` | `prodcons4.c` | `MCProdcons4` | `Prodcons4_proofs` |
| `DateChannel` | the promise of a producer and its consumers, abstractly | - | - |
| `ProdconsNs` | `prodcons.c`, `prodcons2.c`, `prodcons3.c` | `MCProdconsNs` | `ProdconsNs_proofs` |
| `Execns` | `execns.c` and `cmp_ns()` of `util.c` | `MCExecns` | `Execns_proofs` |
| `Cmpns` | `cmpns.c` | `MCCmpns` | - |
| `Semns` | `semns.c` and `getanswer()` of `util.c` | `MCSemns` | `Semns_proofs` |
| `Reaper` | `reaper.c` and `orphan.c` | `MCReaper` | `Reaper_proofs` |

`Shns3` and `UsernsChildExec` each implement `Launcher` (`INSTANCE Launcher
WITH ...` under a refinement mapping, property `IsLauncher`). `ProdconsNs`
implements `DateChannel` with each of its three kinds of objects (property
`IsChannel`).

### Launcher

Four variables: the maps asked for, the maps written, where the command stands
and whether there was trouble, that is a process of the launcher that failed or
was killed. Without trouble the command starts with exactly the maps asked for,
none is written while it runs or after, and the only way out of an accepted
launch is the command. With trouble the maps may be missing or late, which is
what both programs do. The one liveness condition says that a launch moves on
until it has ended or failed.

### Shns3

One label of `pc` per system call that matters; an action is the code from that
call to the next. `args` is what `getopt_long()` has still to return, `sel` is
`ns_list[].selected`, `given` the kinds of maps in `umap` and `gmap`. A pipe is
two sets, the processes that hold its read end and its write end, and one bit
for the single message it carries in its life; `fork()` copies the father's
membership, `Exit` removes the process from all four sets. `target` is the
variable `child2` in the memory of the mapper: `"uninit"` until a read stores a
pid. `inside` says who lives in the new namespaces, `written` which maps of the
new user namespace exist. `Faults` is the set of calls that may fail, `Killable`
the processes a signal may end at any moment.

Abstracted: the text of maps, shells and command lines; `-d` and `-s` only
matter as options accepted or refused. `system()` (newuidmap, newgidmap) is one
step of the mapper, so a helper dies with it. With an uninitialised pid the
helper fails or finds a process that is not ours: then it may write a map, but
not one of our user namespace. `waitpid()` and `close()` do not fail on what
the program gives them. The descriptor `sync2[0]` is closed twice (lines 517
and 550) with no `open()` in between, so the second close changes nothing.

### UsernsChildExec

The same vocabulary with one pipe that never carries a byte: `writers` is the
set of processes that hold its write end, and the child goes on when it is
empty. `SetGroups` cannot fail the program (`proc_setgroups_write()` returns
after a message); `GidMap` fails where the kernel refuses it. The options are a
set, because the loop only collects them. `-i -m -n -p -u` count as one. A file
without `/proc/<pid>/setgroups` is covered by the constant `HasSetgroups`.

### GetNsIds

`Run` is a set of programs that share one socket name. Each has a father
(`getnsids()` and `main()`), a child (`child_getids()`) and a target process
that may end at any moment. Ids are small numbers; `TargetView` maps the
numbers of the target's namespaces to the kernel's ids, and the credentials of
a message are translated on both ends as unix(7) says: read in the namespaces of
the sender, shown in those of the receiver. `entered` holds the namespaces of
the father's `setns()` calls: the user namespace is the father's own from then
on, the pid namespace only that of its children. `bound` is the program whose
listening socket the name leads to; `Release` is what the kernel does to a
socket when its last holder closes it.

A signal may end the father or the child at any moment (`KillFather`,
`KillChild`, for the processes in `Killable`).

Abstracted: a gid goes the way of a uid; an unused field of the credentials is
`Overflow`; the buffer `recvmsg()` leaves after end of file may look like
credentials or not; the errors of `snprintf()` and `malloc()` lead where the
errors of the next call lead.

### Prodcons4

A process is one run of the program; a producer that is started again is
another member of `Producers`. It creates at most one segment and one semaphore,
so an object is called by its creator, and `shmName`, `semName` say which object
a name leads to. `idm`, `pShm` and `ids` are the program's static variables;
`stale` holds the ones that are closed (or MAP_FAILED) and not reset, which the
handler trips over. A SIGINT (`Interrupt`) may come between any two actions,
also between the return of `sem_open()` and the assignment to `ids` (`assign`,
`reassign`), and between an error message and its `return 1` (`return`). The
handler is two actions, one per name it removes; `signal()` keeps it from
interrupting itself. A segment holds nothing, a date with its newline (`raw`,
between lines 285 and 288), a date, or one that lost its last digit to a second
`Strip` (`cut`). `inside` is true from P() to V() and stays
true when a process dies in between: that is how a semaphore is lost.

The code asks whether an open without O_CREAT failed, not why. `Lookup` returns the
object of the name or, with `shm_lookup` and `sem_lookup` in `Faults`, also nothing:
the open with O_CREAT and without O_EXCL that follows (lines 207 and 246) then takes
the old object, `-d` or not. In a zone that somebody has erased, line 288 writes the
byte before the segment: the producer dies of it or nothing we know of is changed.

Abstracted: the text of the date; the bad parameters that end the program before
`signal()`; `sem_wait()` and `sem_post()` fail on nothing the program gives
them; `printf()` in the handler. After line 222 `ids` dangles: a second `sem_close()`
fails as it does in glibc, but when the new semaphore is there it may have the
old address, so both outcomes are possible.

### Execns

`sel`, `i` and `entered` are `ns_list[].selected`, the loop counter and what
`setns()` has entered. What the kernel decides is in three external operators:
`Visible` (does /proc show the target; behind the target's mount namespace it
shows other pids), `MayLook` (who may stat() and open() the namespace files) and
`MayEnter` (the privileges of `setns()`: root everywhere until it enters the user
namespace, and from then on only in what belongs to that one). `TargetDies` may
come between any two steps; if the target was the first process of its pid
namespace, no process can be created there afterwards and the child is killed.
The child is a second process with its own label. `fork()` = -1 is not looked
at by the code; only `waitpid()` fails then.

Abstracted: the namespaces have no identity beyond "the caller's" and "the
target's"; the pid of a target that has ended is not given to another process; `-h`
and the text of the options; the command is one step that ends
some day.

### Cmpns

One action per `stat()`, so that either process may end between the two. `rc` is
the variable of the program with both of its uses; `said` is what was printed
of each namespace. `NsNames` is `ns_name[]` in its order.

### Semns

Several programs run on the one `SEM_KEY`; each creates at most one semaphore,
which is called by the program. `adj` is the kernel's undo list: `P()` and `V()`
change it with SEM_UNDO, and `Undo` adds it to the semaphore when the process
ends or leaves its IPC namespace (`exit_sem()` in `unshare()`). `Reaches` says
when an identifier is good: not after IPC_RMID and not from another namespace.
`semV_destroy()` is two actions, as another program may create or remove a
semaphore in between, and so is `semV_init()` (created with 0, then set to 1). The
pipe holds messages; who holds its ends follows from the labels (`HasWriter`,
`HasReader`), since the code closes them at fixed places. A user who answers
nothing leaves the father in `getanswer()`, which reads for ever.

### Reaper

`captured` is the command line (SIGCHLD on it or not), `pending` and `handling`
are the kernel's one bit for SIGCHLD and the handler running; a signal that is
not captured is thrown away. `Fork` and `Assign` are two actions because the
handler may run between the return of `fork()` in the kernel and the store to
`pid_sh`. The handler's loop is one action per outcome of
`waitpid(-1, WNOHANG)`: a zombie (`Reap`), children that run (`ReapNone`), no
child (`NoChild`). `life` and `parent` are the kernel's process tree: the shell
starts tools (runs of `orphan`), these fork orphans, and whoever loses its
parent becomes a child of the reaper. `ReaperExit` is the end of the namespace.

Abstracted: the other signals of the command line print a line; `orphan` with a
bad parameter ends at once, like one with 0 orphans; sleeping times.

### ProdconsNs and DateChannel

The three programs have one shape, so they are one module: `kind` says what
carries the dates, and the few actions that differ (`MsgSnd`, `MqSend`, `MsgRcv`,
`MqReceive`, `MqUnlink`, `HandlerSysv`, `HandlerMq`, P() and V() around the
segment) have it in their guards. A producer creates at most one object, called by
the producer; `name` is the object under the key or the name of the first IPC
namespace, `removed` the System V objects after IPC_RMID (a segment stays for
those who have it attached), `away` the producers in a namespace of their own,
where no identifier, key or name of the first one is known. Dates are 1, 2, ...
in the order of the clock; `chan` holds what is in an object, `msg` what a consumer of
a queue has received and not displayed (`Receive` and `Display` are two actions), and
`shown` what each consumer has displayed. `Users` says which processes may be
started with which kind of object. SIGINT may come between any two actions, also between the
creation of the object and the assignment of its identifier.

`DateChannel` has channels and readers. A reader takes the oldest date of its channel
(`Take`) and displays what it holds (`Show`), or does both at once (`ShowInPlace`) when
the channel is a segment, where the semaphore makes them one. A date that nobody has
displayed is lost in three ways only: a newer one takes its place in a segment
(`Write`), the channel is removed, after which nothing is written to it (`Remove`, the
System V queue), or the reader that holds it ends (`End`). `DisplayedOnce` is what
follows for the user: each reader displays later and later dates, and none is
displayed twice. Nothing is promised about the order of the displays of two readers of
one queue, which the code does not give. The mapping calls a date waiting when
it is in the object and was not displayed: between the `printf()` and the
`memset()` of a segment's consumer the date is in the segment and displayed. A
consumer in its SIGINT handler has ended for the channel, because it displays nothing
any more.

Abstracted: the text of a date; `found` is forgotten after its only use; a
producer that starts while its predecessor runs is allowed or not by `alone`. A
consumer that waits for the semaphore of a segment before `sem_init()` resets it
may go on or sleep for ever, so nothing is claimed about its end. `shmat()`,
`mq_open()` and the semaphore fail on nothing but a missing object.

## 3. Runs

| Run | Question | Instance |
|---|---|---|
| `shns3_all` | What holds whatever fails and whoever is killed? The inductive invariant, the launcher's promise, who may leave a shell without maps or without its father, the order of mapper and go, termination | every command line of at most 3 options out of 12, 2 namespaces, all 11 calls may fail, all three processes killable |
| `userns_all` | the inductive invariant, the launcher's promise, who is to blame for a missing map, termination | all 64 sets of options, all faults, both processes killable, unprivileged parent |
| `getnsids_one` | Is the pid translated, is everything cleaned up, does the call return? | ids 0..3, both namespaces shared or not, all faults but stat, target may end, father and child killable |
| `getnsids_pair` | Does a success mean an answer, even from another program's child? | two programs, one id, four faults, fathers killable |
| `getnsids_uid` | violated: the uid is not translated | no faults |
| `prodcons4_restart` | Does a producer start on what the previous one left, on objects of its own, and does a consumer share the lock of the producer it reads from, and see whole dates? | 2 producers one after the other, each with or without -d, 2 consumers (alike) at any time, one producer interrupted and the other one killed anywhere |
| `prodcons4_overlap` | Is the semaphore conserved, does the handler clean up? | 2 producers at the same time, 1 consumer, all 6 calls may fail (1.9 million states, 3 minutes), one producer and the consumer interrupted anywhere |
| `execns_all` | Does the command run where it was asked to, who is refused what, does 0 mean that it ran, does the program end? | 11 command lines, every difference in ipc, pid, user, uts, mnt, 4 patterns of ownership, root, owner or other as caller, target ends anywhere, fork and exec may fail |
| `cmpns_result` | violated: a difference is lost in the exit status | all 128 differences, both processes end anywhere |
| `semns_pair` | Is the semaphore conserved, what does 0 mean, who may wait for ever? | 2 programs on one key, each with or without SEM_UNDO and with each answer, 4 faults, the processes of one program killable |
| `reaper_orphans` | Are all orphans reaped, why does the reaper end, and does it end with its shell? | 2 runs of orphan, 2 orphans, SIGCHLD captured or not, 3 faults |
| `prodconsns_all` | Is each program a channel of dates, is the lock conserved, does a restart work, what does the handler leave, does a consumer notice a removal? | 3 kinds of objects, 2 producers together or one after the other, 1 consumer (2 of the POSIX queue; 0.5 million states), 2 dates, 1 message in a System V queue, one producer and the consumer interrupted, the other producer killed |

Why the bounds are enough. Only the last `-n`, the presence of a `-u` and of a
`-g` and the first bad option matter to `shns3`: three options give every
combination of "both maps, user namespace or not" and of an error after valid
options, four-option lines add nothing but repetition (the proofs hold for any
list). Two namespaces, one of them `user`, give "none", "user only", "other
only" and "all". There are exactly three (two, four) processes in the programs.
Ids 0..3 give one that the target's namespace shows under another number, some
it does not show at all and the overflow number. Two programs are the least
that can share a socket name; with one id the run is about who answers whom.
Two producers and a consumer are the least for a restart under a consumer's feet
and for two producers on one segment, two consumers the least for one that erases
what the other is about to display and for two that share the dates of a queue. The
second consumer of `prodconsns_all` reads the POSIX queue only (`Users`): the
System V queue is read by the same two actions, and one consumer of a segment keeps
the other out by the semaphore, which `prodcons4_restart` has with two. More of them
is what the proofs are for.
With two dates an older one may follow a newer one and a segment may lose one; the
System V queue, which holds one message here, makes its producer wait, the POSIX
queue (two messages, `mq_maxmsg`) is never full with two dates. In `execns` the
names that matter are those with a role of their own (`user`, `pid`, `mnt`) and one
on each side of `user` in `ns_list[]` (`ipc`, `uts`). Two programs are the least
for one that destroys the semaphore of another. Two tools and two orphans give a
signal that stands for two ends and an end while the handler runs.
`Prodcons4` claims no liveness: a producer that posts and waits again at once
may keep the consumer out for ever, nothing in the code says otherwise.

`CHECK_DEADLOCK FALSE` stands where processes really may stop for ever or are
covered by a liveness property (`Termination`, `EndsOrDeaf`, `Ends`, `UndoEnds`,
`EndsWithShell`) that says more than the absence of deadlock.

Fairness. Weak fairness of each process, one `WF` per process: the kernel runs
every runnable process, and a blocking call that may return does. In `Reaper` the
orphans and the shell end some day, in `ProdconsNs` only
`MsgRcv` is fair, because the one liveness property there is about a `msgrcv()` that
may return; and in `Semns` a semaphore that is free now and
then promises nothing to who waits for it: `UndoEnds` and `StaysEnds` need no more,
because every process takes it a bounded number of times. `ShellEnds`
and `CommandEnds` are under it too: the user leaves the shell some day;
`Termination` says that nobody stays blocked *given that*. Signals, the end of
a target and the failure of a blocking call have no fairness: `MapperRuns`,
`ChildRuns` and `FatherRuns` leave `read()` and the like failing out, so that no
process gets out of a `read()` that never returns by an error that may never
come.

`EndsOrDeaf` says what is true of `getnsids`: every process ends, or the child
waits in `select()` for a connection that its father has not made and will not
make, because it failed or was killed before `connect()`, the father, if there is
one, waiting for it. `UndoEnds` has an exception too: a father that ended between
the two calls of `semV_init()` leaves a semaphore with the value 0, and whoever
finds it waits for ever.

## 4. What the runs found

Two runs are refuted by TLC, with the code in question:

1. `getnsids.c:530` moves the father into the target's user namespace before it
   sends the uid, which is then read there: no translation (`getnsids_uid`).
2. `cmpns.c:67` keeps the result of the program and of `stat()` in one variable: a
   namespace that differs is forgotten at the next one that does not, and the
   program exits with 0 (`cmpns_result`).

The other disagreements are behaviours of the passing runs. They are exceptions
in the properties, which say that there are no others:

* `shns3.c:537` waits for the mapper and ignores its status: the shell starts in a
  user namespace without maps when newuidmap or newgidmap fails.
  `UnmappedOnlyIfMapperFailed` shows that there is no other way to such a shell,
  short of killing the father; `userns_child_exec.c:102` exits on a map that cannot
  be written, and the exit is the signal the child waits for
  (`UnmappedOnlyIfParentFailed`).
* `shns3.c:398` takes end of file for a pid: when `pipe(sync2)`, `unshare()` or the
  second `fork()` fails, newuidmap runs on an uninitialised variable;
  `StrayMapperHasNoChild` bounds the harm.
* `getnsids.c:497` and four other error paths return 1, `main()` only knows -1 and
  prints the untranslated ids (`PidTranslated` is about rc = 0). A `stat()` that
  fails in `cmp_ns()` reads as "same namespace" (`getnsids.c:473`), hence its
  condition `target[r]`. `getnsids.c:675` waits for a child that waits for a
  connection (`Deaf` in `EndsOrDeaf`). A failed `listen()` leaves the socket name
  (`getnsids.c:465`, the exception in `NothingLeft`). Two programs with one
  `getpid()` may answer each other (`getnsids.c:451`). Three may do worse: the first
  is connected to the child of the second, whose `write()` fails, and reads end of
  file, while its own child answers the third and exits with 0. It returns 0 with
  the ids it was given (`getnsids.c:598-647`), so `SuccessMeansAnswer` promises an
  answer only to a father connected to its own child.
* `execns.c:155` takes the -1 of `cmp_ns()` for "same namespace" as well: for a
  target that ended, or a caller who may not look at it, the command runs where the
  caller is, and the program exits with 0 (the condition of `RunsWhereAsked`).
* `execns.c:36`: root that enters a user namespace loses the right to enter the
  namespaces behind it in `ns_list[]` that do not belong to it; `uts`, `cgroup` and
  `mnt` come behind (`RootRefusedOnlyBehindUser`).
* `reaper.c:170`: a shell that ends before `pid_sh` is assigned is reaped as a
  stranger. `EndsWithShell` shows that the reaper ends nevertheless, by the error of
  a `waitpid()` without children, with the status 1.
* `semns.c:257`: without SEM_UNDO a father that unshares its IPC namespace waits for
  a child that waits for the semaphore, which is what the program shows; `UndoEnds` and
  `StaysEnds` say that it takes that. `semns.c:59`: the semaphore without a value
  (`Stillborn`). `semns.c:285`: a father that has left the namespace always ends with
  an error of `P()`, the semaphore stays.
* In `prodcons4.c` a SIGINT between line 247 and its assignment leaves the semaphore
  although the handler exits with 0 (the exception in `CleanExit`), one between 269
  and 270 leaves both names, a consumer that attaches while a producer starts with
  `-d` gets the new segment with the old semaphore (the exception in
  `SharedMeansLocked`). That consumer takes a lock nobody else takes: it may erase a
  date between the look and the `printf()` of a second consumer, which displays an
  empty line (`prodcons4.c:339-344`, the condition of `WholeDate`). A producer that
  is refused and then interrupted removes the names of the one that runs. A first
  `shm_open()` or `sem_open()` that fails for want of resources lets a producer work on
  the objects another one left (`prodcons4.c:192`, 218, then 207, 246): `OwnObjects` and
  `WholeDate` are false then, and are checked and proved without these two failures
  (`SharedMeansLocked` too, as its proof needs the objects to be the producer's own). A
  zone erased by a process with another semaphore lets line 288
  write before the segment.
* In `prodcons.c`, `prodcons2.c` and `prodcons3.c` the handler of a producer in
  another IPC namespace cannot remove the object and says so, and one that comes
  before the identifier is assigned leaves a System V object with 0 (`CleanExit`).
  `mq_unlink()` removes the queue of whoever has the name (`prodcons3.c:59`). The
  consumer of a removed segment or POSIX queue waits for ever, that of a System V
  queue does not (`RemovalNoticed`). A consumer of a queue that ends between the
  receipt and the `printf()` takes that date with it (`prodcons2.c:159-166`,
  `prodcons3.c:172-179`), and of two consumers the one with the later date may display
  first (`IsChannel` allows these two and no more).

## 5. Proofs

All theorems hold for every set of command lines, of namespaces, of faults, of
processes and of killable ones, and for any number of programs, producers and
consumers. They rest on the `ConstantsAssumption` of the modules (the constants have
their types, sets of processes are disjoint, the set of orphans is finite, the ids of
a message are not the value for "none"), which TLC evaluates on every run, and a few
on an assumption of their own:

* `ShellMappedHolds`: a reliable mapper;
* `RestartInvariant`, `OwnObjectsHolds`, `SharedMeansLockedHolds`, `WholeDateHolds` and
  `RestartWorksHolds` of `Prodcons4_proofs`: producers do not run at the same time
  (`~Overlap`, as in `prodcons4_restart`; two that do remove each other's names, and
  a consumer gets the segment of one with the semaphore of the other), and the first
  `shm_open()` and `sem_open()` find what is there (`SureLookups`: the two faults
  `shm_lookup` and `sem_lookup` are not in `Faults`, every other one may be).
  `RestartWorksHolds` assumes instead that no call fails at all, since a failed `mmap()`
  is an error whatever was left. `LockInvariant`, `MutualExclusionHolds` and
  `CleanExitHolds` hold for every set of faults and with producers that overlap;
* `PidTranslatedHolds`: `stat()` does not fail, since the code takes a failure for
  "same namespace", and nobody else uses the socket name. `OwnPidTranslated` does
  without the second for a connection to one's own child.

The formulas were checked by TLC before they were proved: the properties on their
runs, the inductive invariants on the same instances.

| Theorem | States |
|---|---|
| `TypeCorrect` (`Shns3_proofs`) | `[]TypeOK` |
| `LaunchInvariant` (`Shns3_proofs`) | `[]LaunchInv`, the inductive invariant |
| `GoAfterMapperHolds` | the go is written only when the mapper is not alive |
| `FatherOutlivesShellHolds` | a father that was not killed outlives the child and its shell |
| `UnmappedOnlyIfMapperFailedHolds` | who is to blame for a shell without its maps |
| `ShellMappedHolds` | with a reliable mapper (its calls do not fail, nobody kills it or the father) the shell has its maps |
| `StrayMapperHasNoChildHolds` | a mapper that goes on without a pid has no child to map, unless the father was killed |
| `ImplementsLauncher` (`Shns3_proofs`) | every behaviour of `Shns3` starts and steps like `Launcher` |
| `LockInvariant` (`Prodcons4_proofs`) | `[]LockInv`: types, and semaphores conserved |
| `MutualExclusionHolds` | `[]MutualExclusion` of `Prodcons4` |
| `RestartInvariant` (`Prodcons4_proofs`) | what a producer finds and has, one after the other; `[]RestartInv` |
| `OwnObjectsHolds` | a producer works on the segment and the semaphore it made |
| `SharedMeansLockedHolds` | a consumer of its segment has its semaphore, unless `-d` came in between |
| `WholeDateHolds` | what is displayed is a date without its newline |
| `RestartWorksHolds` (`Prodcons4_proofs`) | with `-d` a producer starts on whatever was left |
| `CleanExitHolds` (`Prodcons4_proofs`) | what a handler that ends with 0 has removed, overlapping or not |
| `LaunchInvariant` (`UsernsChildExec_proofs`) | `[]LaunchInv`: types, the order of the clone, the go, the maps |
| `UnmappedOnlyIfParentFailedHolds` | who is to blame for a command without its maps |
| `ImplementsLauncher` (`UsernsChildExec_proofs`) | every behaviour of `UsernsChildExec` starts and steps like `Launcher` |
| `IdsInvariant` | `[]IdsInv` of `GetNsIds`: who listens, serves, answers, and with what |
| `TypeCorrect` (`GetNsIds_proofs`) | `[]TypeOK` |
| `NothingLeftHolds` | no child, no socket and, but for a failed `listen()`, no name is left |
| `SuccessMeansAnswerHolds` | 0 means a child that ended with 0, and its answer when connected to it |
| `PidTranslatedHolds` | a program alone on its name that returns 0 has the target's number of the pid |
| `OwnPidTranslated` | the same of any program connected to its own child |
| `LoopInvariant` | `[]LoopInv` of `Execns`: entered in order, skipped for good, 0 means that the child ended |
| `RunsWhereAskedHolds` | the command runs in exactly the namespaces asked for |
| `RootRefusedOnlyBehindUserHolds` | what the order of `ns_list[]` costs root: a refusal only behind the user namespace |
| `ReaperInvariant` | `[]ReaperInv`: no zombie is forgotten |
| `ExitsForAReasonHolds` | the two reasons for the end of the reaper (an action property) |
| `LockInvariant` (`ProdconsNs_proofs`) | `[]LockInv`: types, and the semaphore of a segment taken at most once |
| `RestartInvariant` (`ProdconsNs_proofs`) | `[]RestartInv`: what a producer that is alone knows about the name |
| `RestartWorksHolds` (`ProdconsNs_proofs`) | it gets an object of its own, whatever was left |
| `CleanExitHolds` (`ProdconsNs_proofs`) | what a handler leaves, and why one fails |
| `DatesInvariant` | `[]DatesInv`: dates in order and in one place, one in a segment, erased only once displayed |
| `DisplayedOnceHolds` | each consumer displays later and later dates, no date is displayed twice |
| `IsChannelHolds` | the refinement: `Spec => IsChannel`, `DateChannel` under the mapping |
| `SemInvariant` | `[]SemInv` of `Semns`: types, semaphores conserved, undo exact, messages counted |
| `AnswerAfterLockHolds` | the father's second P() comes after the child's |
| `OkCleansUpHolds` | 0 means that the semaphore is removed and the child has ended |

The invariant of the launch has five parts, none of which is inductive alone.
`ForkOrder` says which processes exist at which label of the father.
`EndsHeld` says who holds which end of the pipes; its surprising part is that
the child keeps both ends of `sync1` it inherited, so the write at line 530
always finds a reader and SIGPIPE cannot kill the father and leave the child
behind: `FatherOutlivesShell` rests on it. `GoGiven` says that the child is past
its read only when the father has written or is gone, `MapperWork` what a mapper
that ended well has done, and `WellPlaced` that the mapper stays outside the new
namespaces and the child inside, which is why newuidmap can work. Each part has
its lemma, one step per action; `LaunchInvariant` combines them.
`ImplementsLauncher` adds `EndsWell` (a process that ended has a status, and a
father that ended well has no mapper left) and maps each action to a step of
`Launcher` or to a stuttering step. `StrayMapperHasNoChild` needs `PidComes`: the
mapper that waits holds the read end of its pipe, and the father that forked the
child has written the pid or is on its way to `write()`, unless it was killed.

In `Prodcons4`, `LockConserved` (a taken semaphore has exactly one owner) is not
inductive: `PlaceInv` adds that only processes between P() and V() are inside,
`MadeInv` that a semaphore in anybody's hands is made and that nobody makes a
second one, which would free the first. `StepKinds` sorts the actions by what
they do to semaphores, and `LockKept` has one case per kind.

`RestartInv` is about producers that do not overlap. `OwnPlaces` says what each step of
the start-up knows: nothing is under the name when the segment is created with
O_EXCL, `idm`, `ids` and `pShm` are the producer's own from the call that assigns
them. `Paired` says which semaphore goes with a segment a consumer knows, and why
`-d` is the only exception: between `shm_unlink()` and `sem_unlink()` the old
semaphore is still under its name. `Contents` says that a segment is empty until
its producer's loop, and that a date keeps its newline only while the producer is
at `strip` or ended there with the semaphore. `WholeDate` is proved next to it, step
by step, because a consumer that may print has just seen the date, and everybody
who could change it needs the same semaphore (`MutualExclusionHolds`).
`CleanInv` (no assumption) follows the handler: between its two removals the
segment's name is already gone, and no step of another process can bring it back.

The invariant of `UsernsChildExec` is the small sister of the one of `Shns3`:
`CloneOrder`, `GoGiven` (a child past its read means that the parent has closed its
end or is gone) and `MapsWritten` (which maps exist at which label).

`GetNsIds`: the invariant has six parts beside the types. `Processes` says that the
father forks once and does not report while its child runs, `Listening` who holds
the listening socket and what the name leads to: `NothingLeft` follows from these
two. `Connections` says that only the child a father connected to ever serves it.
`Answers` is the core: a child answers once, exactly the ids it was sent, and a
connection closes under its father only when the child that served it has ended.
`Readings` adds what a father that got to 0 has seen, the answer or an end of file
behind which no answer comes. For its own child the second is impossible: it ended
with 0, hence it answered, and only one connection is served; that is the argument
of `SuccessMeansAnswer`. `Credentials` follows the numbers through the kernel:
what the father named, seen from the child's namespaces. `Entered` says that the
father is in the target's pid namespace exactly when it is not its own; a child
inherits it, and `PidTranslated` is the conclusion. The same argument fails for the
uid where the code does: the father has entered the user namespace before it
names the uid.

`Execns`: `RunsWhereAsked` alone is not inductive, because it says nothing before
the command runs. `EnteredBehind` says that only wanted namespaces behind the
loop counter are entered, `SkippedForGood` that a wanted one was only skipped when
the target cannot be looked at any more: then it never can again, so nothing else is
entered. At the end of the loop the two give "exactly". `RootRefusedOnlyBehindUser`
follows step by step from the same invariant: `mnt` is the last name, so root
finds `/proc` of the target until the loop ends.

`Reaper`: `NoZombieForgotten` (a zombie of the reaper is announced by a signal or
about to be found) needs to know that the shell is a child of the reaper from
`fork()` on and that nobody is his own parent (`Places`). The reasons for the end
follow from the invariant and the step.

`ProdconsNs`: `LockKept` needs to know who is inside (`LockPlaces`), that a segment
is initialised once, before which nobody is inside it, and that a producer only
works on its own object (`Roles`). `Lonely` has, for producers that run one after
the other, what each one finds at `remove` and `create` and that a removed object
belongs to a producer that ended; `RestartWorks` and `CleanExit` are inductive with it.
`DatesInv` carries the refinement. `Sorted` says that dates increase in an object and on
a screen, `Past` that none is in the future, `Apart` that a date is in one place: in an
object, held by one consumer or on one screen. `Behind` orders the places of one
consumer: its screen, then the date it holds, then what is in its object; this is what
makes the next date it displays a later one. The one exception to both is a segment
whose date was displayed and is about to be erased (`BeingErased`), and the semaphore
(`LockInv`) keeps everybody else away from it. `OneDate`, `EmptyAtStart`, `Erased` (what
is erased was displayed), `OpenedOnce` and `OnlySegments` complete it. `DateSteps` sorts
the actions into nine kinds by what they do to the dates (`SomeStep`), and each kind is
a step of `DateChannel` or leaves its variables alone (`ChannelStep`). `DisplayedOnce`
follows from `Sorted` and `Apart`.

`Semns`: `Conserved` rests on three parts. `Holders` says at which labels a process
has the semaphore, `Objects` that no semaphore is created twice or given its value
while somebody holds it, `Adjusted` that the kernel's adjustment of a process is 1
exactly when it is inside with SEM_UNDO: then the end of a process gives back what it
took, no more. `Messages` counts what is in the pipe, which bounds it and gives
`AnswerAfterLock`; `Cleaned` follows the semaphore through the second
`semV_destroy()`, in which another program may have been faster.

Every invariant and every action property of the passing runs has its theorem.
Checked by TLC only: liveness (`Termination`, `EndsOrDeaf`, `Ends`, `ZombiesReaped`,
`EndsWithShell`, `UndoEnds`, `StaysEnds`, `RemovalNoticed`, the fairness part of
`IsLauncher`), because ENABLED and fairness are outside the prover. What
`UidTranslated` and `ZeroMeansEqual` say is false of the code.

## 6. Not modelled

* The queries `idns.c`, `linfo.c`, `fsinfo.c`, `ownerns.c`, `parentns.c`: they print
  what `stat()` and `ioctl()` return and keep nothing.
* `sem.c`, `shmns.c`, `pmsg.c`: one call after the other on one IPC object, to show
  its identifier in a namespace; what is concurrent about such objects is in
  `Semns`, `Prodcons4` and `ProdconsNs`.
* `sigwait.c`, `multi-th.c`, `pid.c`, `pause.c`: one blocking call in a loop, or
  threads that print their ids.
* The first launchers `shns.c`, `shns2.c`, `clonens.c`, `enter_pidns_up.c`,
  `setnshost.c`, `userns.c`: the single steps that `shns3.c` and `execns.c` combine.
* `udpsrv.c`, `udpcli.c`, `socket.c`, `rebootns.c`, and the LXC scripts: one call or
  command after the other.
* Of the modelled programs: usage texts, printed lines and the syntax of numbers, maps
  and names. `is_pid()`, `is_integer()` and `is_ns_name()` appear as what they
  decide.

## 7. Plan

Done: the plan of the first version, in its order (`Launcher`, `Shns3`,
`UsernsChildExec`, `GetNsIds`, `Prodcons4`, then `Execns`, `Cmpns`, `Semns`,
`Reaper`, the variants of the producer and the consumer on `DateChannel`, and the
proofs). The inductive invariants of `GetNsIds`, of the restarts in
`Prodcons4` and `ProdconsNs`, and the refinement of `DateChannel` followed. Left, in the
order of what they would add:

1. the safety half of `EndsOrDeaf` (who can wait for whom) and of `UndoEnds` as
   invariants, with proofs;
2. `WholeDate` for producers that overlap, where the condition has to name the
   semaphore of every process that has the segment;
3. what `cmpns.c` does tell the truth about: the last namespace that is compared.
