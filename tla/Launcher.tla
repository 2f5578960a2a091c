------------------------------ MODULE Launcher ------------------------------
(***************************************************************************)
(* What the launchers of the repository promise (shns3.c and               *)
(* userns_child_exec.c): a command is started in new namespaces, and when  *)
(* the new user namespace needs id maps, all of them are in place before   *)
(* the command starts and none is written after.  A process that fails or  *)
(* is killed is the trouble that frees a launcher from its promise; without *)
(* trouble an accepted launch gets to its command.                         *)
(***************************************************************************)
CONSTANT Map            \* the kinds of id maps ("uid", "gid")

VARIABLES
  need,                 \* the maps asked for
  done,                 \* the maps the new user namespace has
  cmd,                  \* where the command stands
  trouble               \* whether a process of the launcher failed or was killed

vars == <<need, done, cmd, trouble>>

(* The state of a launch keeps to its type. *)
TypeOK ==
  /\ need \subseteq Map
  /\ done \subseteq Map
  /\ cmd \in {"idle", "setup", "running", "ended", "failed"}
  /\ trouble \in BOOLEAN

Init ==
  /\ need = {}
  /\ done = {}
  /\ cmd = "idle"
  /\ trouble = FALSE

(* The command line is read: `need' is fixed when the launch is accepted. *)
Ask ==
  /\ cmd = "idle"
  /\ cmd' \in {"idle", "setup", "failed"}
  /\ need' \in SUBSET Map
  /\ trouble' \in {trouble, cmd' = "failed"}
  /\ UNCHANGED done

(* One of the maps asked for is written, before the command runs. *)
WriteMap(m) ==
  /\ cmd = "setup" \/ trouble
  /\ m \in need \ done
  /\ done' = done \cup {m}
  /\ UNCHANGED <<need, cmd, trouble>>

Start ==
  /\ cmd = "setup"
  /\ done = need \/ trouble
  /\ cmd' = "running"
  /\ UNCHANGED <<need, done, trouble>>

End ==
  /\ cmd = "running"
  /\ cmd' = "ended"
  /\ UNCHANGED <<need, done, trouble>>

(* Trouble, with or without the end of the launch. *)
Trouble ==
  /\ trouble' = TRUE
  /\ \/ UNCHANGED cmd
     \/ cmd \in {"setup", "running"} /\ cmd' = "failed"
  /\ UNCHANGED <<need, done>>

Next == Ask \/ (\E m \in Map : WriteMap(m)) \/ Start \/ End \/ Trouble

(* A launch is never left half way: it moves on until it ended or failed. *)
Progress == (Ask \/ Start \/ End \/ Trouble) /\ cmd' # cmd

Spec == Init /\ [][Next]_vars /\ WF_vars(Progress)

=============================================================================
