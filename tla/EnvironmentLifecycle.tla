------------------------ MODULE EnvironmentLifecycle ------------------------
(***************************************************************************)
(* What the service promises about its environment to those who ask for    *)
(* /environment while reloads do not overlap, without the threads, the     *)
(* pools and the processes: an environment is taken away only when someone *)
(* asked for that, once, and never comes back; each reload ends with an    *)
(* environment of an id never seen before, initialized or in error; and a  *)
(* client is told of another environment only when there has been another  *)
(* since it asked.                                                         *)
(***************************************************************************)
CONSTANTS Ids, FirstId, Clients

VARIABLES
  environment,  \* the id of the environment
  health,       \* initialized, error or neither
  reloading,    \* whether a reload was asked for that has not ended
  past,         \* the ids seen so far
  client,       \* what the clients are doing, or how that ended
  renewed       \* those who are waiting and for whom there is another environment

lifecycleVars == <<environment, health, reloading, past, client, renewed>>

Waiting == {c \in Clients : client[c] = "polling"}

Init ==
  /\ environment = FirstId /\ past = {FirstId}
  /\ health \in {"initialized", "error"}
  /\ reloading = FALSE
  /\ client = [c \in Clients |-> "idle"]
  /\ renewed = {}

\* A client asks for a reload and begins to wait.
Ask(c) ==
  /\ c \notin Waiting /\ ~reloading
  /\ reloading' = TRUE
  /\ client' = [client EXCEPT ![c] = "polling"]
  /\ UNCHANGED <<environment, health, past, renewed>>

\* The environment is gone, or what is left of it could not be removed.
TakeAway ==
  /\ reloading /\ health = "initialized"
  /\ health' \in {"neither", "error"}
  /\ UNCHANGED <<environment, reloading, past, client, renewed>>

\* Another environment is there, for all who wait.
Renew(e) ==
  /\ reloading /\ health # "initialized" /\ e \notin past
  /\ environment' = e /\ past' = past \cup {e}
  /\ health' \in {"initialized", "error"}
  /\ reloading' = FALSE
  /\ renewed' = Waiting
  /\ UNCHANGED client

\* A client is told of an error, of another environment, or gives up.
Answer(c) ==
  /\ c \in Waiting
  /\ \/ health = "error" /\ client' = [client EXCEPT ![c] = "raised"]
     \/ health = "initialized" /\ c \in renewed /\ client' = [client EXCEPT ![c] = "returned"]
     \/ client' = [client EXCEPT ![c] = "timed out"]
  /\ renewed' = renewed \ {c}
  /\ UNCHANGED <<environment, health, reloading, past>>

Next ==
  \/ TakeAway
  \/ \E e \in Ids : Renew(e)
  \/ \E c \in Clients : Ask(c) \/ Answer(c)

Spec == Init /\ [][Next]_lifecycleVars
=============================================================================
