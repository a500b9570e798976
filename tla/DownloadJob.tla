----------------------------- MODULE DownloadJob -----------------------------
(***************************************************************************)
(* What create_downloader promises the requester that owns the job        *)
(* interface, with the interfaces, the call stack and the byte-by-byte     *)
(* buffer left out.  The job is started or fails to start; while it is    *)
(* open the served file may be registered, once; the job then ends either  *)
(* by a single close whose status is success exactly when registration    *)
(* succeeded, or by the requester cancelling it, after which nothing is   *)
(* registered.  The downloader object goes away only once the job has     *)
(* ended.                                                                 *)
(***************************************************************************)
EXTENDS Sequences

CONSTANTS
  File,      \* the bytes the transport serves
  OK,        \* the success status
  Statuses   \* the statuses a call may return

VARIABLES
  phase,       \* "idle", "open", "failed", "cancelled", "closed"
  registered,  \* calls of register_image: the image and its result
  result,      \* the status the requester was given
  freed        \* the downloader object has been freed

vars == <<phase, registered, result, freed>>

Succeeded == \E k \in DOMAIN registered : registered[k].rc = OK

Init ==
  /\ phase = "idle"
  /\ registered = << >>
  /\ result = OK
  /\ freed = FALSE

(* create_downloader returns 0: the job is running.                       *)
Start ==
  /\ phase = "idle"
  /\ phase' = "open"
  /\ UNCHANGED <<registered, result, freed>>

(* create_downloader returns an error; the object, if it was allocated,   *)
(* may already be gone.                                                   *)
StartFails(rc) ==
  /\ phase = "idle"
  /\ rc # OK
  /\ phase' = "failed"
  /\ result' = rc
  /\ freed' \in BOOLEAN
  /\ UNCHANGED registered

(* The whole file is registered, at most once, while the job is open.    *)
Register(rc) ==
  /\ phase = "open"
  /\ registered = << >>
  /\ registered' = << [image |-> File, rc |-> rc] >>
  /\ UNCHANGED <<phase, result, freed>>

(* The job is closed once, with success exactly when registration did.   *)
Close(rc) ==
  /\ phase = "open"
  /\ rc = OK <=> Succeeded
  /\ phase' = "closed"
  /\ result' = rc
  /\ UNCHANGED <<registered, freed>>

(* The requester shuts its job interface down.                           *)
Cancel ==
  /\ phase = "open"
  /\ phase' = "cancelled"
  /\ UNCHANGED <<registered, result, freed>>

(* The last reference goes once the job has ended.                       *)
Free ==
  /\ ~freed
  /\ phase \in {"failed", "cancelled", "closed"}
  /\ freed' = TRUE
  /\ UNCHANGED <<phase, registered, result>>

Next ==
  \/ Start
  \/ \E rc \in Statuses : StartFails(rc) \/ Register(rc) \/ Close(rc)
  \/ Cancel
  \/ Free

Spec == Init /\ [][Next]_vars

==============================================================================
