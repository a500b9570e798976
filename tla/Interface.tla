----------------------------- MODULE Interface -----------------------------
(***************************************************************************)
(* The object interface layer that the data-transfer and job-control      *)
(* protocols are built on.  Its implementation (interface.c) is not part   *)
(* of this repository's sources, so every operator here is written from   *)
(* the specification (sections 3 and 4.1): an interface has a plug link to *)
(* exactly one peer, or to the null interface; plug and unplug change the  *)
(* links of both sides; an operation is looked up in the descriptor of the *)
(* peer; a shut-down interface no longer accepts operations.               *)
(*                                                                         *)
(* The operators take the link map and the set of nullified interfaces as *)
(* arguments, so that a composing module can apply them inside one step.   *)
(***************************************************************************)
LOCAL INSTANCE Naturals
LOCAL INSTANCE FiniteSets

CONSTANTS
  Intf,          \* the interfaces embedded in the modelled objects
  NullIntf,      \* the null interface: no operations, plugged to itself
  Owner,         \* Owner[i]: the object whose refcount interface i shares
  Ops,           \* Ops[i]: the operations in the descriptor of interface i
  PlugHoldsRef   \* does a plug link hold a reference on the peer's owner?

ASSUME NullIntf \notin Intf
ASSUME PlugHoldsRef \in BOOLEAN

AllIntf == Intf \cup {NullIntf}

(* The interface a link map says i is plugged to (intf->dest).           *)
Dest(peer, i) == IF i = NullIntf THEN NullIntf ELSE peer[i]

(* intf_plug_plug(a, b): each side now names the other as destination.   *)
PlugPlug(peer, a, b) == [peer EXCEPT ![a] = b, ![b] = a]

(* Unplug i: i and, if it still points back, its peer, are plugged to    *)
(* the null interface.  Unplugging the null interface changes nothing.   *)
Unplug(peer, i) ==
  IF i = NullIntf THEN peer
  ELSE LET j == peer[i]
       IN [k \in DOMAIN peer |->
             IF k = i \/ (j # NullIntf /\ k = j /\ peer[j] = i)
             THEN NullIntf ELSE peer[k]]

(* intf_get_dest_op lookup: the descriptor of d implements op.  The null *)
(* interface and a nullified (shut-down) interface implement nothing.    *)
HasOp(nullified, d, op) ==
  d # NullIntf /\ d \notin nullified /\ op \in Ops[d]

(* References that the plug links of a link map hold on object obj.      *)
LinkRefs(peer, obj) ==
  IF PlugHoldsRef
  THEN Cardinality({i \in Intf : peer[i] # NullIntf /\ Owner[peer[i]] = obj})
  ELSE 0

(* The pin intf_get(dest) takes on obj for the duration of a call.       *)
PinRefs(d, obj) == IF d # NullIntf /\ Owner[d] = obj THEN 1 ELSE 0

=============================================================================
