---------------------------- MODULE Downloader ----------------------------
(***************************************************************************)
(* The image downloader (src/core/downloader.c) wired into its two peers:  *)
(* a transport that create_downloader opened on the downloader's xfer      *)
(* interface, and the requester whose job interface the downloader plugs  *)
(* to its own job interface.  The data-transfer operations it uses are    *)
(* those of src/core/xfer.c; the interface layer is the Interface module.  *)
(*                                                                         *)
(* Execution is single threaded.  The requester and the transport start a  *)
(* call only when no call is running (stack = <<>>); a call that reaches   *)
(* a close handler of another object runs that handler as a nested frame   *)
(* on an explicit call stack, so re-entrant calls through the plug graph   *)
(* are steps of the model, each one atomic between two calls.             *)
(***************************************************************************)
EXTENDS Integers, Sequences, FiniteSets, Functions, TLC

CONSTANTS
  File,              \* the file the transport serves: a sequence of bytes
  Undef,             \* a buffer byte urealloc added and nobody wrote
  SizeBits,          \* width in bits of size_t and off_t
  ChunkLens,         \* payload lengths a transport delivers (0: xfer_seek)
  MaxDelivers,       \* bound: deliveries the transport makes in a run
  MaxDepth,          \* bound: depth of nested interface calls
  PlugHoldsRef,      \* a plug link holds a reference on the peer's owner
  NullifyOnShutdown, \* intf_shutdown blocks operations on the interface
  TransportChecksRc, \* the transport closes when xfer_deliver fails (it
                     \* always does when its own alloc_iob fails)
  Transports,        \* the transport objects xfer_vopen may plug in; each
                     \* is named by its xfer interface
  BadOffsets,        \* offsets a transport may put in SEEK_SET metadata
                     \* besides the file position of the data it sends
  ReopenMayFail,     \* xfer_vopen of a redirect may fail
  RedirectAfterData  \* a transport may redirect after it delivered data

ASSUME Undef \notin Range(File)
ASSUME SizeBits \in Nat \ {0} /\ ChunkLens \subseteq Nat
ASSUME MaxDelivers \in Nat /\ MaxDepth \in Nat \ {0}
ASSUME {NullifyOnShutdown, TransportChecksRc, ReopenMayFail,
        RedirectAfterData} \subseteq BOOLEAN
ASSUME Transports # {} /\ BadOffsets \subseteq Nat

(* Status codes; the model only tells success from each kind of error.   *)
OK == "OK"
ENOMEM == "ENOMEM"
ENOBUFS == "ENOBUFS"
EPIPE == "EPIPE"
ECANCELED == "ECANCELED"
EREGISTER == "EREGISTER"
EOPEN == "EOPEN"
ETRANSPORT == "ETRANSPORT"

SEEK_SET == "SEEK_SET"
SEEK_CUR == "SEEK_CUR"

(* size_t arithmetic wraps modulo 2^SizeBits.                            *)
SizeMod == 2 ^ SizeBits

(* The interfaces of the objects, and the descriptor of each.  A        *)
(* transport is identified with its xfer interface.                      *)
DlJob == "dl_job"
DlXfer == "dl_xfer"
RqJob == "rq_job"
NullIntf == "null_intf"
Intfs == {DlJob, DlXfer, RqJob} \cup Transports

Owner == [i \in Intfs \cup {NullIntf} |->
            CASE i \in {DlJob, DlXfer} -> "downloader"
              [] i \in Transports      -> "transport"
              [] i = RqJob             -> "requester"
              [] OTHER                 -> "null"]

(* downloader_xfer_operations and downloader_job_op; the transports and  *)
(* the requester are known only to implement intf_close.  No descriptor  *)
(* implements xfer_vredirect, xfer_window or xfer_alloc_iob.             *)
Ops == [i \in Intfs |->
          CASE i = DlXfer -> {"xfer_deliver", "intf_close"}
            [] i = DlJob  -> {"job_progress", "intf_close"}
            [] OTHER      -> {"intf_close"}]

I == INSTANCE Interface WITH Intf <- Intfs

VARIABLES
  peer,        \* peer[i]: the interface i is plugged to (intf->dest)
  nullified,   \* interfaces intf_shutdown has blocked
  refcnt,      \* downloader->refcnt, as a count of references held
  dl,          \* lifecycle of the downloader object
  image,       \* downloader->image->data, a sequence of bytes
  pos,         \* downloader->pos
  registered,  \* the calls of register_image: image passed and result
  stack,       \* the frames of the running call, innermost last
  tr,          \* tr[t]: transport t's state, its own position, bytes sent
  ndeliv,      \* deliveries made so far (bounded by MaxDelivers)
  rq,          \* the requester: state, close calls received, result
  progress,    \* the last report job_progress returned to the requester
  overrun      \* a copy_to_user has written past the end of the image

vars == <<peer, nullified, refcnt, dl, image, pos, registered, stack,
          tr, ndeliv, rq, progress, overrun>>

(* The transports xfer_vopen has not used yet.                           *)
IdleTransports == {t \in Transports : tr[t].state = "idle"}

(***************************************************************************)
(* The call stack.  A frame is the activation of one function; pc says    *)
(* where it resumes after the frame above it returns.                      *)
(***************************************************************************)
Frame(fn, i, rc) == [fn |-> fn, pc |-> "begin", intf |-> i,
                     dest |-> NullIntf, rc |-> rc]
Top == stack[Len(stack)]
Goto(f) == stack' = [stack EXCEPT ![Len(stack)] = f]
Call(f, callee) ==
  /\ Len(stack) < MaxDepth
  /\ stack' = Append([stack EXCEPT ![Len(stack)] = f], callee)
Return == stack' = SubSeq(stack, 1, Len(stack) - 1)

(* Set the links to p and move the refcount by the references the links  *)
(* gain or lose plus delta; ref_put reaching zero runs downloader_free,  *)
(* which also drops the image reference.                                 *)
(* Mutant: ref_put frees the object one reference early.               *)
RefUpdateFreeEarly(p, delta) ==
  LET n == refcnt + I!LinkRefs(p, "downloader")
                  - I!LinkRefs(peer, "downloader") + delta
  IN /\ peer' = p
     /\ refcnt' = n
     /\ dl' = IF dl = "live" /\ n <= 1 THEN "freed" ELSE dl

(* Mutant: the last ref_put never runs downloader_free.                  *)
RefUpdateNoFree(p, delta) ==
  LET n == refcnt + I!LinkRefs(p, "downloader")
                  - I!LinkRefs(peer, "downloader") + delta
  IN /\ peer' = p
     /\ refcnt' = n
     /\ dl' = dl

RefUpdate(p, delta) ==
  LET n == refcnt + I!LinkRefs(p, "downloader")
                  - I!LinkRefs(peer, "downloader") + delta
  IN /\ peer' = p
     /\ refcnt' = n
     /\ dl' = IF dl = "live" /\ n <= 0 THEN "freed" ELSE dl

(* intf_get(dest) / intf_put(dest) around a dispatched operation.        *)
intf_get(d) == I!PinRefs(d, "downloader")
intf_put(d) == - I!PinRefs(d, "downloader")

(* The close handler of the object that owns interface d.                *)
CloseHandler(d, rc) ==
  Frame(CASE Owner[d] = "downloader" -> "downloader_finished"
          [] Owner[d] = "transport"  -> "transport_close"
          [] OTHER                   -> "requester_close", d, rc)

(***************************************************************************)
(* The interface layer's shutdown, as a two-step frame "intf_shutdown":    *)
(* begin: block the interface, pin the peer and call its close handler    *)
(* (or apply the default, which unplugs the peer); unplug: release the pin *)
(* taken on the peer read at begin, and sever the link.                    *)
(***************************************************************************)
(* Mutant: shutdown leaves the interface accepting operations.          *)
intf_nullify_skipped(n, i) == n

intf_nullify(n, i) == n \cup {i}

ShutdownPutDest(f) == f.dest

intf_shutdown_close(f) ==
  LET nul == IF NullifyOnShutdown THEN intf_nullify(nullified, f.intf)
                                  ELSE nullified
      d   == I!Dest(peer, f.intf)
      g   == [f EXCEPT !.pc = "unplug", !.dest = d]
  IN /\ f.fn = "intf_shutdown" /\ f.pc = "begin"
     /\ nullified' = nul
     /\ IF I!HasOp(nul, d, "intf_close")
        THEN /\ Call(g, CloseHandler(d, f.rc))
             /\ RefUpdate(peer, intf_get(d))
        ELSE /\ Goto(g)
             /\ RefUpdate(I!Unplug(peer, d), intf_get(d))
     /\ UNCHANGED <<image, pos, registered, tr, ndeliv, rq, progress, overrun>>

intf_shutdown_unplug(f) ==
  /\ f.fn = "intf_shutdown" /\ f.pc = "unplug"
  /\ RefUpdate(I!Unplug(peer, f.intf), intf_put(ShutdownPutDest(f)))
  /\ Return
  /\ UNCHANGED <<nullified, image, pos, registered, tr, ndeliv, rq, progress, overrun>>

(***************************************************************************)
(* downloader_finished: register the image if the download succeeded; the *)
(* registration result replaces rc; then shut down xfer, then job, with rc.*)
(***************************************************************************)
(* Mutant: the result of register_image is not propagated.              *)
register_result_ignored(rc, regRc) == rc

register_result(rc, regRc) == IF rc = OK THEN regRc ELSE rc

(* Mutant: the image is registered whatever the reason for termination.  *)
RegisterWantedAlways(rc) == TRUE

(* if ( rc == 0 ): only a successful download is registered.             *)
RegisterWanted(rc) == rc = OK

downloader_finished_register(f) ==
  /\ f.fn = "downloader_finished" /\ f.pc = "begin"
  /\ \E regRc \in {OK, EREGISTER} :
       LET rc == register_result(f.rc, regRc)
       IN /\ registered' = IF RegisterWanted(f.rc)
                           THEN Append(registered, [image |-> image, rc |-> regRc])
                           ELSE registered
          /\ Call([f EXCEPT !.pc = "shutdown_job", !.rc = rc],
                  Frame("intf_shutdown", DlXfer, rc))
  /\ UNCHANGED <<peer, nullified, refcnt, dl, image, pos, tr, ndeliv, rq,
                 progress, overrun>>

(* Mutant: downloader_finished never shuts down the job interface.      *)
downloader_finished_shutdown_job_skipped(f) ==
  /\ f.fn = "downloader_finished" /\ f.pc = "shutdown_job"
  /\ Goto([f EXCEPT !.pc = "return"])
  /\ UNCHANGED <<peer, nullified, refcnt, dl, image, pos, registered, tr,
                 ndeliv, rq, progress, overrun>>

downloader_finished_shutdown_job(f) ==
  /\ f.fn = "downloader_finished" /\ f.pc = "shutdown_job"
  /\ Call([f EXCEPT !.pc = "return"], Frame("intf_shutdown", DlJob, f.rc))
  /\ UNCHANGED <<peer, nullified, refcnt, dl, image, pos, registered, tr,
                 ndeliv, rq, progress, overrun>>

(* A frame that has nothing left to do returns to its caller.            *)
FrameReturn(f) ==
  /\ f.pc = "return"
  /\ Return
  /\ UNCHANGED <<peer, nullified, refcnt, dl, image, pos, registered, tr,
                 ndeliv, rq, progress, overrun>>

(***************************************************************************)
(* The close handlers of the peers.  Their code is not in this repository; *)
(* each records the close and then either shuts down its own interface     *)
(* (which sends a close back through the link) or only unplugs it.         *)
(***************************************************************************)
PeerCloses(f, i) ==
  \/ /\ Call([f EXCEPT !.pc = "return"], Frame("intf_shutdown", i, f.rc))
     /\ UNCHANGED <<peer, refcnt, dl>>
  \/ /\ RefUpdate(I!Unplug(peer, i), 0)
     /\ Return

transport_close_handler(f) ==
  /\ f.fn = "transport_close" /\ f.pc = "begin"
  /\ tr' = [tr EXCEPT ![f.intf].state = "closed"]
  /\ PeerCloses(f, f.intf)
  /\ UNCHANGED <<nullified, image, pos, registered, ndeliv, rq, progress, overrun>>

requester_close_handler(f) ==
  /\ f.fn = "requester_close" /\ f.pc = "begin"
  /\ rq' = [rq EXCEPT !.state = "done", !.closes = @ + 1, !.rc = f.rc]
  /\ PeerCloses(f, RqJob)
  /\ UNCHANGED <<nullified, image, pos, registered, tr, ndeliv, progress, overrun>>

(***************************************************************************)
(* xfer_vredirect, called by a transport on its own interface: the        *)
(* destination is pinned; no descriptor implements xfer_vredirect, so the *)
(* default xfer_vreopen(dest) runs; then the pin is released.             *)
(* xfer_vreopen (open.c, not in this repository) restarts dest            *)
(* (intf_restart: intf_shutdown with -EPIPE, then the descriptor that     *)
(* intf_shutdown nullified is put back) and then xfer_vopen plugs dest to *)
(* a new transport, or fails and returns its error.                       *)
(***************************************************************************)
xfer_vredirect_begin(f) ==
  LET d == I!Dest(peer, f.intf)
  IN /\ f.fn = "xfer_vredirect" /\ f.pc = "begin"
     /\ Call([f EXCEPT !.pc = "put", !.dest = d], Frame("xfer_vreopen", d, EPIPE))
     /\ RefUpdate(peer, intf_get(d))
     /\ UNCHANGED <<nullified, image, pos, registered, tr, ndeliv, rq, progress,
                    overrun>>

xfer_vredirect_put(f) ==
  /\ f.fn = "xfer_vredirect" /\ f.pc = "put"
  /\ RefUpdate(peer, intf_put(f.dest))
  /\ Return
  /\ UNCHANGED <<nullified, image, pos, registered, tr, ndeliv, rq, progress,
                 overrun>>

xfer_vreopen_restart(f) ==
  /\ f.fn = "xfer_vreopen" /\ f.pc = "begin"
  /\ Call([f EXCEPT !.pc = "open"], Frame("intf_shutdown", f.intf, f.rc))
  /\ UNCHANGED <<peer, nullified, refcnt, dl, image, pos, registered, tr, ndeliv,
                 rq, progress, overrun>>

intf_restart_desc(n, i) == n \ {i}

xfer_vreopen_open(f) ==
  /\ f.fn = "xfer_vreopen" /\ f.pc = "open"
  /\ nullified' = intf_restart_desc(nullified, f.intf)
  /\ \/ /\ IdleTransports # {}
        /\ LET t == CHOOSE x \in IdleTransports : TRUE
           IN /\ RefUpdate(I!PlugPlug(peer, f.intf, t), 0)
              /\ tr' = [tr EXCEPT ![t].state = "open"]
     \/ /\ ReopenMayFail
        /\ UNCHANGED <<peer, refcnt, dl, tr>>
  /\ Return
  /\ UNCHANGED <<image, pos, registered, ndeliv, rq, progress, overrun>>

Step ==
  /\ stack # <<>>
  /\ \/ intf_shutdown_close(Top)
     \/ intf_shutdown_unplug(Top)
     \/ downloader_finished_register(Top)
     \/ downloader_finished_shutdown_job(Top)
     \/ transport_close_handler(Top)
     \/ requester_close_handler(Top)
     \/ xfer_vredirect_begin(Top)
     \/ xfer_vredirect_put(Top)
     \/ xfer_vreopen_restart(Top)
     \/ xfer_vreopen_open(Top)
     \/ FrameReturn(Top)

(***************************************************************************)
(* The data path: downloader_ensure_size, downloader_xfer_deliver and the  *)
(* xfer.c operations a transport calls.  Each returns the new position,   *)
(* the new image and the status code returned to the transport.           *)
(***************************************************************************)
(* Mutant: the buffer is grown one byte short.                          *)
downloader_ensure_size_short(img, len, growOk) ==
  IF len <= Len(img) THEN [rc |-> OK, image |-> img]
  ELSE IF ~growOk THEN [rc |-> ENOBUFS, image |-> img]
  ELSE [rc |-> OK, image |-> img \o [k \in 1 .. (len - 1 - Len(img)) |-> Undef]]

downloader_ensure_size(img, len, growOk) ==
  IF len <= Len(img) THEN [rc |-> OK, image |-> img]
  ELSE IF ~growOk THEN [rc |-> ENOBUFS, image |-> img]
  ELSE [rc |-> OK, image |-> img \o [k \in 1 .. (len - Len(img)) |-> Undef]]

(* copy_to_user(image->data, at, data, len); bytes past the end of the   *)
(* buffer are not kept, CopyOverruns says that there were some.          *)
copy_to_user(img, at, data) ==
  [k \in DOMAIN img |->
     IF at < k /\ k <= at + Len(data) THEN data[k - at] ELSE img[k]]

CopyOverruns(img, at, data) == at + Len(data) > Len(img)

(* Mutant: the position is not reset for metadata other than SEEK_CUR.  *)
downloader_xfer_deliver_noreset(data, meta, growOk) ==
  LET p   == (pos + meta.offset) % SizeMod
      max == (p + Len(data)) % SizeMod
      e   == downloader_ensure_size(image, max, growOk)
  IN IF e.rc # OK THEN [rc |-> e.rc, pos |-> p, image |-> image, over |-> FALSE]
     ELSE [rc |-> OK, pos |-> max, image |-> copy_to_user(e.image, p, data),
           over |-> CopyOverruns(e.image, p, data)]

downloader_xfer_deliver(data, meta, growOk) ==
  LET p   == ((IF meta.whence # SEEK_CUR THEN 0 ELSE pos) + meta.offset)
               % SizeMod
      max == (p + Len(data)) % SizeMod
      e   == downloader_ensure_size(image, max, growOk)
  IN IF e.rc # OK THEN [rc |-> e.rc, pos |-> p, image |-> image, over |-> FALSE]
     ELSE [rc |-> OK, pos |-> max, image |-> copy_to_user(e.image, p, data),
           over |-> CopyOverruns(e.image, p, data)]

(* The report downloader_progress fills in.                              *)
downloader_progress == [completed |-> pos, total |-> Len(image)]

(* xfer_deliver: the destination's handler, or discard with -EPIPE.      *)
xfer_deliver(i, data, meta, growOk) ==
  IF I!HasOp(nullified, I!Dest(peer, i), "xfer_deliver")
  THEN downloader_xfer_deliver(data, meta, growOk)
  ELSE [rc |-> EPIPE, pos |-> pos, image |-> image, over |-> FALSE]

(* No descriptor here implements xfer_window or xfer_alloc_iob, so their  *)
(* defaults run: an unlimited window, and alloc_iob(len), which returns   *)
(* NULL when memory is short.                                            *)
xfer_window(i) == SizeMod - 1

xfer_alloc_iob(i, iobOk) == IF iobOk THEN OK ELSE ENOMEM

NoIob == [rc |-> ENOMEM, pos |-> pos, image |-> image, over |-> FALSE]

(* The metadata xfer_deliver_iob passes: zero offset, SEEK_CUR.           *)
dummy_metadata == [whence |-> SEEK_CUR, offset |-> 0]

xfer_deliver_iob(i, data, growOk) == xfer_deliver(i, data, dummy_metadata, growOk)

xfer_deliver_raw(i, data, iobOk, growOk) ==
  IF xfer_alloc_iob(i, iobOk) # OK THEN NoIob
  ELSE xfer_deliver_iob(i, data, growOk)

xfer_seek(i, offset, whence, iobOk, growOk) ==
  IF xfer_alloc_iob(i, iobOk) # OK THEN NoIob
  ELSE xfer_deliver(i, <<>>, [whence |-> whence, offset |-> offset], growOk)

(***************************************************************************)
(* The transports.  Each serves File, keeps its own idea cur of the        *)
(* position it has reached and the set sent of file positions it has      *)
(* delivered; it closes with success only once every byte has been sent.  *)
(* Its ways of sending are a stream chunk at cur (xfer_deliver_raw), a    *)
(* seek (xfer_seek) and a datagram placed at an absolute offset            *)
(* (xfer_deliver with SEEK_SET metadata, as multicast protocols do); the  *)
(* offset is the data's file position, or one of BadOffsets.              *)
(***************************************************************************)
Sent(s, l) == {k \in 1 .. Len(File) : s < k /\ k <= s + l}

TransportDelivers(t, r, s, l) ==
  /\ image' = r.image
  /\ pos' = r.pos
  /\ overrun' = (overrun \/ r.over)
  /\ tr' = IF r.rc # OK /\ (TransportChecksRc \/ r.rc = ENOMEM)
           THEN [tr EXCEPT ![t].state = "failed", ![t].err = r.rc]
           ELSE [tr EXCEPT ![t].cur = s + l, ![t].sent = @ \cup Sent(s, l)]
  /\ ndeliv' = ndeliv + 1
  /\ UNCHANGED <<peer, nullified, refcnt, dl, registered, stack, rq, progress>>

TransportMaySend(t) ==
  /\ stack = <<>>
  /\ tr[t].state = "open"
  /\ ndeliv < MaxDelivers
  /\ xfer_window(t) > 0

transport_deliver_raw(t, l) ==
  LET c == tr[t].cur
  IN /\ TransportMaySend(t)
     /\ l > 0 /\ c + l <= Len(File)
     /\ \E iobOk, growOk \in BOOLEAN :
          TransportDelivers(t, xfer_deliver_raw(t, SubSeq(File, c + 1, c + l),
                                                iobOk, growOk), c, l)

transport_seek(t, s, whence) ==
  /\ TransportMaySend(t)
  /\ \E iobOk, growOk \in BOOLEAN :
       TransportDelivers(t, xfer_seek(t, IF whence = SEEK_SET THEN s ELSE s - tr[t].cur,
                                      whence, iobOk, growOk), s, 0)

transport_deliver_at(t, s, l) ==
  /\ TransportMaySend(t)
  /\ l > 0 /\ s + l <= Len(File)
  /\ \E iobOk, growOk \in BOOLEAN, off \in {s} \cup BadOffsets :
       TransportDelivers(t,
         IF xfer_alloc_iob(t, iobOk) # OK THEN NoIob
         ELSE xfer_deliver(t, SubSeq(File, s + 1, s + l),
                           [whence |-> SEEK_SET, offset |-> off], growOk), s, l)

(* The transport finishes: shuts down its interface with its status.     *)
transport_close(t) ==
  /\ stack = <<>>
  /\ tr[t].state \in {"open", "failed"}
  /\ \E rc \in IF tr[t].state = "failed" THEN {tr[t].err}
               ELSE {ETRANSPORT} \cup (IF tr[t].sent = 1 .. Len(File) THEN {OK} ELSE {}) :
       stack' = << Frame("intf_shutdown", t, rc) >>
  /\ tr' = [tr EXCEPT ![t].state = "closed"]
  /\ UNCHANGED <<peer, nullified, refcnt, dl, image, pos, registered, ndeliv,
                 rq, progress, overrun>>

(* The transport is told to fetch the file elsewhere (an HTTP redirection, *)
(* say) and calls xfer_redirect on its own interface.  A transport        *)
(* redirects before it has delivered or seeked, unless RedirectAfterData.  *)
transport_redirect(t) ==
  /\ stack = <<>>
  /\ tr[t].state = "open"
  /\ RedirectAfterData \/ (tr[t].cur = 0 /\ tr[t].sent = {})
  /\ IdleTransports # {} \/ ReopenMayFail
  /\ stack' = << Frame("xfer_vredirect", t, OK) >>
  /\ UNCHANGED <<peer, nullified, refcnt, dl, image, pos, registered, tr,
                 ndeliv, rq, progress, overrun>>

(***************************************************************************)
(* The requester: creates the downloader, may poll its progress, and may   *)
(* cancel it by shutting down its own job interface.                       *)
(***************************************************************************)
create_downloader ==
  /\ dl = "unborn"
  /\ stack = <<>>
  /\ \/ /\ dl' = "none"
        /\ rq' = [rq EXCEPT !.state = "failed", !.rc = ENOMEM]
        /\ UNCHANGED <<peer, nullified, refcnt, tr>>
     \/ /\ dl' = "freed"
        /\ nullified' = IF NullifyOnShutdown
                        THEN intf_nullify(intf_nullify(nullified, DlXfer), DlJob)
                        ELSE nullified
        /\ rq' = [rq EXCEPT !.state = "failed", !.rc = EOPEN]
        /\ UNCHANGED <<peer, refcnt, tr>>
     \/ LET t == CHOOSE x \in IdleTransports : TRUE
            p == I!PlugPlug(I!PlugPlug(peer, DlXfer, t), DlJob, RqJob)
            n == 1 + I!LinkRefs(p, "downloader") - 1
        IN /\ peer' = p
           /\ refcnt' = n
           /\ dl' = IF n <= 0 THEN "freed" ELSE "live"
           /\ tr' = [tr EXCEPT ![t].state = "open"]
           /\ rq' = [rq EXCEPT !.state = "waiting"]
           /\ UNCHANGED nullified
  /\ UNCHANGED <<image, pos, registered, stack, ndeliv, progress, overrun>>

requester_progress ==
  /\ stack = <<>>
  /\ rq.state = "waiting"
  /\ progress' = IF I!HasOp(nullified, I!Dest(peer, RqJob), "job_progress")
                 THEN downloader_progress
                 ELSE [completed |-> 0, total |-> 0]
  /\ UNCHANGED <<peer, nullified, refcnt, dl, image, pos, registered, stack,
                 tr, ndeliv, rq, overrun>>

requester_cancel ==
  /\ stack = <<>>
  /\ rq.state = "waiting"
  /\ rq' = [rq EXCEPT !.state = "cancelled"]
  /\ stack' = << Frame("intf_shutdown", RqJob, ECANCELED) >>
  /\ UNCHANGED <<peer, nullified, refcnt, dl, image, pos, registered, tr,
                 ndeliv, progress, overrun>>

(* Nothing is left to run: the download is over and the transport closed. *)
Terminated ==
  /\ stack = <<>>
  /\ dl \in {"none", "freed"}
  /\ \A t \in Transports : tr[t].state \in {"idle", "closed"}
  /\ UNCHANGED vars

Init ==
  /\ peer = [i \in Intfs |-> NullIntf]
  /\ nullified = {}
  /\ refcnt = 0
  /\ dl = "unborn"
  /\ image = <<>>
  /\ pos = 0
  /\ registered = <<>>
  /\ stack = <<>>
  /\ tr = [t \in Transports |-> [state |-> "idle", cur |-> 0, sent |-> {}, err |-> OK]]
  /\ ndeliv = 0
  /\ rq = [state |-> "idle", closes |-> 0, rc |-> OK]
  /\ progress = [completed |-> 0, total |-> 0]
  /\ overrun = FALSE

Next ==
  \/ create_downloader
  \/ \E t \in Transports :
       \/ \E l \in ChunkLens : transport_deliver_raw(t, l)
       \/ \E s \in 0 .. Len(File), w \in {SEEK_SET, SEEK_CUR} : transport_seek(t, s, w)
       \/ \E s \in 0 .. Len(File), l \in ChunkLens : transport_deliver_at(t, s, l)
       \/ transport_close(t)
       \/ transport_redirect(t)
  \/ requester_progress
  \/ requester_cancel
  \/ Step
  \/ Terminated

(* Every call, once started, runs to completion: the code it models is a  *)
(* straight-line sequence of function calls on one thread.  The requester *)
(* and the transport are not obliged to do anything.                       *)
Spec == Init /\ [][Next]_vars /\ WF_vars(Step)

(***************************************************************************)
(* Properties.                                                             *)
(***************************************************************************)
(* A plug link points into the downloader, or a frame is running code    *)
(* that touches the downloader object.                                   *)
LinkedToDownloader == \E i \in Intfs : Owner[peer[i]] = "downloader"
DownloaderInUse ==
  \E k \in DOMAIN stack : \/ stack[k].fn = "downloader_finished"
                          \/ Owner[stack[k].intf] = "downloader"

(* The downloader is freed (downloader_free, run by the ref_put that      *)
(* drops the last reference) only when no plug link points at one of its *)
(* interfaces and no nested call is still running its code, and no       *)
(* reference is put twice.  Pins taken by intf_get around every close    *)
(* dispatched through intf_shutdown, the references the links hold and  *)
(* the ref_put that "mortalises" the object in create_downloader must    *)
(* balance across re-entrant shutdowns for this to hold.                 *)
LifetimeSafe ==
  /\ refcnt >= 0
  /\ dl = "freed" => ~LinkedToDownloader /\ ~DownloaderInUse

(* When no call is running, a downloader that nothing links to any more  *)
(* has been freed: no pin taken in a nested shutdown is left unreleased. *)
NoLeak == (stack = <<>> /\ dl = "live") => LinkedToDownloader

(* register_image is called at most once per download, however the close *)
(* of either interface re-enters downloader_finished.                    *)
RegisterOnce == Len(registered) <= 1

(* The image handed to register_image is exactly the served file, after  *)
(* any mix of stream chunks, seeks, duplicated and reordered datagrams,  *)
(* and failed buffer growth.                                              *)
RegisteredImageCorrect ==
  \A k \in DOMAIN registered : registered[k].image = File

(* The requester's job is closed at most once, and with success exactly  *)
(* when register_image succeeded: job close is the authoritative result. *)
JobOutcome ==
  /\ rq.closes <= 1
  /\ rq.state = "done" =>
       (rq.rc = OK <=> \E k \in DOMAIN registered : registered[k].rc = OK)

(* Once every transport that was opened has closed (none is left open    *)
(* after a redirect) or the requester has cancelled, the requester's job *)
(* ends and the downloader is freed: a download never hangs.             *)
TransportsDone ==
  /\ stack = <<>>
  /\ \E t \in Transports : tr[t].state = "closed"
  /\ \A t \in Transports : tr[t].state \in {"idle", "closed"}

Completion ==
  (TransportsDone \/ rq.state = "cancelled")
    ~> (dl = "freed" /\ stack = <<>> /\ rq.state \in {"done", "cancelled"})

(* The downloader implements the promise DownloadJob makes to the        *)
(* requester: the requester's view of the job gives the phase and the    *)
(* status, register_image's calls are the registrations, and the object  *)
(* is freed by downloader_free.  This checks, over every interleaving of *)
(* re-entrant closes, redirects and cancel, that nothing is registered   *)
(* after the job ended or was cancelled, that the job closes once with   *)
(* the registration's outcome, and that the object outlives the job.     *)
Statuses == {OK, ENOMEM, ENOBUFS, EPIPE, ECANCELED, EREGISTER, EOPEN, ETRANSPORT}

Phase == [idle |-> "idle", waiting |-> "open", failed |-> "failed",
          cancelled |-> "cancelled", done |-> "closed"]

Job == INSTANCE DownloadJob
         WITH phase <- Phase[rq.state],
              result <- rq.rc,
              freed <- (dl = "freed")

DownloadJobSpec == Job!Spec

(* copy_to_user never writes past the end of the image buffer: the size  *)
(* downloader_ensure_size grew the buffer to cover every byte copied,   *)
(* whatever offsets the transport's metadata carries.                    *)
WriteInBounds == ~overrun

=============================================================================
