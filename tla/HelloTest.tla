----------------------------- MODULE HelloTest -----------------------------
(***************************************************************************)
(* The output filter of test_hello_callback (src/tests/hellotest.c): each  *)
(* received byte is printed unless it is a carriage return; the else      *)
(* branch, which prints '.', is meant for bytes that are not printable.   *)
(* Bytes are read into a plain char, which is signed on x86.              *)
(***************************************************************************)
EXTENDS Integers, Sequences, SequencesExt

CONSTANTS
  Bytes,    \* byte values the server may send
  MaxLen    \* bound: length of a received buffer

CR == 13
LF == 10
DOT == 46

(* The value of a byte read into a signed char.                          *)
AsChar(b) == IF b >= 128 THEN b - 256 ELSE b

(* What the callback prints for one character c.                         *)
Printed(c) ==
  IF c = CR THEN << >>
  ELSE IF c = LF \/ c >= 32 \/ c <= 126 THEN << c >>
  ELSE << DOT >>

RECURSIVE test_hello_callback(_)
test_hello_callback(data) ==
  IF data = << >> THEN << >>
  ELSE Printed(AsChar(Head(data))) \o test_hello_callback(Tail(data))

(* The filter the branches describe: carriage returns dropped, newlines   *)
(* and printable ASCII (32 to 126) kept, anything else shown as '.'.      *)
Intended(data) ==
  LET Shown(b) == IF b = LF \/ (32 <= b /\ b <= 126) THEN b ELSE DOT
  IN [k \in 1 .. Len(SelectSeq(data, LAMBDA b : b # CR)) |->
        Shown(SelectSeq(data, LAMBDA b : b # CR)[k])]

(***************************************************************************)
(* test_hello: print the banner, fill a zeroed hello_request with the     *)
(* server, the message and the callback, and async_wait for say_hello.    *)
(* say_hello (not in this repository) calls the callback with each chunk  *)
(* the server sends, then the wait returns its status; a nonzero status   *)
(* prints "HELLO fetch failed".  The banner's formatting is left out.     *)
(***************************************************************************)
CONSTANTS
  Errors    \* nonzero statuses async_wait may return

VARIABLES
  pc,        \* "start", "waiting" (in async_wait), "done"
  received,  \* every byte say_hello has handed to the callback
  console,   \* what the callback has printed (the banner aside)
  banner,    \* the "Saying ..." line has been printed
  failed     \* the "HELLO fetch failed" line has been printed

vars == <<pc, received, console, banner, failed>>

Init ==
  /\ pc = "start"
  /\ received = << >>
  /\ console = << >>
  /\ banner = FALSE
  /\ failed = FALSE

(* printf of the banner, the hello_request set up, say_hello started.   *)
test_hello ==
  /\ pc = "start"
  /\ banner' = TRUE
  /\ pc' = "waiting"
  /\ UNCHANGED <<received, console, failed>>

(* say_hello delivers a chunk of the reply to hello.callback.            *)
say_hello_callback(chunk) ==
  /\ pc = "waiting"
  /\ Len(received) + Len(chunk) <= MaxLen
  /\ received' = received \o chunk
  /\ console' = console \o test_hello_callback(chunk)
  /\ UNCHANGED <<pc, banner, failed>>

(* async_wait returns rc; a failure is reported on the console.          *)
async_wait_return(rc) ==
  /\ pc = "waiting"
  /\ pc' = "done"
  /\ failed' = (rc # 0)
  /\ UNCHANGED <<received, console, banner>>

Finished ==
  /\ pc = "done"
  /\ UNCHANGED vars

Next ==
  \/ test_hello
  \/ \E chunk \in BoundedSeq(Bytes, MaxLen) \ {<< >>} : say_hello_callback(chunk)
  \/ \E rc \in {0} \cup Errors : async_wait_return(rc)
  \/ Finished

Spec == Init /\ [][Next]_vars

(* The console only ever receives newlines, printable characters and the *)
(* '.' that stands for anything else: test_hello_callback prints exactly *)
(* the intended filtering of the bytes say_hello delivered, over all its  *)
(* calls of the callback.                                                *)
PrintsOnlyPrintable == console = Intended(received)

=============================================================================
