---------------------------- MODULE XferPrintf -----------------------------
(***************************************************************************)
(* xfer_printf and xfer_vprintf (src/core/xfer.c): a sender formats text   *)
(* and delivers it on its data-transfer interface to a receiver that       *)
(* appends what it gets to a stream, until the receiver unplugs.          *)
(*                                                                         *)
(* xfer_vprintf measures the text with vsnprintf(NULL, 0, ...), which      *)
(* consumes the va_list, renders it a second time from a va_copy into a    *)
(* buffer of len + 1 bytes, and hands the first len bytes to               *)
(* xfer_deliver_raw.  vsnprintf is not in this repository: it is modelled  *)
(* as C99 specifies it (return the full length, write at most size - 1     *)
(* characters and a NUL), for formats of literal characters and %d.        *)
(***************************************************************************)
EXTENDS Integers, Sequences, SequencesExt

CONSTANTS
  Formats,   \* format strings: sequences of characters and "%d"
  IntArgs,   \* values passed for %d
  MaxMsgs,   \* bound: calls of xfer_printf in a run
  NUL        \* the terminating '\0' vsnprintf writes

ASSUME MaxMsgs \in Nat /\ IntArgs \subseteq Int

VARIABLES
  plugged,   \* the sender's interface is still plugged to the receiver
  stream,    \* the bytes the receiver's deliver handler has appended
  calls      \* the calls of xfer_printf: format, arguments, return value

vars == <<plugged, stream, calls>>

OK == "OK"
ENOMEM == "ENOMEM"
EPIPE == "EPIPE"

Digits == <<"0", "1", "2", "3", "4", "5", "6", "7", "8", "9">>

(* Number of %d conversions, i.e. of arguments the format consumes.      *)
Conversions(fmt) == Len(SelectSeq(fmt, LAMBDA c : c = "%d"))

(* %d: the decimal digits of n, with a leading '-' when it is negative.  *)
RECURSIVE DecimalDigits(_)
DecimalDigits(n) ==
  IF n < 10 THEN <<Digits[n + 1]>>
  ELSE DecimalDigits(n \div 10) \o <<Digits[(n % 10) + 1]>>

Decimal(n) == IF n < 0 THEN <<"-">> \o DecimalDigits(-n) ELSE DecimalDigits(n)

(* The argument va_arg reads; past the end of the list the behaviour is  *)
(* undefined and the model reads 0.                                      *)
NextArg(args) == IF args = <<>> THEN 0 ELSE Head(args)

RestArgs(args) == IF args = <<>> THEN <<>> ELSE Tail(args)

(* The text a format renders to with the arguments args.                 *)
RECURSIVE Render(_, _)
Render(fmt, args) ==
  IF fmt = <<>> THEN <<>>
  ELSE IF Head(fmt) = "%d"
       THEN Decimal(NextArg(args)) \o Render(Tail(fmt), RestArgs(args))
       ELSE <<Head(fmt)>> \o Render(Tail(fmt), args)

(* vsnprintf(buf, size, fmt, ap): the length of the whole text, the size *)
(* bytes of buf after the call, and the va_list left after the            *)
(* conversions.  Bytes of buf after the NUL are the array's uninitialized  *)
(* contents; the model takes them to be NUL as well.                      *)
vsnprintf(size, fmt, ap) ==
  LET s == Render(fmt, ap)
      k == IF Len(s) < size - 1 THEN Len(s) ELSE size - 1
      w == IF size = 0 THEN <<>> ELSE SubSeq(s, 1, k) \o <<NUL>>
  IN [ret  |-> Len(s),
      buf  |-> w \o [i \in 1 .. (size - Len(w)) |-> NUL],
      rest |-> IF Conversions(fmt) >= Len(ap) THEN <<>>
               ELSE SubSeq(ap, Conversions(fmt) + 1, Len(ap))]

(* Mutant: the buffer is declared char buf[len], without room for NUL.  *)
BufSizeNoNul(len) == len

(* char buf[len + 1]                                                     *)
BufSize(len) == len + 1

(* Mutant: va_copy is left out and the second pass reads the va_list the *)
(* first pass consumed.                                                  *)
SecondPassArgsConsumed(fmt, args) == vsnprintf(0, fmt, args).rest

(* The second vsnprintf reads args_tmp, copied before the first pass.    *)
SecondPassArgs(fmt, args) == args

(* xfer_deliver to the receiver, whose handler appends the data, or the  *)
(* default once unplugged: discard the buffer and return -EPIPE.          *)
xfer_deliver(data) ==
  IF plugged THEN [rc |-> OK, data |-> data] ELSE [rc |-> EPIPE, data |-> <<>>]

(* xfer_deliver_raw: alloc_iob(len) may fail (-ENOMEM); else memcpy the  *)
(* len bytes and deliver them with dummy metadata.                        *)
xfer_deliver_raw(data, iobOk) ==
  IF ~iobOk THEN [rc |-> ENOMEM, data |-> <<>>] ELSE xfer_deliver(data)

xfer_vprintf(fmt, args, iobOk) ==
  LET len == vsnprintf(0, fmt, args).ret
      buf == vsnprintf(BufSize(len), fmt, SecondPassArgs(fmt, args)).buf
  IN xfer_deliver_raw(SubSeq(buf, 1, len), iobOk)

(* xfer_printf(intf, fmt, ...): va_start, xfer_vprintf, va_end.           *)
xfer_printf(fmt, args) ==
  /\ Len(calls) < MaxMsgs
  /\ \E iobOk \in BOOLEAN :
       LET r == xfer_vprintf(fmt, args, iobOk)
       IN /\ stream' = stream \o r.data
          /\ calls' = Append(calls, [fmt |-> fmt, args |-> args, rc |-> r.rc])
  /\ UNCHANGED plugged

(* The receiver shuts down its end: the link is severed.                 *)
receiver_close ==
  /\ plugged
  /\ plugged' = FALSE
  /\ UNCHANGED <<stream, calls>>

(* The sender has made all its calls.                                    *)
Finished ==
  /\ Len(calls) = MaxMsgs
  /\ UNCHANGED vars

Init ==
  /\ plugged = TRUE
  /\ stream = <<>>
  /\ calls = <<>>

Next ==
  \/ \E fmt \in Formats :
       \E args \in [1 .. Conversions(fmt) -> IntArgs] : xfer_printf(fmt, args)
  \/ receiver_close
  \/ Finished

Spec == Init /\ [][Next]_vars

(***************************************************************************)
(* Properties.                                                             *)
(***************************************************************************)
Chars == UNION {Range(f) : f \in Formats} \ {"%d"}

TypeOK ==
  /\ plugged \in BOOLEAN
  /\ stream \in Seq(Chars \cup Range(Digits) \cup {"-"})
  /\ \A k \in DOMAIN calls : calls[k].rc \in {OK, ENOMEM, EPIPE}

(* The receiver has got exactly the text of the xfer_printf calls that   *)
(* returned 0, each rendered with its own arguments, in call order, and   *)
(* nothing of the calls that failed (no iob, or unplugged).               *)
StreamIsRendered ==
  LET ok == SelectSeq(calls, LAMBDA c : c.rc = OK)
  IN stream = FlattenSeq([k \in DOMAIN ok |-> Render(ok[k].fmt, ok[k].args)])

=============================================================================
