--------------------------- MODULE MCXferPrintf ---------------------------
(* Model-checking instance of XferPrintf: formats with literals and zero,  *)
(* one or two %d conversions, arguments of one and two digits, negative.  *)
EXTENDS XferPrintf

MCFormats == {<<"n", "=", "%d", "\n">>, <<"%d", "%d">>, <<"\n">>}

MCIntArgs == {-7, 0, 42}

=============================================================================
