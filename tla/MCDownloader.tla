--------------------------- MODULE MCDownloader ---------------------------
(* Model-checking instance of Downloader: a three-byte file, chunks of one  *)
(* and two bytes, a 3-bit size_t, and three transports, so that two     *)
(* redirects in turn plug the downloader to a second and a third one.    *)
EXTENDS Downloader

MCFile == <<"a", "b", "c">>

(* A one-byte file, enough to reach a successful close. *)
MCFileShort == <<"a">>

MCTransports == {"t1", "t2", "t3"}

MCOneTransport == {"t1"}

=============================================================================
