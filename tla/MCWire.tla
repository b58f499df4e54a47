------------------------------- MODULE MCWire -------------------------------
(* Instances of Wire: messages that use every field of the header, with and *)
(* without metadata, short and long, of every kind of compression.          *)
EXTENDS Wire

CONSTANTS x, y

Plain == [version |-> 0, type |-> 0, seq |-> 1, serialize |-> 1, heartbeat |-> FALSE,
          oneway |-> FALSE, compress |-> 0, status |-> 0, path |-> <<x>>, method |-> <<>>,
          meta |-> NoMeta, payload |-> <<>>]

(* An error response with metadata, on which every flag is set and which    *)
(* asks for an unknown compressor, a message that is too long for the       *)
(* reader, and a compressed call.                                           *)
SomeDrafts ==
    {[Plain EXCEPT !.type = 1, !.status = 1, !.serialize = 3, !.heartbeat = TRUE, !.oneway = TRUE,
                   !.compress = 2, !.seq = 2, !.meta = (<<x>> :> <<y>>) @@ (<<y>> :> <<>>)],
     [Plain EXCEPT !.version = 1, !.method = <<y, x>>, !.payload = <<y, y, y, y, y, y>>],
     [Plain EXCEPT !.compress = 1, !.payload = <<y>>]}

BufPerms == Permutations(Bufs)

(* Two compressed messages.                                                 *)
ZipDrafts ==
    {[Plain EXCEPT !.compress = 1, !.payload = <<x>>],
     [Plain EXCEPT !.compress = 1, !.payload = <<y>>]}
=============================================================================
