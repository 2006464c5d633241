---------------------------- MODULE MCProviders -----------------------------
(***************************************************************************)
(* An instance of Providers for TLC: two installations agree on one row;   *)
(* the pin file of the second has another, of the same version, with an    *)
(* archive of its own.  The release has replaced the first archive once.   *)
(***************************************************************************)
EXTENDS Providers, TLC

CONSTANTS first, second, tag1, tag2, version1, digest1, digest2, binary1, binary2

Row(tag, digest) == [archive |-> tag, target |-> version1, sha |-> digest]

Pinning == (first :> <<Row(tag1, digest1)>>) @@
           (second :> <<Row(tag1, digest1), Row(tag2, digest2)>>)
Members == (digest1 :> binary1) @@ (digest2 :> binary2)
Offers == (tag1 :> {digest1, digest2}) @@ (tag2 :> {digest2})
=============================================================================
