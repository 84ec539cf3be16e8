---------------------------- MODULE MC_ChannelCache ----------------------------
(* Instances of ChannelCache for TLC: two lookups and one handler.              *)
EXTENDS ChannelCache, TLC

CONSTANTS r1, r2, c1, c2, list, cool

\* One reader of everything, one that competes with it for the list and for the
\* keys of a channel; nobody asks for c2, which tells "this channel" from "all".
ListAndKeys == (r1 :> {list, c1, cool}) @@ (r2 :> {list, c1})
=============================================================================
