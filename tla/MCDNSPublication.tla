-------------------------- MODULE MCDNSPublication --------------------------
(* Small instances of DNSPublication for TLC. *)
EXTENDS DNSPublication

\* Not ready, two TXT variants of one topology, another topology at another
\* location, and TXT data that does not fit.
Offers == {Nothing, [topology |-> 1, txt |-> 1, loc |-> 0],
           [topology |-> 1, txt |-> 2, loc |-> 0],
           [topology |-> 2, txt |-> 1, loc |-> 3],
           [topology |-> 2, txt |-> 9, loc |-> 0]}
=============================================================================
