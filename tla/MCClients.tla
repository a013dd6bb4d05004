----------------------------- MODULE MCClients -----------------------------
(***************************************************************************)
(* An instance of Clients for TLC: the options of the two programs, each   *)
(* check of main passed and failed.                                        *)
(***************************************************************************)
EXTENDS Clients

Dig(help, name, prefix, ttl) == [help |-> help, name |-> name, prefix |-> prefix, ttl |-> ttl]
DigOpts == {Dig(TRUE, FALSE, FALSE, 4), Dig(FALSE, TRUE, TRUE, 0), Dig(FALSE, FALSE, TRUE, 4),
            Dig(FALSE, TRUE, FALSE, 4), Dig(FALSE, TRUE, TRUE, -1)}

Upd(content, file, named, cert, legal) ==
  [help |-> FALSE, content |-> content, file |-> file, named |-> named, cert |-> cert,
   identities |-> {0, 1, 2}, defaults |-> {0, 1}, legal |-> legal]
UpdOpts == {Upd(TRUE, FALSE, TRUE, FALSE, TRUE), Upd(FALSE, TRUE, FALSE, FALSE, TRUE),
            Upd(TRUE, TRUE, TRUE, TRUE, TRUE), Upd(TRUE, FALSE, FALSE, TRUE, TRUE),
            Upd(FALSE, TRUE, TRUE, FALSE, FALSE),
            [Upd(TRUE, FALSE, TRUE, FALSE, TRUE) EXCEPT !.defaults = {}],
            [Upd(TRUE, FALSE, TRUE, TRUE, TRUE) EXCEPT !.help = TRUE]}
=============================================================================
