----------------------------- MODULE MCRecords -----------------------------
(***************************************************************************)
(* An instance of Records for TLC: the zone /net with two certificates.    *)
(* Components are ranked as the canonical order ranks "a" "NS" "DOE" "KEY" *)
(* "TXT" "net" "CERT" "NDNS" "UPDATE" "APPCERT" and two key ids.           *)
(***************************************************************************)
EXTENDS Records

Ca == 1
Cns == 2
Cdoe == 3
Ckey == 4
Ctxt == 5
Cnet == 6
Ccert == 7
Cndns == 8
Cupdate == 9
Cappcert == 10
Ck1 == 11
Ck2 == 12

(* What prependBlocks stands for: the blocks taken, one by one, each put in *)
(* front.                                                                   *)
ASSUME PrependsOneByOne ==
  \A s \in BoundedSeq({Ca, Cns, Cdoe}, 4) :
    prependBlocks(s) = FoldLeft(LAMBDA buffer, block : <<block>> \o buffer, <<>>, s)

Net == <<Cnet>>
N(suffix) == Net \o <<Cndns>> \o suffix
ZoneCert(k) == Data(N(<<Ckey, k, Ccert, 20>>), "KEY", <<RrData(k)>>)
Certificates == {ZoneCert(Ck1), ZoneCert(Ck2)}

Add(label, type, contents) ==
  [zone |-> Net, dsk |-> "default", label |-> label, type |-> type, contents |-> contents]
Adds == {Add(<<Ca>>, Ctxt, <<1, 2>>), Add(<<Ca, Ca>>, Ctxt, <<>>), Add(<<Ca>>, Cns, <<1>>),
         Add(<<Cnet>>, Cns, <<1, 2>>),
         [Add(<<Ca>>, Ctxt, <<3>>) EXCEPT !.zone = <<Ca>>],
         [Add(<<Ca>>, Ctxt, <<3>>) EXCEPT !.dsk = "unknown"], Add(<<Ca>>, Cappcert, <<1>>)}
AppCertReqs == {[label |-> <<Ca>>, cert |-> ZoneCert(Ck1)]}

Upd(label, type, ct, contents) ==
  [label |-> label, type |-> type, contentType |-> ct, contents |-> contents]
Updates == {Upd(<<Ca>>, Ctxt, "resp", <<3>>), Upd(<<Cnet>>, Ctxt, "blob", <<3>>),
            Upd(<<Cnet>>, Cns, "auth", <<>>), Upd(<<Cnet>>, Ctxt, "auth", <<>>),
            Upd(<<Ca>>, Ctxt, "text", <<3>>)}

(* Two texts, newer or older than what commands store, the second one below *)
(* a label without a record, a certificate, and a name without a type.      *)
Packets == {Data(N(<<Ca, Ctxt, 22>>), "RESP", <<RrData(4)>>),
            Data(N(<<Ca, Ca, Ctxt, 22>>), "RESP", <<RrData(4), RrData(5)>>),
            Data(N(<<Ckey, Ck1, Ccert, 21>>), "KEY", <<RrData(9)>>),
            Data(N(<<Ca>>), "BLOB", <<RrData(5)>>)}

Questions == {N(<<Ca, Ctxt>>), N(<<Ca, Ctxt, 20>>), N(<<Ca, Ca, Ctxt>>), N(<<Ca, Cns>>),
              N(<<Ckey, Ck1, Ccert>>), N(<<Ckey, Ck1, Ccert, 20>>), N(<<20>>), N(<<Cns>>),
              N(<<Ca, Ctxt, Cdoe>>), N(<<Cdoe>>), N(<<Ca, Cappcert>>), N(<<Ca, Cupdate>>)}
=============================================================================
