--------------------------- MODULE MCDnsResolver ----------------------------
(* DnsResolver for TLC: three requests for a table of two entries.         *)
EXTENDS DnsResolver

CONSTANTS r1, r2, r3, a4, b4, c4, local, bad

MCRequests == {r1, r2, r3}
MCQuestions == {a4, b4, c4, local, bad}
MCCalls == {<<r1, a4>>, <<r1, local>>, <<r2, a4>>,
            <<r2, bad>>, <<r3, b4>>, <<r3, c4>>}
=============================================================================
