----------------------------- MODULE MCPeHeader -----------------------------
(* PeHeader over files of every length around each of its checks, with the    *)
(* header fields right or wrong, and e_lfanew anywhere it matters.            *)
EXTENDS PeHeader

CONSTANTS Lengths, Lfanews, Flags

\* The bytes that matter in a file whose PE header is at e; all others are 64.
Field(e, sig, magic, flag) ==
  [i \in {0, 1, e + 24, e + 25, e + 94} \cup (LfanewAt..(LfanewAt + 3)) \cup (e..(e + 3)) |->
     CASE i = LfanewAt -> e % 256
       [] i = LfanewAt + 1 -> e \div 256
       [] i = e /\ e # 0 -> sig % 256
       [] i = e + 1 /\ e # 0 -> sig \div 256
       [] i = e + 24 -> magic % 256
       [] i = e + 25 -> magic \div 256
       [] i = e + 94 -> flag
       [] i = 0 -> 77
       [] i = 1 -> 90
       [] OTHER -> 0]

MCFiles ==
  {[len |-> n,
    byte |-> LET f == Field(e, sig, magic, flag) IN
             [i \in 0..(n - 1) |-> IF i \in DOMAIN f THEN f[i] ELSE 64]] :
     n \in Lengths, e \in Lfanews, sig \in {PE, MZ}, magic \in Magics \cup {0},
     flag \in Flags}

=============================================================================
