---------------------------- MODULE MCModuleConfig ----------------------------
(***************************************************************************)
(* Instances of the configuration for TLC.                                 *)
(***************************************************************************)
EXTENDS ModuleConfig, TLC

Module(kind, entries) ==
    << [name |-> "maps", data |-> <<>>], [name |-> kind, data |-> <<>>],
       [name |-> KeysSection, data |-> entries] >>

\* One key (the shipped modules), as many as config_keys has room for without
\* the sentinel and with it, and none.
MCShipped == { Module("classifier", <<"loss", "">>) }
MCFiles == MCShipped \cup
           { Module("xdp", <<"delay", "loss">>), Module("classifier", <<"delay", "loss", "">>),
             << [name |-> "xdp", data |-> <<>>] >> }

\* What strsplit makes of "loss=1", "loss=-1", "delay=9", "delay=junk", "loss".
MCArguments == { <<"loss", 1>>, <<"loss", -1>>, <<"delay", 9>>, <<"delay", None>>, <<"loss">> }
MCLines == UNION {[1..k -> MCArguments] : k \in 0..2}
MCOneLine == { << <<"loss", 1>> >> }

MCElfFaults == ElfFaultNames \cup {"update"}

TailSymmetry == Permutations(Tails \ {Zeros})
=============================================================================
