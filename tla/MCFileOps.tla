----------------------------- MODULE MCFileOps ------------------------------
(* Instances of FileOps for TLC. *)
EXTENDS FileOps

CONSTANTS conf, site,       \* sources: a file and a directory
          index, stale,     \* entries
          v1, v2            \* data

MCSource == {conf, site}

MCShape == [s \in MCSource |->
              IF s = conf THEN {Plain(v1), Plain(v2)}
                          ELSE {Dir([n \in {index} |-> Plain(v1)]), Dir([n \in {index, stale} |-> Plain(v2)])}]

MCBefore == {Absent, Plain(v1), Dir([n \in {stale} |-> Plain(v1)])}

MCSources == {<<conf>>, <<site>>, <<site, conf>>, <<conf, site>>}

MCOperations == [kind : {"copy", "atomic-copy"}, sources : MCSources, slash : BOOLEAN]
=============================================================================
