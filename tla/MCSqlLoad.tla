----------------------------- MODULE MCSqlLoad ------------------------------
(* Instances of SqlLoad for TLC.                                             *)
EXTENDS SqlLoad, TLC

CONSTANTS r1, r2, k1, k2          \* runs, merge keys
CONSTANTS key, name, loaded_at    \* columns

MCContracts ==
    [new : {"evolve", "freeze", "discard"}, dropped : {"evolve"}]
    \union [new : {"evolve"}, dropped : {"freeze"}]

MCModes == [disposition : {"append", "replace", "merge"},
            loader : {"insert", "copy", "file", "mssql"}]

MCFound == [wanted : {Columns}, carried : {Columns}]

(* Two versions of the source; an SQL file or a failed endpoint, with and    *)
(* without loaded_at.                                                        *)
MCSchemas ==
    [wanted : {{key, loaded_at}}, carried : {{key, loaded_at}}]
    \union MCFound
    \union [wanted : {{loaded_at}}, carried : {{key, loaded_at}}]
    \union [wanted : {{}}, carried : {{key}}]

MCSymmetry == Permutations({r1, r2}) \union Permutations({k1, k2})
=============================================================================
