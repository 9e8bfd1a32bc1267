--------------------------- MODULE MCStorageDomains ---------------------------
(* Instances of StorageDomains for TLC: a host with a disk and a volume. *)
EXTENDS StorageDomains, TLC

MCDirs == {<<>>, <<1>>, <<1, 1>>, <<2>>, <<2, 1>>}

\* Filesystem 1 has / , /1, /2 and /2/1; filesystem 2 has its top and /1.
\* The directory /1, where it is mounted, is empty.
Stored == <<1, <<>>>> :> 1 @@ <<1, <<1>>>> :> 0 @@ <<1, <<2>>>> :> 1 @@ <<1, <<2, 1>>>> :> 3
            @@ <<2, <<>>>> :> 1 @@ <<2, <<1>>>> :> 4

MCNodes == DOMAIN Stored

\* No file is held open; files are that no scan has read; the one in /2/1 of
\* filesystem 1 has been deleted while it is open, and one of filesystem 2 has grown.
MCFiles ==
  {[stored |-> Stored, held |-> <<0, 0>>],
   [stored |-> Stored, held |-> <<2, 2>>],
   [stored |-> [Stored EXCEPT ![<<1, <<2, 1>>>>] = 0, ![<<2, <<1>>>>] = 6], held |-> <<3, 0>>]}

At(fs, sub) == [fs |-> fs, sub |-> sub, type |-> "ext4"]

Plain   == <<>> :> At(1, <<>>)
Volume  == Plain @@ <<1>> :> At(2, <<>>)
Overlay == Plain @@ <<1>> :> [fs |-> 1, sub |-> <<2>>, type |-> "overlay"]

MCTables == {Plain, Volume, Overlay}

MCConfigs ==
  [roots : {{<<>>}, {<<>>, <<1>>}, {<<1, 1>>}, {<<1>>}},
   excludes : {{}, {<<2, 1>>}}, oneFilesystem : BOOLEAN]
===============================================================================
