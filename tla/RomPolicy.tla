----------------------------- MODULE RomPolicy ------------------------------
(* Which ROM names an upload may bring (rom_policy.c, and the folding of a     *)
(* platform's catalog rows in platforms.c). A name is a record of what the     *)
(* policy looks at, and stands for all its spellings up to case: its stem, its *)
(* last extension, and whether it starts with "." or "_".                      *)
EXTENDS Integers, Sequences

\* Mutant: a row's archives count whatever its archive_mode says.
Archives_AnyMode(r) == r.archives

\* Each row is judged on its own mode.
Archives(r) == IF r.mode = "pass_through" THEN r.archives ELSE {}

\* cs_policy_has_accept_fields
HasAccepts(p) == p.extensions \cup p.playlists \cup p.archives \cup p.names # {}

\* cs_rom_upload_policy_add_system, for each of the rows: without one, nothing
\* is enforced.
AddSystems(rows) ==
    LET p == [enforced |-> FALSE,
              extensions |-> UNION {r.extensions : r \in rows},
              playlists |-> UNION {r.playlists : r \in rows},
              archives |-> UNION {Archives(r) : r \in rows},
              names |-> UNION {r.names : r \in rows},
              ignored |-> UNION {r.ignored : r \in rows}]
    IN [p EXCEPT !.enforced = HasAccepts(p)]

\* The rows that belong to a platform.
RowsFor(catalog, tag) == {catalog[i] : i \in {k \in 1..Len(catalog) : catalog[k].tag = tag}}

\* cs_rom_upload_policy_from_catalog; a custom platform, or a catalog that
\* cannot be read, has no rows.
PolicyFor(catalog, tag) == AddSystems(RowsFor(catalog, tag))

\* cs_rom_upload_policy_classify: what is refused as hidden, ignored or
\* unsupported is only told apart in the message.
Accepted(p, n) ==
    \/ ~p.enforced
    \/ /\ ~n.hidden /\ n \notin p.ignored
       /\ n \in p.names \/ n.ext \in p.extensions \cup p.playlists \cup p.archives
=============================================================================
