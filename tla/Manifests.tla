-------------------------------- MODULE Manifests --------------------------------
(***************************************************************************)
(* How a registry of runtime/registries reads its files: a file of         *)
(* contracts, which is sound as a whole or not used at all, and an agent's *)
(* manifest of declarations, each of which is sound or left out.           *)
(*                                                                         *)
(* A file is [form, version, contracts, entries] or, a manifest, [form,    *)
(* version, entries]; form is "object" where the file can be read and its  *)
(* lists are lists.                                                        *)
(***************************************************************************)
EXTENDS Naturals, FiniteSets, Sequences, SequencesExt

Readable(file) == file.form = "object" /\ file.version = 1

\* No two entries of a list have the same id.
AllDiffer(entries) == IsInjective([i \in DOMAIN entries |-> entries[i].id])

\* What is left of a manifest, the entries at their positions in it, and whether
\* anything of it was refused.
Declared(declarations, flawed) == [declarations |-> declarations, flawed |-> flawed]

\* For LoadManifest: one entry that is not sound takes the manifest with it.
LoadManifestStrictly(file, Sound) ==
    IF ~Readable(file) \/ ~ToSet(file.entries) \subseteq Sound
    THEN Declared(<<>>, TRUE)
    ELSE Declared(file.entries, FALSE)

\* Entries that are not among the Sound ones are left out; two sound ones of
\* the same id take the manifest with them.
LoadManifest(file, Sound) ==
    LET sound == Restrict(file.entries,
                          {i \in DOMAIN file.entries : file.entries[i] \in Sound})
    IN IF ~Readable(file) \/ ~AllDiffer(sound) THEN Declared(<<>>, TRUE)
       ELSE Declared(sound, DOMAIN sound # DOMAIN file.entries)
==================================================================================
