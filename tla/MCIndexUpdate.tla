--------------------------- MODULE MCIndexUpdate ---------------------------
(* Small instances of IndexUpdate for TLC. *)
EXTENDS IndexUpdate, TLC

CONSTANTS xz, gz, plain

MCOrder == <<InRelease, Release, plain, DiffIndex, gz, xz>>
MCBySuffix == <<xz, gz, plain, gz, xz>>
MCByKind == <<plain, xz, gz>>
MCDir == xz :> "main" @@ gz :> "copy" @@ plain :> "main"
MCBase == xz :> "Packages.xz" @@ gz :> "Packages.xz" @@ plain :> "Packages"
MCAlternative == Release :> InRelease @@ InRelease :> Release @@ gz :> xz

MCDisks(releases, diffs, versions) ==
    {InRelease :> r[1] @@ Release :> r[2] @@ DiffIndex :> d @@ v :
       r \in releases, d \in diffs, v \in [Variants -> versions]}

\* Every mixture of versions and missing files, with and without by-hash names ...
MCMixtures(diffs, blobs, small) ==
    [disk : MCDisks({<<0, None>>, <<None, 0>>}, diffs, {None, 0, 1}),
     blobs : blobs, snapshots : blobs \ {{1}}, offers : {Files, Files \ {xz}},
     small : {small}, ignored : {{}}, wanted : {{}}, byPath : BOOLEAN, force : {FALSE}, skip : {FALSE},
     errAbort : {TRUE}]

\* ... and every option, on a few of them.
MCVariations ==
    [disk : MCDisks({<<0, 0>>, <<None, None>>}, {None, 1}, {None, 0}),
     blobs : {{}}, snapshots : {{}}, offers : {Files, Files \ {InRelease, gz}},
     small : {{}}, ignored : {{}}, wanted : {{}}, byPath : BOOLEAN, force : BOOLEAN, skip : BOOLEAN,
     errAbort : BOOLEAN]

\* Errors to forgive: files of ignore_list, and a missing file that is wanted.
MCForgiving ==
    [disk : MCDisks({<<0, None>>, <<None, 0>>}, {None}, {None, 0}),
     blobs : {{}}, snapshots : {{}}, offers : {Files, Files \ {xz}},
     small : {{}}, ignored : {{xz, gz}, {Release, InRelease}}, wanted : {{}, {plain}},
     byPath : BOOLEAN, force : {FALSE}, skip : {FALSE}, errAbort : {TRUE}]

MCStarts ==
    MCMixtures({None, 0, 1}, {{0}}, {}) \cup MCMixtures({1}, {{1}}, {})
      \cup MCMixtures({None}, {{}}, Variants) \cup MCMixtures({1}, {{0}}, {plain})
      \cup MCVariations \cup MCForgiving
=============================================================================
