------------------------------- MODULE Files -------------------------------
(***************************************************************************)
(* simrs-fs: the static file tree, the selection context (SelectionCtx),   *)
(* its snapshot by file identifiers, the mutable data store (FsData) and   *)
(* the table of deactivated files.  Everything here is a function of the   *)
(* state its users keep.                                                   *)
(*                                                                         *)
(* A file is an element of Dfs or Efs.  An EF's content is one value per   *)
(* record; a transparent EF has one.  The AID of a SELECT is the set of    *)
(* the ADFs whose stored AID it is a prefix of.                            *)
(***************************************************************************)
EXTENDS Integers, FiniteSets, Sequences

CONSTANTS
    Dfs, Efs,     \* DfDef and EfDef objects
    Mf,           \* the root
    Adfs,         \* roots of the ADF table, in its order
    Kids,         \* DfDef.children
    Root,         \* root of the tree a DF is in
    Fid,          \* file identifiers
    MfFid,        \* 3F00
    CurAdfFid,    \* 7FFF
    Structure,    \* "transparent", "linear" or "cyclic"
    Records,      \* number of records
    ValMax,       \* largest value of a record
    TrackerCap,   \* 16 in the code
    NoFile        \* None; Fid::NONE in a snapshot

Files == Dfs \cup Efs
AdfRoots == {Adfs[i] : i \in DOMAIN Adfs}

\* What a profile guarantees: a DF is reached from one root, children of a DF
\* have distinct identifiers (assert_fids_unique), the reserved identifiers are
\* not used below a root, and no two DFs of the profile share an identifier.
ASSUME TreeAssumption ==
    /\ Dfs \cap Efs = {} /\ NoFile \notin Files
    /\ Mf \in Dfs /\ Adfs \in Seq(Dfs)
    /\ Mf \notin AdfRoots
    /\ Kids \in [Dfs -> SUBSET Files]
    /\ Root \in [Dfs -> AdfRoots \cup {Mf}]
    /\ \A r \in AdfRoots \cup {Mf} : Root[r] = r
    /\ \A d \in Dfs : \A k \in Kids[d] \cap Dfs : Root[k] = Root[d]
ASSUME FidAssumption ==
    /\ DOMAIN Fid = Files
    /\ NoFile \notin {Fid[x] : x \in Files}
    /\ Fid[Mf] = MfFid
    /\ \A d \in Dfs : \A k, l \in Kids[d] : Fid[k] = Fid[l] => k = l
    /\ \A d, e \in Dfs : Fid[d] = Fid[e] => d = e
ASSUME DataAssumption ==
    /\ Structure \in [Efs -> {"transparent", "linear", "cyclic"}]
    /\ Records \in [Efs -> Nat \ {0}]
    /\ ValMax \in [Efs -> Nat]
    /\ TrackerCap \in Nat

\* ---- SelectionCtx ----
Ctx == [df : Dfs, ef : Efs \cup {NoFile}, adf : AdfRoots \cup {NoFile}]
NewCtx == [df |-> Mf, ef |-> NoFile, adf |-> NoFile]

Found(ctx, sel) == [ok |-> TRUE, ctx |-> ctx, sel |-> sel]
NotFound(ctx) == [ok |-> FALSE, ctx |-> ctx, sel |-> NoFile]
Named(d, fid) == {k \in Kids[d] : Fid[k] = fid}

\* Mutant: selecting a DF leaves the current EF.
select_keeps_ef(ctx, fid) ==
    IF fid = MfFid THEN Found(NewCtx, Mf)
    ELSE IF fid = CurAdfFid
    THEN IF ctx.adf = NoFile THEN NotFound(ctx)
         ELSE Found([ctx EXCEPT !.df = ctx.adf, !.ef = NoFile], ctx.adf)
    ELSE IF Named(ctx.df, fid) = {} THEN NotFound(ctx)
    ELSE LET k == CHOOSE k \in Named(ctx.df, fid) : TRUE
         IN Found(IF k \in Efs THEN [ctx EXCEPT !.ef = k]
                  ELSE [ctx EXCEPT !.df = k], k)
select_by_fid(ctx, fid) ==
    IF fid = MfFid THEN Found(NewCtx, Mf)
    ELSE IF fid = CurAdfFid
    THEN IF ctx.adf = NoFile THEN NotFound(ctx)
         ELSE Found([ctx EXCEPT !.df = ctx.adf, !.ef = NoFile], ctx.adf)
    ELSE IF Named(ctx.df, fid) = {} THEN NotFound(ctx)
    ELSE LET k == CHOOSE k \in Named(ctx.df, fid) : TRUE
         IN Found(IF k \in Efs THEN [ctx EXCEPT !.ef = k]
                  ELSE [ctx EXCEPT !.df = k, !.ef = NoFile], k)

\* slots is the set of ADF table entries the AID matches; the first one wins.
select_by_aid(ctx, slots) ==
    IF slots = {} THEN NotFound(ctx)
    ELSE LET a == Adfs[CHOOSE i \in slots : \A j \in slots : i <= j]
         IN Found([df |-> a, ef |-> NoFile, adf |-> a], a)

\* A path of at most PathMax identifiers, the depth of the deepest file.  The
\* context stays where a path that cannot be followed broke off.
PathMax == 3
Along(r, path, i) ==
    IF r.ok /\ i <= Len(path) THEN select_by_fid(r.ctx, path[i]) ELSE r
select_by_path(ctx, path, from_mf) ==
    LET start == IF from_mf THEN NewCtx ELSE ctx
    IN Along(Along(Along(Found(start, start.df), path, 1), path, 2), path, 3)

\* ---- Snapshot of a context ----
save_state(ctx) ==
    [df |-> Fid[ctx.df],
     ef |-> IF ctx.ef = NoFile THEN NoFile ELSE Fid[ctx.ef],
     adf |-> IF ctx.adf = NoFile THEN NoFile ELSE Fid[ctx.adf]]

find_df_recursive(root, fid) == {d \in Dfs : Root[d] = root /\ Fid[d] = fid}
OneOf(S) == IF S = {} THEN NoFile ELSE CHOOSE x \in S : TRUE

\* Mutant: the EF is looked for on the whole card.
restore_ef_anywhere(s) ==
    LET inMf == find_df_recursive(Mf, s.df)
        inAdfs == UNION {find_df_recursive(a, s.df) : a \in AdfRoots}
    IN [df |-> OneOf(IF inMf # {} THEN inMf ELSE inAdfs),
        ef |-> IF s.ef = NoFile THEN NoFile ELSE OneOf({e \in Efs : Fid[e] = s.ef}),
        adf |-> IF s.adf = NoFile THEN NoFile
                ELSE OneOf({a \in AdfRoots : Fid[a] = s.adf})]
\* The MF tree is searched before the ADF trees, and the EF below the DF found.
restore_state(s) ==
    LET inMf == find_df_recursive(Mf, s.df)
        inAdfs == UNION {find_df_recursive(a, s.df) : a \in AdfRoots}
        df == OneOf(IF inMf # {} THEN inMf ELSE inAdfs)
    IN [df |-> df,
        ef |-> IF s.ef = NoFile \/ df = NoFile THEN NoFile
               ELSE OneOf({e \in Kids[df] \cap Efs : Fid[e] = s.ef}),
        adf |-> IF s.adf = NoFile THEN NoFile
                ELSE OneOf({a \in AdfRoots : Fid[a] = s.adf})]

\* ---- FsData ----
Content(e) == [1 .. Records[e] -> 0 .. ValMax[e]]
Contents == {c \in [Efs -> UNION {Content(e) : e \in Efs}] :
                \A e \in Efs : c[e] \in Content(e)}

write_binary(c, e, v) ==
    IF Structure[e] = "transparent" THEN [c EXCEPT ![e] = [@ EXCEPT ![1] = v]] ELSE c
write_record(c, e, n, v) ==
    IF Structure[e] # "transparent" /\ n \in 1 .. Records[e]
    THEN [c EXCEPT ![e] = [@ EXCEPT ![n] = v]] ELSE c
\* INCREASE adds to record 1 and refuses a sum that does not fit.
increase(c, e, v) ==
    IF Structure[e] = "cyclic" /\ c[e][1] + v <= ValMax[e]
    THEN [c EXCEPT ![e] = [@ EXCEPT ![1] = c[e][1] + v]] ELSE c

\* ---- DeactivationTracker ----
\* Identifiers, not files; a full table drops the request.
deactivate_file(dead, fid) ==
    IF Cardinality(dead) >= TrackerCap THEN dead ELSE dead \cup {fid}
activate_file(dead, fid) == dead \ {fid}
=============================================================================
