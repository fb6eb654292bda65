------------------------------ MODULE SimProofs ------------------------------
(* Proofs about the applications and the card that holds them.  First Usim,  *)
(* for every file tree, profile and set of channels; then Sim, under the     *)
(* standard reset policy: what leaves either application has been paid for   *)
(* with a PIN of the current session.  The second part builds on the first,  *)
(* because the commands of Usim are steps of the card.                       *)
EXTENDS Sim, FiniteSetTheorems, WellFoundedInduction, TLAPS

\* Part one: Usim.
\* ---- Selection ----
Good(ctx) == ctx \in Ctx /\ Coherent(ctx)

\* What a SELECT leaves behind: a coherent context, whose current DF or EF is
\* the file it reports.
GoodResult(r) ==
    /\ Good(r.ctx)
    /\ r.ok \in BOOLEAN
    /\ r.ok => r.sel \in Files /\ r.sel \in {r.ctx.df, r.ctx.ef}

\* The roots of the application trees are DFs other than the MF.
LEMMA Roots == AdfRoots \subseteq Dfs /\ \A i \in DOMAIN Adfs : Adfs[i] \in AdfRoots
  <1>1. \A i \in DOMAIN Adfs : Adfs[i] \in Dfs
    BY TreeAssumption
  <1> QED
    BY <1>1 DEF AdfRoots

\* A card that was just reset stands in the MF.
LEMMA NewCtxGood == Good(NewCtx)
  BY TreeAssumption DEF Good, NewCtx, Ctx, Coherent, AdfRoots

\* SELECT by identifier keeps a context coherent, found or not.
LEMMA FidGood ==
  ASSUME NEW ctx, NEW fid, Good(ctx)
  PROVE  GoodResult(select_by_fid(ctx, fid))
  <1> DEFINE r == select_by_fid(ctx, fid)
  <1> USE DEF Found, NotFound
  <1>t. /\ ctx.df \in Dfs /\ ctx.ef \in Efs \cup {NoFile} /\ ctx.adf \in AdfRoots \cup {NoFile}
        /\ ctx = [df |-> ctx.df, ef |-> ctx.ef, adf |-> ctx.adf]
        /\ ctx.adf = IF Root[ctx.df] = Mf THEN NoFile ELSE Root[ctx.df]
        /\ NoFile \notin Files
    BY TreeAssumption DEF Good, Ctx, Coherent
  <1>1. CASE fid = MfFid
    <2>1. r = [ok |-> TRUE, ctx |-> NewCtx, sel |-> Mf]
      BY <1>1 DEF select_by_fid
    <2> QED
      BY <2>1, NewCtxGood, TreeAssumption DEF GoodResult, NewCtx, Files
  <1>2. CASE fid # MfFid /\ fid = CurAdfFid /\ ctx.adf # NoFile
    <2>1. r = [ok |-> TRUE, ctx |-> [df |-> ctx.adf, ef |-> NoFile, adf |-> ctx.adf],
               sel |-> ctx.adf]
      BY <1>2, <1>t DEF select_by_fid
    <2>2. ctx.adf \in AdfRoots /\ ctx.adf \in Dfs /\ Root[ctx.adf] = ctx.adf /\ ctx.adf # Mf
      BY <1>2, <1>t, Roots, TreeAssumption
    <2> QED
      BY <2>1, <2>2 DEF GoodResult, Good, Ctx, Coherent, Files
  <1>3. CASE /\ fid # MfFid
             /\ \/ fid = CurAdfFid /\ ctx.adf = NoFile
                \/ fid # CurAdfFid /\ Named(ctx.df, fid) = {}
    <2>1. r = [ok |-> FALSE, ctx |-> ctx, sel |-> NoFile]
      BY <1>3 DEF select_by_fid
    <2> QED
      BY <2>1 DEF GoodResult
  <1>4. CASE fid # MfFid /\ fid # CurAdfFid /\ Named(ctx.df, fid) # {}
    <2> DEFINE k == CHOOSE k \in Named(ctx.df, fid) : TRUE
    <2>1. k \in Kids[ctx.df]
      BY <1>4 DEF Named
    <2>2. k \in Files
      BY <2>1, <1>t, TreeAssumption
    <2>3. CASE k \in Efs
      <3>1. r = [ok |-> TRUE, ctx |-> [df |-> ctx.df, ef |-> k, adf |-> ctx.adf], sel |-> k]
        BY <1>4, <1>t, <2>3 DEF select_by_fid
      <3> HIDE DEF k
      <3> QED
        BY <3>1, <2>1, <2>2, <2>3, <1>t DEF GoodResult, Good, Ctx, Coherent
    <2>4. CASE k \notin Efs
      <3>1. r = [ok |-> TRUE, ctx |-> [df |-> k, ef |-> NoFile, adf |-> ctx.adf], sel |-> k]
        BY <1>4, <1>t, <2>4 DEF select_by_fid
      <3> HIDE DEF k
      <3>2. k \in Dfs /\ Root[k] = Root[ctx.df]
        BY <2>1, <2>2, <2>4, <1>t, TreeAssumption DEF Files
      <3> QED
        BY <3>1, <3>2, <2>2, <1>t DEF GoodResult, Good, Ctx, Coherent
    <2> HIDE DEF k
    <2> QED
      BY <2>3, <2>4
  <1> QED
    BY <1>1, <1>2, <1>3, <1>4

\* A set of table entries has a first one.
LEMMA FirstSlot ==
  ASSUME NEW slots \in SUBSET DOMAIN Adfs, slots # {}
  PROVE  \E i \in slots : \A j \in slots : i <= j
  <1>1. slots \subseteq Nat
    BY TreeAssumption
  <1>2. PICK i \in slots : \A j \in slots : ~(<<j, i>> \in OpToRel(<, Nat))
    BY <1>1, NatLessThanWellFounded, WFMin
  <1>3. \A j \in slots : ~(j < i)
    BY <1>1, <1>2 DEF OpToRel
  <1> QED
    BY <1>1, <1>3

\* SELECT by AID enters the tree of the first match, or stays.
LEMMA AidGood ==
  ASSUME NEW ctx, Good(ctx), NEW slots \in SUBSET DOMAIN Adfs
  PROVE  GoodResult(select_by_aid(ctx, slots))
  <1> USE DEF Found, NotFound
  <1>1. CASE slots = {}
    BY <1>1 DEF select_by_aid, GoodResult
  <1>2. CASE slots # {}
    <2> DEFINE i == CHOOSE i \in slots : \A j \in slots : i <= j
               a == Adfs[i]
    <2>1. i \in slots
      BY <1>2, FirstSlot
    <2>2. select_by_aid(ctx, slots)
          = [ok |-> TRUE, ctx |-> [df |-> a, ef |-> NoFile, adf |-> a], sel |-> a]
      BY <1>2 DEF select_by_aid
    <2> HIDE DEF i
    <2>3. a \in AdfRoots /\ a \in Dfs
      BY <2>1, Roots
    <2> HIDE DEF a
    <2>4. Root[a] = a /\ a # Mf
      BY <2>3, TreeAssumption
    <2> QED
      BY <2>2, <2>3, <2>4, TreeAssumption DEF GoodResult, Good, Ctx, Coherent, Files
  <1> QED
    BY <1>1, <1>2

\* One more identifier of a path.
LEMMA AlongGood ==
  ASSUME NEW r, GoodResult(r), NEW path, NEW i
  PROVE  GoodResult(Along(r, path, i))
  BY FidGood DEF Along, GoodResult

\* SELECT by path ends in a coherent context also when it breaks off.
LEMMA PathGood ==
  ASSUME NEW ctx, Good(ctx), NEW path, NEW from_mf \in BOOLEAN
  PROVE  GoodResult(select_by_path(ctx, path, from_mf))
  <1> DEFINE start == IF from_mf THEN NewCtx ELSE ctx
  <1>1. Good(start)
    BY NewCtxGood
  <1> HIDE DEF start
  <1>2. start.df \in Files
    BY <1>1 DEF Good, Ctx, Files
  <1>3. GoodResult(Found(start, start.df))
    BY <1>1, <1>2 DEF Found, GoodResult
  <1>4. GoodResult(Along(Along(Along(Found(start, start.df), path, 1), path, 2), path, 3))
    BY <1>3, AlongGood
  <1> QED
    BY <1>4 DEF select_by_path, start

\* ---- Snapshots of a context ----
\* The chosen element of a singleton is that element.
LEMMA OneOfSingle == ASSUME NEW x PROVE OneOf({x}) = x
  BY DEF OneOf

\* Identifiers lead back to the files of a coherent context, although EFs of
\* different DFs share them.
LEMMA RestoreExact ==
  ASSUME NEW ctx, Good(ctx)
  PROVE  restore_state(save_state(ctx)) = ctx
  <1> DEFINE s == save_state(ctx)
             inMf == find_df_recursive(Mf, s.df)
             inAdfs == UNION {find_df_recursive(a, s.df) : a \in AdfRoots}
             df == OneOf(IF inMf # {} THEN inMf ELSE inAdfs)
  <1>t. /\ ctx.df \in Dfs /\ ctx.ef \in Efs \cup {NoFile} /\ ctx.adf \in AdfRoots \cup {NoFile}
        /\ ctx = [df |-> ctx.df, ef |-> ctx.ef, adf |-> ctx.adf]
        /\ ctx.ef # NoFile => ctx.ef \in Kids[ctx.df]
    BY DEF Good, Ctx, Coherent
  <1>f. /\ NoFile \notin {Fid[x] : x \in Files}
        /\ \A d, e \in Dfs : Fid[d] = Fid[e] => d = e
        /\ \A d \in Dfs : \A k, l \in Kids[d] : Fid[k] = Fid[l] => k = l
        /\ Root[ctx.df] \in AdfRoots \cup {Mf} /\ Kids[ctx.df] \subseteq Files
    BY <1>t, FidAssumption, TreeAssumption
  <1>s. /\ s.df = Fid[ctx.df]
        /\ s.ef = IF ctx.ef = NoFile THEN NoFile ELSE Fid[ctx.ef]
        /\ s.adf = IF ctx.adf = NoFile THEN NoFile ELSE Fid[ctx.adf]
    BY DEF save_state
  <1>1. df = ctx.df
    <2>1. inMf \subseteq {ctx.df} /\ inAdfs \subseteq {ctx.df}
      BY <1>s, <1>t, <1>f DEF find_df_recursive
    <2>2. ctx.df \in inMf \/ ctx.df \in inAdfs
      BY <1>s, <1>t, <1>f DEF find_df_recursive
    <2>3. (IF inMf # {} THEN inMf ELSE inAdfs) = {ctx.df}
      BY <2>1, <2>2
    <2> QED
      BY <2>3, OneOfSingle
  <1>2. ctx.ef # NoFile => {e \in Kids[ctx.df] \cap Efs : Fid[e] = s.ef} = {ctx.ef}
    BY <1>s, <1>t, <1>f
  <1>3. s.ef = NoFile <=> ctx.ef = NoFile
    <2>1. ctx.ef # NoFile => Fid[ctx.ef] \in {Fid[x] : x \in Files}
      BY <1>t DEF Files
    <2> QED
      BY <2>1, <1>s, <1>f
  <1>4. ctx.adf # NoFile => {a \in AdfRoots : Fid[a] = s.adf} = {ctx.adf}
    BY <1>s, <1>t, <1>f, Roots
  <1>5. s.adf = NoFile <=> ctx.adf = NoFile
    <2>1. ctx.adf # NoFile => Fid[ctx.adf] \in {Fid[x] : x \in Files}
      BY <1>t, Roots DEF Files
    <2> QED
      BY <2>1, <1>s, <1>f
  <1>6. NoFile \notin Dfs
    BY TreeAssumption DEF Files
  <1>7. restore_state(s)
        = [df |-> df,
           ef |-> IF s.ef = NoFile \/ df = NoFile THEN NoFile
                  ELSE OneOf({e \in Kids[df] \cap Efs : Fid[e] = s.ef}),
           adf |-> IF s.adf = NoFile THEN NoFile
                   ELSE OneOf({a \in AdfRoots : Fid[a] = s.adf})]
    BY DEF restore_state
  <1> HIDE DEF s, df
  <1>8. restore_state(s) = [df |-> ctx.df, ef |-> ctx.ef, adf |-> ctx.adf]
    BY <1>1, <1>2, <1>3, <1>4, <1>5, <1>6, <1>7, <1>t, OneOfSingle
  <1> QED
    BY <1>8, <1>t DEF s

\* ---- Contents ----
\* Replacing the content of one file by one of its own contents.
LEMMA ContentsUpdate ==
  ASSUME NEW c \in Contents, NEW e \in Efs, NEW n \in 1 .. Records[e], NEW v \in 0 .. ValMax[e]
  PROVE  [c EXCEPT ![e] = [@ EXCEPT ![n] = v]] \in Contents
  <1> DEFINE f == [c[e] EXCEPT ![n] = v]
             d == [c EXCEPT ![e] = f]
  <1>1. c \in [Efs -> UNION {Content(x) : x \in Efs}] /\ \A x \in Efs : c[x] \in Content(x)
    BY DEF Contents
  <1>2. f \in Content(e)
    BY <1>1 DEF Content
  <1> HIDE DEF f
  <1>3. d \in [Efs -> UNION {Content(x) : x \in Efs}]
    BY <1>1, <1>2
  <1>4. \A x \in Efs : d[x] \in Content(x)
    BY <1>1, <1>2
  <1>5. d \in Contents
    BY <1>3, <1>4 DEF Contents
  <1> QED
    BY <1>5 DEF f

\* The first record of a file is a number up to its maximum.
LEMMA FirstRecord ==
  ASSUME NEW c \in Contents, NEW e \in Efs
  PROVE  c[e][1] \in 0 .. ValMax[e] /\ 1 \in 1 .. Records[e] /\ ValMax[e] \in Nat
         /\ DOMAIN c = Efs /\ 1 \in DOMAIN c[e]
  <1>1. Records[e] \in Nat \ {0} /\ ValMax[e] \in Nat
    BY DataAssumption
  <1>2. c[e] \in [1 .. Records[e] -> 0 .. ValMax[e]] /\ DOMAIN c = Efs
    BY DEF Contents, Content
  <1> QED
    BY <1>1, <1>2

\* The writes of FsData and the phonebook counters keep contents contents.
LEMMA WritesInContents ==
  ASSUME NEW c \in Contents, NEW e \in Efs
  PROVE  /\ \A v \in 0 .. ValMax[e] : write_binary(c, e, v) \in Contents
         /\ \A n, v : v \in 0 .. ValMax[e] => write_record(c, e, n, v) \in Contents
         /\ \A v \in Nat : increase(c, e, v) \in Contents
         /\ increment_counter(c, e) \in Contents
  <1>f. c[e][1] \in 0 .. ValMax[e] /\ 1 \in 1 .. Records[e] /\ ValMax[e] \in Nat
    BY FirstRecord
  <1>1. \A v \in 0 .. ValMax[e] : write_binary(c, e, v) \in Contents
    BY <1>f, ContentsUpdate DEF write_binary
  <1>2. ASSUME NEW n, NEW v \in 0 .. ValMax[e] PROVE write_record(c, e, n, v) \in Contents
    BY ContentsUpdate DEF write_record
  <1>3. ASSUME NEW v \in Nat PROVE increase(c, e, v) \in Contents
    <2>1. CASE Structure[e] = "cyclic" /\ c[e][1] + v <= ValMax[e]
      <3>1. c[e][1] + v \in 0 .. ValMax[e]
        BY <1>f, <2>1
      <3> QED
        BY <3>1, <2>1, <1>f, ContentsUpdate DEF increase
    <2> QED
      BY <2>1 DEF increase
  <1>4. increment_counter(c, e) \in Contents
    <2>1. (c[e][1] + 1) % (ValMax[e] + 1) \in 0 .. ValMax[e]
      BY <1>f
    <2> QED
      BY <2>1, <1>f, ContentsUpdate DEF increment_counter
  <1> QED
    BY <1>1, <1>2, <1>3, <1>4

\* The counters of a phonebook update stay contents.
LEMMA CountersInContents ==
  ASSUME NEW c \in Contents, NEW df \in Dfs, NEW e \in Efs
  PROVE  increment_phonebook_counters(c, df, e) \in Contents
  <1>1. CASE df # Phonebook
    BY <1>1 DEF increment_phonebook_counters
  <1>2. CASE df = Phonebook
    <2>1. Psc \in Efs /\ Cc \in Efs
      BY <1>2, PhonebookAssumption
    <2>2. increment_counter(c, Psc) \in Contents
      BY <2>1, WritesInContents
    <2>3. increment_counter(increment_counter(c, Psc), Cc) \in Contents
      BY <2>1, <2>2, WritesInContents
    <2> QED
      BY <2>2, <2>3 DEF increment_phonebook_counters
  <1> QED
    BY <1>1, <1>2

\* ---- The inductive invariant ----
FsOK == fs \in [Chans -> Ctx \cup {Closed}] /\ SelectionSound
DeadOK == dead \subseteq {Fid[e] : e \in Efs} /\ IsFiniteSet(dead) /\ Cardinality(dead) <= TrackerCap
UsimInv == TypeOK /\ IsFiniteSet(dead) /\ SelectionSound /\ QueuedIsCurrent

\* The context of an open channel.
LEMMA OpenIsGood ==
  ASSUME FsOK, NEW ch \in Chans, Open(ch)
  PROVE  Good(fs[ch]) /\ fs[ch].df \in Dfs /\ fs[ch].ef \in Efs \cup {NoFile}
  BY DEF FsOK, SelectionSound, Good, Open, Ctx

\* A queue that holds nothing, or no file's description, describes nothing.
NoFcp(q) == q = NoRsp \/ q \in {Rsp(0, x) : x \in Computed}

\* The rest of the state, as most commands leave it.
Quiet == /\ NoFcp(queue')
         /\ lastAid' \in BOOLEAN
         /\ shown' \subseteq DOMAIN PinSlots
         /\ out' \in Efs \cup Identities \cup {NoFile}

\* Assembling the invariant after a step whose response queue has no FCP.
LEMMA Assemble ==
  ASSUME FsOK', DeadOK', content' \in Contents, Quiet
  PROVE  UsimInv'
  <1>1. queue' \in [from : Chans, file : Files \cup Computed] \cup {NoRsp}
    BY ChansAssumption DEF Quiet, NoFcp, Rsp
  <1>2. QueuedIsCurrent'
    <2>1. queue' = NoRsp \/ queue'.file \in Computed
      BY DEF Quiet, NoFcp, Rsp
    <2>2. Computed \cap Files = {}
      BY TokensAssumption
    <2> QED
      BY <2>1, <2>2 DEF QueuedIsCurrent
  <1> QED
    BY <1>1, <1>2 DEF UsimInv, TypeOK, FsOK, DeadOK, Quiet

\* The parts of the invariant.
LEMMA Parts ==
  ASSUME UsimInv
  PROVE  /\ FsOK /\ DeadOK /\ content \in Contents /\ lastAid \in BOOLEAN
         /\ shown \subseteq DOMAIN PinSlots /\ out \in Efs \cup Identities \cup {NoFile}
  BY DEF UsimInv, TypeOK, FsOK, DeadOK

\* The initial state.
LEMMA InitInv == Init => UsimInv
  <1> SUFFICES ASSUME Init PROVE UsimInv
    OBVIOUS
  <1>1. Good(NewCtx) /\ 0 \in Chans /\ Closed \notin Ctx
    BY NewCtxGood, ChansAssumption, TokensAssumption
  <1>2. fs \in [Chans -> Ctx \cup {Closed}] /\ SelectionSound
    BY <1>1 DEF Init, SelectionSound, Open, Good
  <1>3. content \in Contents
    <2>1. \A e \in Efs : content[e] \in Content(e)
      BY DataAssumption DEF Init, Template, Content
    <2>2. content \in [Efs -> UNION {Content(e) : e \in Efs}]
      BY <2>1 DEF Init, Template
    <2> QED
      BY <2>1, <2>2 DEF Contents
  <1>4. IsFiniteSet({}) /\ Cardinality({}) = 0 /\ 0 <= TrackerCap
    BY FS_EmptySet, DataAssumption
  <1> QED
    BY <1>2, <1>3, <1>4 DEF Init, UsimInv, TypeOK, QueuedIsCurrent

\* Steps that touch neither contexts nor files.
LEMMA StillStep ==
  ASSUME UsimInv, UNCHANGED <<fs, content, dead>>, Quiet
  PROVE  UsimInv'
  <1>1. FsOK' /\ DeadOK' /\ content' \in Contents
    BY Parts DEF FsOK, DeadOK, SelectionSound, Open
  <1> QED
    BY <1>1, Assemble

\* SELECT in all its forms.
LEMMA SelectStep ==
  ASSUME UsimInv, NEW ch \in Chans, Open(ch), NEW r, GoodResult(r), NEW noData \in BOOLEAN,
         Selects(ch, r, noData), lastAid' \in BOOLEAN
  PROVE  UsimInv'
  <1>t. fs \in [Chans -> Ctx \cup {Closed}] /\ Closed \notin Ctx /\ r.ctx \in Ctx
        /\ Coherent(r.ctx)
    BY TokensAssumption DEF UsimInv, TypeOK, GoodResult, Good
  <1>1. fs' = [fs EXCEPT ![ch] = r.ctx] /\ fs'[ch] = r.ctx
    BY <1>t DEF Selects
  <1>2. fs' \in [Chans -> Ctx \cup {Closed}]
    BY <1>t, <1>1
  <1>3. SelectionSound'
    BY <1>t, <1>1 DEF UsimInv, SelectionSound, Open
  <1>4. queue' \in [from : Chans, file : Files \cup Computed] \cup {NoRsp}
    BY DEF Selects, Rsp, GoodResult
  <1>5. QueuedIsCurrent'
    <2>1. CASE r.ok /\ ~noData
      <3>1. queue'.from = ch /\ queue'.file = r.sel
        BY <2>1 DEF Selects, Rsp
      <3>2. r.sel \in {fs'[ch].df, fs'[ch].ef} /\ fs'[ch] # Closed
        BY <2>1, <1>1, <1>t DEF GoodResult
      <3> QED
        BY <3>1, <3>2 DEF QueuedIsCurrent, Open
    <2>2. CASE ~(r.ok /\ ~noData)
      BY <2>2 DEF Selects, QueuedIsCurrent
    <2> QED
      BY <2>1, <2>2
  <1> QED
    BY <1>2, <1>3, <1>4, <1>5 DEF Selects, UsimInv, TypeOK

\* The commands that write contents.
LEMMA UpdateStep ==
  ASSUME UsimInv, content' \in Contents, UNCHANGED <<fs, dead>>, Quiet
  PROVE  UsimInv'
  <1>1. FsOK' /\ DeadOK'
    BY Parts DEF FsOK, DeadOK, SelectionSound, Open
  <1> QED
    BY <1>1, Assemble

\* Resets, refreshes and MANAGE CHANNEL.
LEMMA ChannelStep ==
  ASSUME UsimInv, fs' \in [Chans -> Ctx \cup {Closed}], fs'[0] # Closed,
         \A ch \in Chans : fs'[ch] \in {NewCtx, Closed, fs[ch]},
         UNCHANGED content, dead' \in {dead, {}}, Quiet
  PROVE  UsimInv'
  <1>1. FsOK'
    BY NewCtxGood, Parts DEF FsOK, SelectionSound, Open, Good
  <1>2. IsFiniteSet({}) /\ Cardinality({}) = 0 /\ 0 <= TrackerCap
    BY FS_EmptySet, DataAssumption
  <1>3. DeadOK'
    BY <1>2, Parts DEF DeadOK
  <1> QED
    BY <1>1, <1>3, Parts, Assemble

\* DEACTIVATE FILE and ACTIVATE FILE keep the table within its capacity.
LEMMA DeadStep ==
  ASSUME UsimInv, NEW e \in Efs,
         dead' = deactivate_file(dead, Fid[e]) \/ dead' = activate_file(dead, Fid[e]),
         UNCHANGED <<fs, content>>, Quiet
  PROVE  UsimInv'
  <1>1. FsOK' /\ content' \in Contents
    BY Parts DEF FsOK, SelectionSound, Open
  <1>d. DeadOK /\ TrackerCap \in Nat /\ Cardinality(dead) \in Nat
    BY Parts, DataAssumption, FS_CardinalityType DEF DeadOK
  <1>2. DeadOK'
    <2>1. CASE dead' = deactivate_file(dead, Fid[e])
      <3>0. /\ IsFiniteSet(dead \cup {Fid[e]})
            /\ Cardinality(dead \cup {Fid[e]})
               = IF Fid[e] \in dead THEN Cardinality(dead) ELSE Cardinality(dead) + 1
        BY <1>d, FS_AddElement DEF DeadOK
      <3>1. IsFiniteSet(dead \cup {Fid[e]})
            /\ Cardinality(dead \cup {Fid[e]}) <= Cardinality(dead) + 1
        BY <3>0, <1>d
      <3>2. Cardinality(dead \cup {Fid[e]}) \in Nat
        BY <3>1, FS_CardinalityType
      <3> QED
        BY <2>1, <3>1, <3>2, <1>d DEF DeadOK, deactivate_file
    <2>2. CASE dead' = activate_file(dead, Fid[e])
      <3>1. IsFiniteSet(dead \ {Fid[e]}) /\ Cardinality(dead \ {Fid[e]}) <= Cardinality(dead)
        BY <1>d, FS_Subset DEF DeadOK
      <3>2. Cardinality(dead \ {Fid[e]}) \in Nat
        BY <3>1, FS_CardinalityType
      <3> QED
        BY <2>2, <3>1, <3>2, <1>d DEF DeadOK, activate_file
    <2> QED
      BY <2>1, <2>2
  <1> QED
    BY <1>1, <1>2, Assemble

\* A walk that ends in a good result.
Walk(ch) == Open(ch) /\ \E r : \E noData \in BOOLEAN :
               GoodResult(r) /\ Selects(ch, r, noData) /\ lastAid' \in BOOLEAN

\* SELECT is one in each of its forms.
LEMMA SelectWalks == ASSUME UsimInv, NEW ch \in Chans, Select(ch) PROVE Walk(ch)
  <1>1. ASSUME NEW fid \in Fids, NEW noData \in BOOLEAN, select_fid(ch, fid, noData)
        PROVE Walk(ch)
    <2>1. GoodResult(select_by_fid(fs[ch], fid))
      BY <1>1, Parts, OpenIsGood, FidGood DEF select_fid
    <2>2. Open(ch) /\ Selects(ch, select_by_fid(fs[ch], fid), noData) /\ lastAid' \in BOOLEAN
      BY <1>1, Parts DEF select_fid
    <2> QED
      BY <2>1, <2>2 DEF Walk
  <1>2. ASSUME NEW slots \in SUBSET DOMAIN Adfs, NEW next \in BOOLEAN, NEW noData \in BOOLEAN,
               select_aid(ch, slots, next, noData)
        PROVE Walk(ch)
    <2> DEFINE r == select_by_aid(fs[ch], slots)
    <2>1. Open(ch) /\ Good(fs[ch])
      BY <1>2, Parts, OpenIsGood DEF select_aid
    <2>2. GoodResult(r) /\ GoodResult(NotFound(fs[ch]))
      BY <2>1, AidGood DEF GoodResult, NotFound
    <2>3. CASE next /\ lastAid
      <3>1. Selects(ch, NotFound(fs[ch]), noData) /\ lastAid' \in BOOLEAN
        BY <1>2, <2>3, Parts DEF select_aid
      <3> QED
        BY <3>1, <2>1, <2>2 DEF Walk
    <2>4. CASE ~(next /\ lastAid)
      <3>1. Selects(ch, r, noData) /\ lastAid' \in BOOLEAN
        BY <1>2, <2>4, <2>2 DEF select_aid, GoodResult
      <3> QED
        BY <3>1, <2>1, <2>2 DEF Walk
    <2> QED
      BY <2>3, <2>4
  <1>3. ASSUME NEW path \in Paths, NEW from_mf \in BOOLEAN, select_path(ch, path, from_mf, FALSE)
        PROVE Walk(ch)
    <2>1. GoodResult(select_by_path(fs[ch], path, from_mf))
      BY <1>3, Parts, OpenIsGood, PathGood DEF select_path
    <2>2. Open(ch) /\ Selects(ch, select_by_path(fs[ch], path, from_mf), FALSE)
          /\ lastAid' \in BOOLEAN
      BY <1>3, Parts DEF select_path
    <2> QED
      BY <2>1, <2>2 DEF Walk
  <1> QED
    BY <1>1, <1>2, <1>3 DEF Select

LEMMA SelectKeeps == ASSUME UsimInv, NEW ch \in Chans, Select(ch) PROVE UsimInv'
  BY SelectWalks, SelectStep DEF Walk

\* The files a command can name by P1.
LEMMA ByP1InEfs == ASSUME FsOK, NEW ch \in Chans, Open(ch), NEW e \in Efs, e \in ByP1(ch)
                   PROVE  e \in Kids[fs[ch].df] /\ e \in Efs
  BY OpenIsGood DEF ByP1, Good, Coherent

\* The file commands.
LEMMA FileKeeps == ASSUME UsimInv, NEW ch \in Chans, FileCommand(ch) PROVE UsimInv'
  <1>p. FsOK /\ content \in Contents /\ lastAid \in BOOLEAN /\ shown \subseteq DOMAIN PinSlots
    BY Parts
  <1> USE DEF Quiet, NoFcp
  <1>1. ASSUME NEW e \in Efs, handle_read_binary(ch, e) PROVE UsimInv'
    BY <1>1, <1>p, StillStep DEF handle_read_binary, Reads
  <1>2. ASSUME NEW p1 \in P1s, NEW mode \in Modes, handle_read_record(ch, p1, mode)
        PROVE UsimInv'
    <2>1. fs[ch].ef \in Efs
      BY <1>2, <1>p, OpenIsGood DEF handle_read_record
    <2> QED
      BY <1>2, <2>1, <1>p, StillStep DEF handle_read_record, Reads
  <1>3. CASE handle_search_record(ch)
    <2>1. fs[ch].ef \in Efs
      BY <1>3, <1>p, OpenIsGood DEF handle_search_record
    <2> QED
      BY <1>3, <2>1, <1>p, StillStep DEF handle_search_record, Reads
  <1>4. ASSUME NEW e \in Efs, NEW v \in Vals, handle_update_binary(ch, e, v) PROVE UsimInv'
    <2>1. write_binary(content, e, v) \in Contents
      BY <1>4, <1>p, WritesInContents DEF handle_update_binary
    <2>2. increment_phonebook_counters(write_binary(content, e, v), fs[ch].df, e) \in Contents
      BY <2>1, <1>4, <1>p, OpenIsGood, CountersInContents DEF handle_update_binary
    <2>3. content' \in Contents
      BY <2>2, <1>4, <1>p DEF handle_update_binary, Updates
    <2> QED
      BY <2>3, <1>4, <1>p, UpdateStep DEF handle_update_binary, Updates
  <1>5. ASSUME NEW p1 \in P1s, NEW mode \in Modes, NEW v \in Vals,
               handle_update_record(ch, p1, mode, v)
        PROVE UsimInv'
    <2> DEFINE e == fs[ch].ef
               n == resolve_record_num(p1, mode)
    <2>0. Open(ch) /\ e \in Efs /\ fs[ch].df \in Dfs /\ v \in 0 .. ValMax[e]
          /\ Updates(ch, e, write_record(content, e, n, v))
      BY <1>5, <1>p, OpenIsGood DEF handle_update_record
    <2> HIDE DEF e, n
    <2>1. write_record(content, e, n, v) \in Contents
      BY <2>0, <1>p, WritesInContents
    <2>2. increment_phonebook_counters(write_record(content, e, n, v), fs[ch].df, e)
          \in Contents
      BY <2>0, <2>1, CountersInContents
    <2>3. content' \in Contents
      BY <2>2, <2>0, <1>p DEF Updates
    <2> QED
      BY <2>3, <2>0, <1>p, UpdateStep DEF Updates
  <1>6. ASSUME NEW v \in Vals, handle_increase(ch, v) PROVE UsimInv'
    <2>0. fs[ch].ef \in Efs
      BY <1>6, <1>p, OpenIsGood DEF handle_increase
    <2>v. v \in Nat
      BY DataAssumption DEF Vals
    <2>1. increase(content, fs[ch].ef, v) \in Contents
      BY <2>0, <2>v, <1>p, WritesInContents
    <2>2. content' \in Contents
      BY <2>1, <1>6, <1>p DEF handle_increase
    <2> QED
      BY <2>2, <2>0, <1>6, <1>p, UpdateStep DEF handle_increase
  <1>7. CASE handle_deactivate_file(ch) \/ handle_activate_file(ch)
    <2>1. fs[ch].ef \in Efs
      BY <1>7, <1>p, OpenIsGood DEF handle_deactivate_file, handle_activate_file
    <2> QED
      BY <2>1, <1>7, <1>p, DeadStep DEF handle_deactivate_file, handle_activate_file
  <1> QED
    BY <1>1, <1>2, <1>3, <1>4, <1>5, <1>6, <1>7 DEF FileCommand

\* MANAGE CHANNEL.
LEMMA ManageKeeps == ASSUME UsimInv, NEW ch \in Chans, ChannelCommand(ch) PROVE UsimInv'
  <1>p. /\ fs \in [Chans -> Ctx \cup {Closed}] /\ fs[0] # Closed /\ 0 \in Chans
        /\ lastAid \in BOOLEAN /\ shown \subseteq DOMAIN PinSlots
        /\ NewCtx \in Ctx /\ Closed \notin Ctx
    BY Parts, NewCtxGood, ChansAssumption, TokensAssumption
    DEF FsOK, SelectionSound, Open, Good
  <1> USE DEF Quiet, NoFcp
  <1>1. ASSUME NEW new \in Chans, Opens(new) PROVE UsimInv'
    <2>1. fs' \in [Chans -> Ctx \cup {Closed}] /\ fs'[0] # Closed
          /\ \A c \in Chans : fs'[c] \in {NewCtx, Closed, fs[c]}
      BY <1>1, <1>p DEF Opens
    <2> QED
      BY <2>1, <1>1, <1>p, ChannelStep DEF Opens
  <1>2. ASSUME NEW c \in Chans, manage_channel_close(ch, c) PROVE UsimInv'
    <2>1. fs' \in [Chans -> Ctx \cup {Closed}] /\ fs'[0] # Closed
          /\ \A x \in Chans : fs'[x] \in {NewCtx, Closed, fs[x]}
      BY <1>2, <1>p DEF manage_channel_close
    <2> QED
      BY <2>1, <1>2, <1>p, ChannelStep DEF manage_channel_close
  <1> QED
    BY <1>1, <1>2 DEF ChannelCommand, manage_channel_assign, manage_channel_open

\* Every command the application handles keeps the invariant.
LEMMA HandleKeeps == ASSUME UsimInv, NEW ch \in Chans, handle(ch) PROVE UsimInv'
  <1>p. lastAid \in BOOLEAN /\ shown \subseteq DOMAIN PinSlots
    BY Parts
  <1>1. ASSUME NEW results \in SUBSET Computed, Computes(ch, results) PROVE UsimInv'
    BY <1>1, <1>p, StillStep DEF Quiet, NoFcp, Computes
  <1>s. ASSUME handle_status(ch) PROVE UsimInv'
    BY <1>s, <1>p, StillStep DEF Quiet, NoFcp, handle_status
  <1>a. ASSUME handle_authenticate(ch) \/ handle_get_identity(ch) PROVE UsimInv'
    BY <1>1, <1>a DEF handle_authenticate, handle_get_identity, Computed, Identities
  <1>r. ASSUME handle_get_response(ch) PROVE UsimInv'
    <2>1. CASE queue' = NoRsp
      BY <1>r, <2>1, <1>p, StillStep DEF Quiet, NoFcp, handle_get_response
    <2>2. CASE UNCHANGED queue /\ out' = NoFile
      BY <1>r, <2>2 DEF handle_get_response, UsimInv, TypeOK, SelectionSound, QueuedIsCurrent,
                        Open
    <2> QED
      BY <1>r, <2>1, <2>2 DEF handle_get_response
  <1>2. CASE PinCommands(ch)
    <2>1. PICK k \in DOMAIN PinSlots : \E slot, proof : PinCommand(ch, k, slot, proof)
      BY <1>2 DEF PinCommands, handle_verify, handle_disable_pin, handle_enable_pin,
                  handle_change_ref_data, handle_unblock
    <2> QED
      BY <2>1, <1>p, StillStep DEF Quiet, NoFcp, PinCommand
  <1>3. CASE closed_channel(ch)
    BY <1>3 DEF closed_channel, UsimInv, TypeOK, SelectionSound, QueuedIsCurrent, Open
  <1> QED
    BY <1>s, <1>a, <1>r, <1>2, <1>3, SelectKeeps, FileKeeps, ManageKeeps DEF handle

\* A REFRESH the terminal has carried out.
LEMMA RefreshKeeps == ASSUME UsimInv, NEW q \in 0 .. 6, apply_refresh(q) PROVE UsimInv'
  <1>p. /\ fs \in [Chans -> Ctx \cup {Closed}] /\ fs[0] # Closed /\ 0 \in Chans
        /\ lastAid \in BOOLEAN /\ shown \subseteq DOMAIN PinSlots
        /\ NewCtx \in Ctx /\ Closed \notin Ctx
    BY Parts, NewCtxGood, ChansAssumption, TokensAssumption
    DEF FsOK, SelectionSound, Open, Good
  <1>1. CASE q \in {0, 1, 3}
    <2>1. fs' = [ch \in Chans |-> IF Open(ch) THEN NewCtx ELSE Closed]
      BY <1>1 DEF apply_refresh
    <2> QED
      BY <2>1, <1>p, ChannelStep DEF apply_refresh, Quiet, NoFcp, Open
  <1>2. CASE q \in {4, 5}
    <2>1. fs' = [ch \in Chans |-> IF ch = 0 THEN NewCtx ELSE Closed]
      BY <1>2 DEF apply_refresh
    <2> QED
      BY <2>1, <1>p, ChannelStep DEF apply_refresh, Quiet, NoFcp
  <1>3. CASE q \in {2, 6}
    <2>1. fs' = fs
      BY <1>3 DEF apply_refresh
    <2> QED
      BY <2>1, <1>p, ChannelStep DEF apply_refresh, Quiet, NoFcp
  <1> QED
    BY <1>1, <1>2, <1>3

\* A reset of the card.
LEMMA ResetKeeps == ASSUME UsimInv, reset PROVE UsimInv'
  <1>p. NewCtx \in Ctx /\ Closed \notin Ctx /\ 0 \in Chans
    BY NewCtxGood, ChansAssumption, TokensAssumption DEF Good
  <1> QED
    BY <1>p, ChannelStep DEF reset, Quiet, NoFcp

\* Contexts, tables and the queue stay sound in every reachable state.
THEOREM UsimInvariant == Spec => []UsimInv
  <1>1. UsimInv /\ [Next]_usimVars => UsimInv'
    <2> SUFFICES ASSUME UsimInv, [Next]_usimVars PROVE UsimInv'
      OBVIOUS
    <2>1. CASE UNCHANGED usimVars
      BY <2>1 DEF usimVars, UsimInv, TypeOK, SelectionSound, QueuedIsCurrent, Open
    <2> QED
      BY <2>1, HandleKeeps, RefreshKeeps, ResetKeeps DEF Next
  <1> QED
    BY <1>1, InitInv, PTL DEF Spec

\* Every variable keeps its type, and the deactivation table its capacity.
THEOREM TypeCorrect == Spec => []TypeOK
  BY UsimInvariant, PTL DEF UsimInv

\* The selection contexts stay coherent, for every tree and profile.
THEOREM SelectionSoundCorrect == Spec => []SelectionSound
  BY UsimInvariant, PTL DEF UsimInv

\* The response queue never describes a file that is no longer selected.
THEOREM QueuedIsCurrentCorrect == Spec => []QueuedIsCurrent
  BY UsimInvariant, PTL DEF UsimInv

\* A snapshot of any reachable context restores it.
THEOREM SnapshotFaithfulCorrect == Spec => []SnapshotFaithful
  <1>1. UsimInv => SnapshotFaithful
    BY Parts, OpenIsGood, RestoreExact DEF SnapshotFaithful
  <1> QED
    BY <1>1, UsimInvariant, PTL

\* ---- What a step does to one file ----
\* A counter that can count moves when it is incremented; no other file does.
LEMMA IncrementMoves ==
  ASSUME NEW c \in Contents, NEW e \in Efs
  PROVE  /\ \A x \in Efs : x # e => increment_counter(c, e)[x] = c[x]
         /\ ValMax[e] > 0 => increment_counter(c, e)[e] # c[e]
  <1>f. c[e][1] \in 0 .. ValMax[e] /\ ValMax[e] \in Nat /\ DOMAIN c = Efs /\ 1 \in DOMAIN c[e]
    BY FirstRecord
  <1>1. \A x \in Efs : x # e => increment_counter(c, e)[x] = c[x]
    BY <1>f DEF increment_counter
  <1>2. ASSUME ValMax[e] > 0 PROVE increment_counter(c, e)[e] # c[e]
    <2> DEFINE a == c[e][1]
               m == ValMax[e]
    <2>1. ASSUME NEW i \in Nat, NEW b \in Nat, i <= b, b > 0 PROVE (i + 1) % (b + 1) # i
      <3>1. CASE i < b
        BY <2>1, <3>1
      <3>2. CASE i = b
        BY <2>1, <3>2
      <3> QED
        BY <2>1, <3>1, <3>2
    <2>2. (a + 1) % (m + 1) # a
      BY <2>1, <1>2, <1>f
    <2>3. increment_counter(c, e)[e][1] = (a + 1) % (m + 1)
      BY <1>f DEF increment_counter
    <2> QED
      BY <2>2, <2>3
  <1> QED
    BY <1>1, <1>2

\* The phonebook counters move together with nothing else.
LEMMA CountersOnly ==
  ASSUME NEW c \in Contents, NEW df \in Dfs, NEW e \in Efs, NEW x \in Efs, x \notin {Psc, Cc}
  PROVE  increment_phonebook_counters(c, df, e)[x] = c[x]
  <1>1. CASE df # Phonebook
    BY <1>1 DEF increment_phonebook_counters
  <1>2. CASE df = Phonebook
    <2>1. Psc \in Efs /\ Cc \in Efs
      BY <1>2, PhonebookAssumption
    <2>2. increment_counter(c, Psc) \in Contents /\ increment_counter(c, Psc)[x] = c[x]
      BY <2>1, WritesInContents, IncrementMoves
    <2>3. increment_counter(increment_counter(c, Psc), Cc)[x] = c[x]
      BY <2>1, <2>2, IncrementMoves
    <2> QED
      BY <2>2, <2>3 DEF increment_phonebook_counters
  <1> QED
    BY <1>1, <1>2

\* An update of a phonebook file other than the counters moves PSC, and of ADN
\* also CC.
LEMMA CountersMove ==
  ASSUME NEW c \in Contents, Phonebook \in Dfs,
         NEW e \in Efs, e \in Kids[Phonebook], e \notin {Psc, Cc, Puid}
  PROVE  /\ increment_phonebook_counters(c, Phonebook, e)[Psc] # c[Psc]
         /\ e = Adn => increment_phonebook_counters(c, Phonebook, e)[Cc] # c[Cc]
  <1>1. Psc \in Efs /\ Cc \in Efs /\ Psc # Cc /\ ValMax[Psc] > 0 /\ ValMax[Cc] > 0
    BY PhonebookAssumption
  <1> DEFINE d == increment_counter(c, Psc)
  <1>2. d \in Contents /\ d[Psc] # c[Psc] /\ d[Cc] = c[Cc]
    BY <1>1, WritesInContents, IncrementMoves
  <1> HIDE DEF d
  <1>3. increment_counter(d, Cc)[Cc] # d[Cc] /\ increment_counter(d, Cc)[Psc] = d[Psc]
    BY <1>1, <1>2, IncrementMoves
  <1> QED
    BY <1>2, <1>3 DEF increment_phonebook_counters, d

\* A write changes the file it is for.
LEMMA WriteOne ==
  ASSUME NEW c \in Contents, NEW e \in Efs, NEW x \in Efs, x # e, NEW n, NEW v
  PROVE  /\ write_binary(c, e, v)[x] = c[x]
         /\ write_record(c, e, n, v)[x] = c[x]
         /\ increase(c, e, v)[x] = c[x]
  <1>1. DOMAIN c = Efs
    BY FirstRecord
  <1> QED
    BY <1>1 DEF write_binary, write_record, increase

\* What a step can do to contents: update a file by one of the two UPDATE
\* commands, increase a cyclic one, or nothing.
UpdateOf(ch, e, w) ==
    /\ Open(ch) /\ e \in Efs /\ e \in Kids[fs[ch].df] /\ Updatable(e)
    /\ w \in Contents
    /\ \A x \in Efs : x # e => w[x] = content[x]
    /\ content' = increment_phonebook_counters(w, fs[ch].df, e)
IncreaseOf(e) ==
    /\ e \in Efs /\ Structure[e] = "cyclic"
    /\ \A x \in Efs : x # e => content'[x] = content[x]

\* The steps of Next, seen from the files.
LEMMA ContentSteps ==
  ASSUME UsimInv, [Next]_usimVars
  PROVE  \/ content' = content
         \/ \E ch \in Chans, e \in Efs, w \in Contents : UpdateOf(ch, e, w)
         \/ \E e \in Efs : IncreaseOf(e)
  <1>p. FsOK /\ content \in Contents
    BY Parts
  <1> DEFINE Goal == \/ content' = content
                     \/ \E ch \in Chans, e \in Efs, w \in Contents : UpdateOf(ch, e, w)
                     \/ \E e \in Efs : IncreaseOf(e)
  <1>1. ASSUME NEW ch \in Chans, NEW e \in Efs, NEW v \in Vals, handle_update_binary(ch, e, v)
        PROVE Goal
    <2> DEFINE w == write_binary(content, e, v)
    <2>a. w \in Contents
      BY <1>1, <1>p, WritesInContents DEF handle_update_binary
    <2>b. \A x \in Efs : x # e => w[x] = content[x]
      BY <1>p, WriteOne
    <2>1. w \in Contents /\ \A x \in Efs : x # e => w[x] = content[x]
      BY <2>a, <2>b
    <2>2. Open(ch) /\ e \in Kids[fs[ch].df]
      BY <1>1, <1>p, ByP1InEfs DEF handle_update_binary
    <2>3. Updates(ch, e, w)
      BY <1>1 DEF handle_update_binary
    <2> HIDE DEF w
    <2>4. Updatable(e) => UpdateOf(ch, e, w)
      BY <2>1, <2>2, <2>3 DEF Updates, UpdateOf
    <2>5. ~Updatable(e) => content' = content
      BY <2>3 DEF Updates
    <2> QED
      BY <2>1, <2>4, <2>5
  <1>2. ASSUME NEW ch \in Chans, NEW p1 \in P1s, NEW mode \in Modes, NEW v \in Vals,
               handle_update_record(ch, p1, mode, v)
        PROVE Goal
    <2> DEFINE e == fs[ch].ef
               n == resolve_record_num(p1, mode)
               w == write_record(content, e, n, v)
    <2>0. Open(ch) /\ e \in Efs /\ e \in Kids[fs[ch].df] /\ v \in 0 .. ValMax[e]
          /\ Updates(ch, e, w)
      BY <1>2, <1>p, OpenIsGood DEF handle_update_record, Good, Coherent
    <2> HIDE DEF e, n
    <2>1. w \in Contents /\ \A x \in Efs : x # e => w[x] = content[x]
      BY <2>0, <1>p, WritesInContents, WriteOne
    <2> HIDE DEF w
    <2>4. Updatable(e) => UpdateOf(ch, e, w)
      BY <2>0, <2>1 DEF Updates, UpdateOf
    <2>5. ~Updatable(e) => content' = content
      BY <2>0 DEF Updates
    <2> QED
      BY <2>0, <2>1, <2>4, <2>5
  <1>3. ASSUME NEW ch \in Chans, NEW v \in Vals, handle_increase(ch, v) PROVE Goal
    <2> DEFINE e == fs[ch].ef
    <2>1. e \in Efs
      BY <1>3, <1>p, OpenIsGood DEF handle_increase
    <2>2. content' = content \/ (Structure[e] = "cyclic" /\ content' = increase(content, e, v))
      BY <1>3 DEF handle_increase
    <2> HIDE DEF e
    <2>3. content' = content \/ IncreaseOf(e)
      BY <2>1, <2>2, <1>p, WriteOne DEF IncreaseOf
    <2> QED
      BY <2>1, <2>3
  <1>4. ASSUME NEW ch \in Chans, FileCommand(ch) PROVE Goal
    BY <1>1, <1>2, <1>3, <1>4
    DEF FileCommand, handle_read_binary, handle_read_record, handle_search_record, Reads,
        handle_deactivate_file, handle_activate_file
  <1>5. ASSUME NEW ch \in Chans, PinCommands(ch) PROVE content' = content
    BY <1>5 DEF PinCommands, handle_verify, handle_disable_pin, handle_enable_pin,
                handle_change_ref_data, handle_unblock, PinCommand
  <1>6. ASSUME NEW ch \in Chans, Select(ch) PROVE content' = content
    BY <1>6 DEF Select, select_fid, select_aid, select_path, Selects
  <1>7. ASSUME NEW ch \in Chans, ChannelCommand(ch) PROVE content' = content
    BY <1>7 DEF ChannelCommand, manage_channel_assign, manage_channel_open,
                manage_channel_close, Opens
  <1>8. ASSUME NEW ch \in Chans, handle(ch) PROVE Goal
    BY <1>4, <1>5, <1>6, <1>7, <1>8
    DEF handle, handle_get_response, handle_status, handle_authenticate,
        handle_get_identity, Computes, closed_channel
  <1> QED
    BY <1>8 DEF Next, apply_refresh, reset, usimVars

\* What leaves the card: a file that may be read, a cyclic one, or an identity.
LEMMA OutSteps ==
  ASSUME UsimInv, Next
  PROVE  \/ out' \in Identities \cup {NoFile}
         \/ out' \in Efs /\ (Readable(out') \/ Structure[out'] = "cyclic")
  <1>p. FsOK
    BY Parts
  <1>1. ASSUME NEW ch \in Chans, FileCommand(ch)
        PROVE  out' = NoFile \/ (out' \in Efs /\ (Readable(out') \/ Structure[out'] = "cyclic"))
    <2>1. ASSUME NEW e \in Efs, Reads(e) PROVE out' = NoFile \/ (out' \in Efs /\ Readable(out'))
      BY <2>1 DEF Reads
    <2>2. fs[ch].ef # NoFile /\ Open(ch) => fs[ch].ef \in Efs
      BY <1>p, OpenIsGood
    <2>3. ASSUME NEW v, handle_increase(ch, v)
          PROVE  out' = NoFile \/ (out' \in Efs /\ Structure[out'] = "cyclic")
      BY <2>2, <2>3 DEF handle_increase
    <2>4. ASSUME NEW e \in Efs, handle_read_binary(ch, e)
          PROVE  out' = NoFile \/ (out' \in Efs /\ Readable(out'))
      BY <2>4, <2>1 DEF handle_read_binary
    <2>5. ASSUME (\E p1 \in P1s, mode \in Modes : handle_read_record(ch, p1, mode))
                 \/ handle_search_record(ch)
          PROVE  out' = NoFile \/ (out' \in Efs /\ Readable(out'))
      BY <2>5, <2>1, <2>2 DEF handle_read_record, handle_search_record
    <2>6. ASSUME (\E e \in Efs, v \in Vals : handle_update_binary(ch, e, v))
                 \/ (\E p1 \in P1s, mode \in Modes, v \in Vals :
                        handle_update_record(ch, p1, mode, v))
                 \/ handle_deactivate_file(ch) \/ handle_activate_file(ch)
          PROVE  out' = NoFile
      BY <2>6 DEF handle_update_binary, handle_update_record, Updates, handle_deactivate_file,
                  handle_activate_file
    <2> QED
      BY <1>1, <2>3, <2>4, <2>5, <2>6 DEF FileCommand
  <1>2. ASSUME NEW ch \in Chans, PinCommands(ch) PROVE out' = NoFile
    BY <1>2 DEF PinCommands, handle_verify, handle_disable_pin, handle_enable_pin,
                handle_change_ref_data, handle_unblock, PinCommand
  <1>3. ASSUME NEW ch \in Chans, Select(ch) PROVE out' = NoFile
    BY <1>3 DEF Select, select_fid, select_aid, select_path, Selects
  <1>4. ASSUME NEW ch \in Chans, ChannelCommand(ch) PROVE out' = NoFile
    BY <1>4 DEF ChannelCommand, manage_channel_assign, manage_channel_open,
                manage_channel_close, Opens
  <1>5. ASSUME NEW ch \in Chans, handle(ch)
        PROVE  \/ out' \in Identities \cup {NoFile}
               \/ out' \in Efs /\ (Readable(out') \/ Structure[out'] = "cyclic")
    BY <1>1, <1>2, <1>3, <1>4, <1>5
    DEF handle, handle_get_response, handle_status, handle_authenticate,
        handle_get_identity, Computes, closed_channel
  <1> QED
    BY <1>5 DEF Next, apply_refresh, reset

\* Deactivated files are not changed, and no READ or SEARCH hands one out.
THEOREM DeactivatedIsFrozenCorrect == Spec => DeactivatedIsFrozen
  <1>1. UsimInv /\ [Next]_usimVars =>
        [\A e \in Efs \ {Psc, Cc} : is_deactivated(e) /\ Structure[e] # "cyclic"
            => content'[e] = content[e] /\ out' # e]_usimVars
    <2> SUFFICES ASSUME UsimInv, Next,
                        NEW e \in Efs \ {Psc, Cc}, is_deactivated(e), Structure[e] # "cyclic"
                 PROVE  content'[e] = content[e] /\ out' # e
      OBVIOUS
    <2>p. FsOK /\ NoFile \notin Efs /\ Efs \cap Identities = {}
      BY Parts, TreeAssumption, TokensAssumption DEF Files, Computed
    <2>1. content'[e] = content[e]
      <3>1. ASSUME NEW ch \in Chans, NEW x \in Efs, NEW w \in Contents, UpdateOf(ch, x, w)
            PROVE  content'[e] = content[e]
        <4>1. x # e
          BY <3>1 DEF UpdateOf, Updatable
        <4>2. increment_phonebook_counters(w, fs[ch].df, x)[e] = w[e]
          BY <3>1, <2>p, OpenIsGood, CountersOnly DEF UpdateOf
        <4> QED
          BY <4>1, <4>2, <3>1 DEF UpdateOf
      <3>2. ASSUME NEW x \in Efs, IncreaseOf(x) PROVE content'[e] = content[e]
        BY <3>2 DEF IncreaseOf
      <3> QED
        BY <3>1, <3>2, ContentSteps
    <2>2. out' # e
      BY <2>p, OutSteps DEF Readable
    <2> QED
      BY <2>1, <2>2
  <1> QED
    BY <1>1, UsimInvariant, PTL DEF Spec, DeactivatedIsFrozen

\* Where the profile has a phonebook, its counters show every change.
THEOREM PhonebookCorrect == ASSUME Phonebook \in Dfs PROVE Spec => PhonebookSynchronised
  <1>1. UsimInv /\ [Next]_usimVars =>
        [\A e \in (Kids[Phonebook] \cap Efs) \ {Psc, Cc, Puid} :
            content'[e] # content[e] =>
               /\ content'[Psc] # content[Psc]
               /\ e = Adn => content'[Cc] # content[Cc]]_usimVars
    <2> SUFFICES ASSUME UsimInv, Next,
                        NEW e \in (Kids[Phonebook] \cap Efs) \ {Psc, Cc, Puid},
                        content'[e] # content[e]
                 PROVE  /\ content'[Psc] # content[Psc]
                        /\ e = Adn => content'[Cc] # content[Cc]
      OBVIOUS
    <2>p. FsOK
      BY Parts
    <2>b. /\ Structure[e] # "cyclic" /\ \A d \in Dfs : e \in Kids[d] => d = Phonebook
          /\ Psc \in Efs /\ Cc \in Efs
      BY PhonebookAssumption
    <2>1. ~\E x \in Efs : IncreaseOf(x)
      BY <2>b DEF IncreaseOf
    <2>2. PICK ch \in Chans, x \in Efs, w \in Contents : UpdateOf(ch, x, w)
      BY <2>1, ContentSteps
    <2>3. fs[ch].df \in Dfs
      BY <2>2, <2>p, OpenIsGood DEF UpdateOf
    <2>4. x = e
      BY <2>2, <2>3, CountersOnly DEF UpdateOf
    <2>5. fs[ch].df = Phonebook
      BY <2>2, <2>3, <2>4, <2>b DEF UpdateOf
    <2>6. w[Psc] = content[Psc] /\ w[Cc] = content[Cc]
      BY <2>2, <2>4, <2>b DEF UpdateOf
    <2>7. /\ content'[Psc] # w[Psc]
          /\ e = Adn => content'[Cc] # w[Cc]
      BY <2>2, <2>4, <2>5, CountersMove DEF UpdateOf
    <2> QED
      BY <2>6, <2>7
  <1> QED
    BY <1>1, UsimInvariant, PTL DEF Spec, PhonebookSynchronised

\* Part two: Sim.
\* ---- PINs ----
PinRec == [pin : PinValues, pin_retries : Nat, pin_max : Nat, puk : PinValues,
           puk_retries : Nat, enabled : BOOLEAN, verified : BOOLEAN]
PinStore == [DOMAIN PinSlots -> PinRec]
\* A PIN in force that counts as verified was presented.
Paid(ps, sh) == \A k \in DOMAIN PinSlots : ps[k].enabled /\ ps[k].verified => k \in sh

\* A PIN command does not verify an enabled PIN, except VERIFY with the right
\* value while tries are left.
LEMMA PinMethods ==
  ASSUME NEW s \in PinRec, NEW v \in PinValues, NEW new \in PinValues
  PROVE  /\ P!verify(s, v) \in PinRec
         /\ P!verify(s, v).enabled /\ P!verify(s, v).verified
            => (s.enabled /\ s.verified) \/ (s.pin = v /\ s.pin_retries > 0)
         /\ P!change(s, v, new) \in PinRec
         /\ P!change(s, v, new).enabled /\ P!change(s, v, new).verified
            => s.enabled /\ s.verified
         /\ P!disable(s, v) \in PinRec
         /\ P!disable(s, v).enabled /\ P!disable(s, v).verified => s.enabled /\ s.verified
         /\ P!enable(s, v) \in PinRec
         /\ P!enable(s, v).enabled /\ P!enable(s, v).verified => s.enabled /\ s.verified
         /\ P!unblock(s, v, new) \in PinRec
         /\ P!unblock(s, v, new).enabled /\ P!unblock(s, v, new).verified
            => s.enabled /\ s.verified
  <1>t. s.pin_retries \in Nat /\ s.pin_max \in Nat /\ s.puk_retries \in Nat
        /\ s.enabled \in BOOLEAN /\ s.verified \in BOOLEAN
    BY DEF PinRec
  <1>w. s.pin_retries # 0 => /\ P!WrongPin(s) \in PinRec
                             /\ P!WrongPin(s).enabled = s.enabled
                             /\ P!WrongPin(s).verified = s.verified
    BY <1>t DEF PinRec, P!WrongPin
  <1>1. /\ P!verify(s, v) \in PinRec
        /\ P!verify(s, v).enabled /\ P!verify(s, v).verified
            => (s.enabled /\ s.verified) \/ (s.pin = v /\ s.pin_retries > 0)
    <2>1. CASE ~s.enabled \/ s.pin_retries = 0
      BY <2>1 DEF P!verify
    <2>2. CASE s.enabled /\ s.pin_retries # 0 /\ s.pin = v
      <3>1. P!verify(s, v) = [s EXCEPT !.pin_retries = s.pin_max, !.verified = TRUE]
        BY <2>2 DEF P!verify
      <3>2. P!verify(s, v) \in PinRec
        BY <3>1, <1>t DEF PinRec
      <3>3. s.pin_retries > 0
        BY <2>2, <1>t
      <3>4. s.pin = v /\ s.pin_retries > 0
        BY <2>2, <3>3
      <3> QED
        BY <3>2, <3>4
    <2>3. CASE s.enabled /\ s.pin_retries # 0 /\ s.pin # v
      <3>1. P!verify(s, v) = [s EXCEPT !.pin_retries = s.pin_retries - 1, !.verified = FALSE]
        BY <2>3 DEF P!verify
      <3>0. s.pin_retries - 1 \in Nat
        BY <2>3, <1>t
      <3>2. P!verify(s, v) \in PinRec
        BY <3>0, <3>1 DEF PinRec
      <3>3. P!verify(s, v).verified = FALSE
        BY <3>1 DEF PinRec
      <3> QED
        BY <3>2, <3>3
    <2> QED
      BY <2>1, <2>2, <2>3
  <1>2. /\ P!change(s, v, new) \in PinRec
        /\ P!change(s, v, new).enabled /\ P!change(s, v, new).verified
            => s.enabled /\ s.verified
    <2>1. CASE s.pin_retries = 0
      BY <2>1 DEF P!change
    <2>2. CASE s.pin_retries # 0 /\ s.pin # v
      BY <2>2, <1>w DEF P!change
    <2>3. CASE s.pin_retries # 0 /\ s.pin = v
      <3>1. P!change(s, v, new) = [s EXCEPT !.pin = new, !.pin_retries = s.pin_max]
        BY <2>3 DEF P!change
      <3>2. /\ P!change(s, v, new) \in PinRec
            /\ P!change(s, v, new).enabled = s.enabled
            /\ P!change(s, v, new).verified = s.verified
        BY <3>1, <1>t DEF PinRec
      <3> QED
        BY <3>2
    <2> QED
      BY <2>1, <2>2, <2>3
  <1>3. /\ P!disable(s, v) \in PinRec
        /\ P!disable(s, v).enabled /\ P!disable(s, v).verified => s.enabled /\ s.verified
    <2>1. CASE ~s.enabled \/ s.pin_retries = 0
      BY <2>1 DEF P!disable
    <2>2. CASE s.enabled /\ s.pin_retries # 0 /\ s.pin # v
      BY <2>2, <1>w DEF P!disable
    <2>3. CASE s.enabled /\ s.pin_retries # 0 /\ s.pin = v
      <3>1. P!disable(s, v)
            = [s EXCEPT !.pin_retries = s.pin_max, !.enabled = FALSE, !.verified = FALSE]
        BY <2>3 DEF P!disable
      <3>2. P!disable(s, v) \in PinRec /\ P!disable(s, v).verified = FALSE
        BY <3>1, <1>t DEF PinRec
      <3> QED
        BY <3>2
    <2> QED
      BY <2>1, <2>2, <2>3
  <1>4. /\ P!enable(s, v) \in PinRec
        /\ P!enable(s, v).enabled /\ P!enable(s, v).verified => s.enabled /\ s.verified
    <2>1. CASE s.enabled \/ s.pin_retries = 0
      BY <2>1 DEF P!enable
    <2>2. CASE ~s.enabled /\ s.pin_retries # 0 /\ s.pin # v
      BY <2>2, <1>w DEF P!enable
    <2>3. CASE ~s.enabled /\ s.pin_retries # 0 /\ s.pin = v
      <3>1. P!enable(s, v)
            = [s EXCEPT !.pin_retries = s.pin_max, !.enabled = TRUE, !.verified = FALSE]
        BY <2>3 DEF P!enable
      <3>2. P!enable(s, v) \in PinRec /\ P!enable(s, v).verified = FALSE
        BY <3>1, <1>t DEF PinRec
      <3> QED
        BY <3>2
    <2> QED
      BY <2>1, <2>2, <2>3
  <1>5. /\ P!unblock(s, v, new) \in PinRec
        /\ P!unblock(s, v, new).enabled /\ P!unblock(s, v, new).verified
            => s.enabled /\ s.verified
    <2>1. CASE s.puk_retries = 0
      BY <2>1 DEF P!unblock
    <2>2. CASE s.puk_retries # 0 /\ s.puk # v
      <3>1. P!unblock(s, v, new) = [s EXCEPT !.puk_retries = s.puk_retries - 1]
        BY <2>2 DEF P!unblock
      <3>2. /\ P!unblock(s, v, new) \in PinRec
            /\ P!unblock(s, v, new).enabled = s.enabled
            /\ P!unblock(s, v, new).verified = s.verified
        BY <3>1, <2>2, <1>t DEF PinRec
      <3> QED
        BY <3>2
    <2>3. CASE s.puk_retries # 0 /\ s.puk = v
      <3>1. P!unblock(s, v, new) = [s EXCEPT !.pin = new, !.pin_retries = s.pin_max,
                                             !.enabled = TRUE, !.verified = FALSE]
        BY <2>3 DEF P!unblock
      <3>2. P!unblock(s, v, new) \in PinRec /\ P!unblock(s, v, new).verified = FALSE
        BY <3>1, <1>t DEF PinRec
      <3> QED
        BY <3>2
    <2> QED
      BY <2>1, <2>2, <2>3
  <1> QED
    BY <1>1, <1>2, <1>3, <1>4, <1>5

\* Replacing one slot by what a PIN method makes of it.
LEMMA PaidUpdate ==
  ASSUME NEW ps \in PinStore, NEW sh, Paid(ps, sh), NEW k \in DOMAIN PinSlots,
         NEW t \in PinRec, NEW proof \in BOOLEAN,
         t.enabled /\ t.verified => (ps[k].enabled /\ ps[k].verified) \/ proof
  PROVE  /\ [ps EXCEPT ![k] = t] \in PinStore
         /\ Paid([ps EXCEPT ![k] = t], IF proof THEN sh \cup {k} ELSE sh)
  <1>1. [ps EXCEPT ![k] = t] \in PinStore
    BY DEF PinStore
  <1>2. Paid([ps EXCEPT ![k] = t], IF proof THEN sh \cup {k} ELSE sh)
    BY DEF PinStore, Paid
  <1> QED
    BY <1>1, <1>2

\* The personalised PINs are PIN records, and none is verified.
LEMMA Personalised == PinSlots \in PinStore /\ \A sh : Paid(PinSlots, sh)
                      /\ \A k \in DOMAIN PinSlots : PinSlots[k].pin \in PinValues
  <1>1. \A k \in DOMAIN PinSlots :
           PinSlots[k] \in PinRec /\ PinSlots[k].verified = FALSE /\ PinSlots[k].pin \in PinValues
    BY PinsAssumption DEF PinRec
  <1>2. PinSlots = [k \in DOMAIN PinSlots |-> PinSlots[k]]
    BY PinsAssumption
  <1> QED
    BY <1>1, <1>2 DEF PinStore, Paid

\* A reset leaves no PIN verified.
LEMMA ResetVerified ==
  ASSUME NEW ps \in PinStore
  PROVE  reset_verified(ps) \in PinStore /\ \A sh : Paid(reset_verified(ps), sh)
  <1>0. DOMAIN ps = DOMAIN PinSlots /\ \A k \in DOMAIN PinSlots : ps[k] \in PinRec
    BY DEF PinStore
  <1>1. \A k \in DOMAIN PinSlots : [ps[k] EXCEPT !.verified = FALSE] \in PinRec
                                   /\ [ps[k] EXCEPT !.verified = FALSE].verified = FALSE
    BY <1>0 DEF PinRec
  <1> QED
    BY <1>0, <1>1 DEF PinStore, Paid, reset_verified

\* ---- The inductive invariant ----
Rsps == [from : Chans, file : Files \cup {"Auth"}] \cup {NoRsp}
GsmType == gsm \in [fs : Ctx, data : Contents, pin : PinStore, queue : Rsps]
\* The GSM context never leaves the MF tree.
GsmContext == Good(gsm.fs) /\ gsm.fs.adf = NoFile
\* The GSM application's PIN1 was presented in this session, or is not in force.
GsmFree == "PIN1" \in DOMAIN PinSlots => "PIN1" \in gshown \/ ~gsm.pin["PIN1"].enabled
GsmQueue == gsm.queue # NoRsp /\ gsm.queue.file = "Auth" => GsmFree
\* The same of the USIM's PIN1, and of the identities that wait in its queue.
UsimFree == "PIN1" \in DOMAIN PinSlots => "PIN1" \in shown \/ ~pins["PIN1"].enabled
UsimQueue == queue # NoRsp /\ queue.file = "Impi" => UsimFree
\* What holds of a card that is ready; while it is off, the applications keep
\* the PINs and the queue of the session before.
Session == Paid(pins, shown) /\ Paid(gsm.pin, gshown) /\ GsmQueue /\ UsimQueue

SimParts == /\ pins \in PinStore
            /\ state \in {"Off", "Ready"}
            /\ GsmType /\ GsmContext
            /\ gshown \subseteq DOMAIN PinSlots
            /\ gout \in Efs \cup {"Auth", NoFile}
            /\ state = "Ready" => Session
SimInv == UsimInv /\ SimParts /\ OutNeedsPins /\ GsmOutNeedsPin

\* What the GSM application's PIN1 check means in a session.
LEMMA NotDenied ==
  ASSUME gsm.pin \in PinStore, Paid(gsm.pin, gshown), ~gsm_pin1_denied
  PROVE  GsmFree
  BY DEF PinStore, Paid, gsm_pin1_denied, GsmFree

\* What is granted to the USIM's commands in a session.
LEMMA Granted ==
  ASSUME pins \in PinStore, Paid(pins, shown), NEW k \in DOMAIN pins, is_access_granted(k)
  PROVE  k \in shown \/ ~pins[k].enabled
  BY DEF PinStore, Paid, is_access_granted

\* The initial state.
LEMMA SimInitInv == SimInit => SimInv
  <1> SUFFICES ASSUME SimInit PROVE SimInv
    OBVIOUS
  <1>1. UsimInv
    BY InitInv DEF SimInit
  <1>2. content \in Contents /\ content = Template
    BY <1>1, Parts DEF SimInit, Init
  <1>3. GsmType
    BY <1>2, Personalised, NewCtxGood DEF SimInit, GsmType, Good, Rsps
  <1>4. GsmContext
    BY NewCtxGood DEF SimInit, GsmContext, NewCtx
  <1>5. pins \in PinStore
    BY Personalised DEF SimInit, Init
  <1> QED
    BY <1>1, <1>3, <1>4, <1>5, TokensAssumption, TreeAssumption
    DEF Computed, SimInit, Init, SimInv, SimParts, OutNeedsPins, GsmOutNeedsPin

\* Steps that leave the USIM application alone.
LEMMA UsimAlone ==
  ASSUME UsimInv, UNCHANGED <<fs, content, dead, queue, lastAid>>,
         shown' \subseteq DOMAIN PinSlots, out' = NoFile
  PROVE  UsimInv' /\ OutNeedsPins'
  BY DEF UsimInv, TypeOK, SelectionSound, QueuedIsCurrent, Open, OutNeedsPins

\* ---- The USIM's commands ----
\* The PINs after a command of the USIM.
LEMMA UsimPins ==
  ASSUME UsimInv, pins \in PinStore, Paid(pins, shown), NEW ch \in Chans, handle(ch)
  PROVE  pins' \in PinStore /\ Paid(pins', shown')
  <1>1. CASE PinCommands(ch)
    <2>1. PICK k \in DOMAIN PinSlots, v \in PinValues :
             \/ handle_verify(ch, k, v)
             \/ handle_disable_pin(ch, k, v)
             \/ handle_enable_pin(ch, k, v)
             \/ handle_change_ref_data(ch, k, v, PinSlots[k].pin)
             \/ handle_unblock(ch, k, v, PinSlots[k].pin)
      BY <1>1 DEF PinCommands
    <2>t. pins[k] \in PinRec /\ PinSlots[k].pin \in PinValues
      BY Personalised DEF PinStore
    <2>2. ASSUME NEW t \in PinRec, NEW proof \in BOOLEAN, PinCommand(ch, k, t, proof),
                 t.enabled /\ t.verified => (pins[k].enabled /\ pins[k].verified) \/ proof
          PROVE  pins' \in PinStore /\ Paid(pins', shown')
      BY <2>2, PaidUpdate DEF PinCommand
    <2> QED
      BY <2>1, <2>2, <2>t, PinMethods
      DEF handle_verify, handle_disable_pin, handle_enable_pin, handle_change_ref_data,
          handle_unblock
  <1>2. CASE Select(ch)
    BY <1>2 DEF Select, select_fid, select_aid, select_path, Selects
  <1>3. CASE ChannelCommand(ch)
    BY <1>3 DEF ChannelCommand, manage_channel_assign, manage_channel_open,
                manage_channel_close, Opens
  <1>4. CASE FileCommand(ch)
    BY <1>4 DEF FileCommand, handle_read_binary, handle_read_record, handle_search_record, Reads,
                handle_deactivate_file, handle_activate_file, handle_update_binary,
                handle_update_record, Updates, handle_increase
  <1>5. CASE \/ handle_get_response(ch) \/ handle_status(ch) \/ handle_authenticate(ch)
             \/ closed_channel(ch) \/ handle_get_identity(ch)
    BY <1>5 DEF handle_get_response, handle_status, handle_authenticate,
        handle_get_identity, Computes, closed_channel
  <1> QED
    BY <1>1, <1>2, <1>3, <1>4, <1>5 DEF handle

\* What a response of the USIM carries was paid for.
LEMMA UsimOut ==
  ASSUME UsimInv, pins \in PinStore, Paid(pins, shown), UsimQueue, NEW ch \in Chans, handle(ch)
  PROVE  OutNeedsPins'
  <1> DEFINE Keys(e) == ({"PIN1"} \cup {ReadAc[e]}) \cap DOMAIN pins
  <1>p. FsOK /\ DOMAIN pins = DOMAIN PinSlots /\ DOMAIN pins \cap {"Always", "Never"} = {}
    BY Parts, PinsAssumption DEF PinStore
  <1>g. ASSUME NEW k \in DOMAIN pins, NEW e \in Efs, ~pin1_denied,
               k = "PIN1" \/ ~access_denied(k)
        PROVE  k \in shown \/ ~pins[k].enabled
    BY <1>g, <1>p, Granted DEF pin1_denied, access_denied
  <1>1. ASSUME NEW e \in Efs, Readable(e) PROVE \A k \in Keys(e) : k \in shown \/ ~pins[k].enabled
    BY <1>1, <1>g DEF Readable
  <1>2. ASSUME NEW e \in Efs, Structure[e] = "cyclic", ~pin1_denied, ~access_denied(UpdateAc[e])
        PROVE \A k \in Keys(e) : k \in shown \/ ~pins[k].enabled
    BY <1>2, <1>g, <1>p, CyclicAssumption
  <1>3. CASE FileCommand(ch)
    <2>1. fs[ch].ef # NoFile /\ Open(ch) => fs[ch].ef \in Efs
      BY <1>p, OpenIsGood
    <2>2. /\ UNCHANGED <<pins, shown>>
          /\ \/ out' = NoFile
             \/ out' \in Efs /\ Readable(out')
             \/ /\ out' \in Efs /\ Structure[out'] = "cyclic"
                /\ ~pin1_denied /\ ~access_denied(UpdateAc[out'])
      <3>1. ASSUME NEW e \in Efs, Reads(e)
            PROVE  UNCHANGED <<pins, shown>> /\ (out' = NoFile \/ (out' \in Efs /\ Readable(out')))
        BY <3>1 DEF Reads
      <3>2. ASSUME NEW v, handle_increase(ch, v)
            PROVE  /\ UNCHANGED <<pins, shown>>
                   /\ \/ out' = NoFile
                      \/ /\ out' \in Efs /\ Structure[out'] = "cyclic"
                         /\ ~pin1_denied /\ ~access_denied(UpdateAc[out'])
        BY <2>1, <3>2 DEF handle_increase
      <3>3. ASSUME \/ \E e \in Efs : handle_read_binary(ch, e)
                   \/ \E p1 \in P1s, mode \in Modes : handle_read_record(ch, p1, mode)
                   \/ handle_search_record(ch)
            PROVE  UNCHANGED <<pins, shown>> /\ (out' = NoFile \/ (out' \in Efs /\ Readable(out')))
        BY <3>1, <3>3, <2>1 DEF handle_read_binary, handle_read_record, handle_search_record
      <3>4. ASSUME (\E e \in Efs, v \in Vals : handle_update_binary(ch, e, v))
                   \/ (\E p1 \in P1s, mode \in Modes, v \in Vals :
                          handle_update_record(ch, p1, mode, v))
                   \/ handle_deactivate_file(ch) \/ handle_activate_file(ch)
            PROVE  UNCHANGED <<pins, shown>> /\ out' = NoFile
        BY <3>4 DEF handle_update_binary, handle_update_record, Updates,
                    handle_deactivate_file, handle_activate_file
      <3> QED
        BY <1>3, <3>2, <3>3, <3>4 DEF FileCommand
    <2>3. out' # NoFile => \A k \in Keys(out') : k \in shown \/ ~pins[k].enabled
      BY <2>2, <1>1, <1>2
    <2>4. {ReadAc[e] : e \in Efs \cap {out'}} \subseteq {ReadAc[out']}
      OBVIOUS
    <2> QED
      BY <2>2, <2>3, <2>4 DEF OutNeedsPins
  <1>5. CASE handle_get_response(ch)
    <2>1. /\ UNCHANGED <<pins, shown>>
          /\ \/ out' = NoFile
             \/ queue # NoRsp /\ queue.file \in Identities /\ out' = queue.file
      BY <1>5 DEF handle_get_response
    <2>2. Identities \cap Efs = {}
      BY TokensAssumption DEF Computed, Files
    <2>3. out' = "Impi" => UsimFree
      <3>1. "Impi" # NoFile
        BY TokensAssumption DEF Computed, Identities
      <3> QED
        BY <2>1, <3>1 DEF UsimQueue
    <2>4. out' \in {NoFile, "Suci", "Impi"}
      BY <2>1 DEF Identities
    <2>5. out' = "Impi" => {ReadAc[e] : e \in Efs \cap {out'}} = {}
      BY <2>2 DEF Identities
    <2> QED
      BY <1>p, <2>1, <2>3, <2>4, <2>5 DEF OutNeedsPins, UsimFree
  <1>4. CASE ~FileCommand(ch) /\ ~handle_get_response(ch)
    <2>1. PinCommands(ch) => out' = NoFile
      BY DEF PinCommands, handle_verify, handle_disable_pin, handle_enable_pin,
             handle_change_ref_data, handle_unblock, PinCommand
    <2>2. Select(ch) => out' = NoFile
      BY DEF Select, select_fid, select_aid, select_path, Selects
    <2>3. ChannelCommand(ch) => out' = NoFile
      BY DEF ChannelCommand, manage_channel_assign, manage_channel_open,
             manage_channel_close, Opens
    <2>4. out' = NoFile
      BY <1>4, <2>1, <2>2, <2>3
      DEF handle, handle_status, handle_authenticate, handle_get_identity, Computes,
          closed_channel
    <2> QED
      BY <2>4 DEF OutNeedsPins
  <1> QED
    BY <1>3, <1>4, <1>5

\* An IMS identity is queued after the PIN1 check, and stays queued only while
\* the PINs stay as they are.
LEMMA UsimQueued ==
  ASSUME UsimInv, pins \in PinStore, Paid(pins, shown), UsimQueue, NEW ch \in Chans, handle(ch)
  PROVE  UsimQueue'
  <1>1. ASSUME UNCHANGED <<queue, pins, shown>> PROVE UsimQueue'
    BY <1>1 DEF UsimQueue, UsimFree
  <1>2. ASSUME queue' = NoRsp PROVE UsimQueue'
    BY <1>2 DEF UsimQueue
  <1>3. CASE handle_get_identity(ch)
    <2>1. UNCHANGED <<pins, shown>>
      BY <1>3 DEF handle_get_identity, Computes
    <2>2. queue' # NoRsp /\ queue'.file = "Impi" => ~pin1_denied
      BY <1>3 DEF handle_get_identity, Computes, Rsp
    <2>3. DOMAIN pins = DOMAIN PinSlots
      BY DEF PinStore
    <2>4. ~pin1_denied => UsimFree
      BY <2>3, Granted DEF pin1_denied, UsimFree
    <2> QED
      BY <2>1, <2>2, <2>4 DEF UsimQueue, UsimFree
  <1>4. CASE handle_authenticate(ch)
    <2>1. queue' = NoRsp \/ queue'.file = "Auth"
      BY <1>4 DEF handle_authenticate, Computes, Rsp
    <2> QED
      BY <2>1 DEF UsimQueue
  <1>5. CASE Select(ch)
    <2>1. PICK r, noData : GoodResult(r) /\ Selects(ch, r, noData)
      BY <1>5, SelectWalks DEF Walk
    <2>2. queue' = NoRsp \/ queue'.file \in Files
      BY <2>1 DEF Selects, GoodResult, Rsp
    <2>3. "Impi" \notin Files
      BY TokensAssumption DEF Computed, Identities
    <2> QED
      BY <2>2, <2>3 DEF UsimQueue
  <1>6. PinCommands(ch) => queue' = NoRsp
    BY DEF PinCommands, handle_verify, handle_disable_pin, handle_enable_pin,
           handle_change_ref_data, handle_unblock, PinCommand
  <1>7. ChannelCommand(ch) => queue' = NoRsp
    BY DEF ChannelCommand, manage_channel_assign, manage_channel_open,
           manage_channel_close, Opens
  <1>8. FileCommand(ch) => queue' = NoRsp
    BY DEF FileCommand, handle_read_binary, handle_read_record, handle_search_record, Reads,
           handle_deactivate_file, handle_activate_file, handle_update_binary,
           handle_update_record, Updates, handle_increase
  <1>9. handle_get_response(ch) \/ closed_channel(ch) \/ handle_status(ch) =>
           queue' = NoRsp \/ UNCHANGED <<queue, pins, shown>>
    BY DEF handle_get_response, closed_channel, handle_status
  <1> QED
    BY <1>9, <1>8, <1>7, <1>6, <1>5, <1>4, <1>3, <1>2, <1>1 DEF handle

\* A step of the USIM application.
LEMMA UsimStep == SimInv /\ state = "Ready" /\ usim_apdu => SimInv'
  <1> SUFFICES ASSUME SimInv, state = "Ready", usim_apdu PROVE SimInv'
    OBVIOUS
  <1>p. /\ UsimInv /\ SimParts /\ Session /\ pins \in PinStore
        /\ UNCHANGED <<state, gsm, gshown>> /\ gout' = NoFile
    BY DEF SimInv, SimParts, usim_apdu
  <1>1. ASSUME NEW ch \in Chans, handle(ch)
        PROVE  /\ UsimInv' /\ OutNeedsPins' /\ pins' \in PinStore /\ Paid(pins', shown')
               /\ UsimQueue'
    BY <1>1, <1>p, HandleKeeps, UsimPins, UsimOut, UsimQueued DEF Session
  <1>2. ASSUME NEW q \in 0 .. 6, apply_refresh(q)
        PROVE  /\ UsimInv' /\ OutNeedsPins' /\ pins' \in PinStore /\ Paid(pins', shown')
               /\ UsimQueue'
    BY <1>2, <1>p, RefreshKeeps DEF Session, apply_refresh, OutNeedsPins, UsimQueue
  <1>3. /\ UsimInv' /\ OutNeedsPins' /\ pins' \in PinStore /\ Paid(pins', shown')
        /\ UsimQueue'
    BY <1>1, <1>2 DEF usim_apdu
  <1>4. SimParts'
    BY <1>3, <1>p DEF SimParts, Session, GsmType, GsmContext, GsmQueue, GsmFree
  <1>5. GsmOutNeedsPin'
    BY <1>p, TokensAssumption DEF Computed, GsmOutNeedsPin
  <1> QED
    BY <1>3, <1>4, <1>5 DEF SimInv

\* ---- The GSM application's commands ----
\* A command of the GSM application, seen from what it stores and returns.
LEMMA GsmStep ==
  ASSUME SimInv, state = "Ready",
         NEW fs2, Good(fs2), fs2.adf = NoFile, NEW data2 \in Contents,
         NEW pin2 \in PinStore, NEW queue2 \in Rsps, NEW out2 \in Efs \cup {"Auth", NoFile},
         Gsm(fs2, data2, pin2, queue2, out2),
         gshown' \subseteq DOMAIN PinSlots, Paid(pin2, gshown'),
         (queue2 # NoRsp /\ queue2.file = "Auth") \/ out2 = "Auth"
         \/ (out2 # NoFile /\ Structure[out2] = "transparent") =>
            GsmFree /\ pin2 = gsm.pin /\ gshown' = gshown
  PROVE  SimInv'
  <1>1. /\ gsm' = [fs |-> fs2, data |-> data2, pin |-> pin2, queue |-> queue2]
        /\ gout' = out2 /\ out' = NoFile
        /\ UNCHANGED <<fs, content, dead, queue, lastAid, pins, shown, state>>
    BY DEF Gsm
  <1>2. UsimInv' /\ OutNeedsPins'
    BY <1>1, UsimAlone DEF SimInv, UsimInv, TypeOK
  <1>3. GsmType' /\ GsmContext'
    BY <1>1 DEF GsmType, GsmContext, Good
  <1>4. GsmQueue'
    BY <1>1 DEF GsmQueue, GsmFree
  <1>5. SimParts'
    BY <1>1, <1>3, <1>4 DEF SimInv, SimParts, Session, UsimQueue, UsimFree
  <1>6. GsmOutNeedsPin'
    BY <1>1 DEF GsmOutNeedsPin, GsmFree
  <1> QED
    BY <1>2, <1>5, <1>6 DEF SimInv

\* The parts of the GSM state in a session.
LEMMA GsmParts ==
  ASSUME SimInv, state = "Ready"
  PROVE  /\ Good(gsm.fs) /\ gsm.fs.adf = NoFile /\ gsm.fs.ef \in Efs \cup {NoFile}
         /\ gsm.data \in Contents /\ gsm.pin \in PinStore /\ gsm.queue \in Rsps
         /\ gshown \subseteq DOMAIN PinSlots
         /\ Paid(gsm.pin, gshown) /\ GsmQueue
         /\ NoRsp \in Rsps /\ "Auth" \notin Files /\ NoFile # "Auth"
  BY TokensAssumption DEF Computed, SimInv, SimParts, Session, GsmType, GsmContext, Rsps, Good, Ctx

\* SELECT in the MF tree.
LEMMA GsmSelect == ASSUME SimInv, state = "Ready", NEW fid, gsm_select(fid) PROVE SimInv'
  <1> DEFINE r == select_by_fid(gsm.fs, fid)
             q == IF r.ok THEN Rsp(0, r.sel) ELSE NoRsp
  <1>1. GoodResult(r)
    BY GsmParts, FidGood
  <1>2. r.ctx.adf = NoFile
    <2>1. /\ gsm.fs = [df |-> gsm.fs.df, ef |-> gsm.fs.ef, adf |-> gsm.fs.adf]
          /\ gsm.fs.adf = NoFile
      BY GsmParts DEF Good, Ctx
    <2> QED
      BY <2>1 DEF select_by_fid, Found, NotFound, NewCtx
  <1>3. q \in Rsps /\ ~(q # NoRsp /\ q.file = "Auth")
    BY <1>1, GsmParts, ChansAssumption DEF GoodResult, Rsps, Rsp
  <1>4. Gsm(r.ctx, gsm.data, gsm.pin, q, NoFile) /\ UNCHANGED gshown
    BY DEF gsm_select
  <1> HIDE DEF r, q
  <1> QED
    BY <1>1, <1>2, <1>3, <1>4, GsmParts, GsmStep DEF GoodResult

\* The file commands of the GSM application.
LEMMA GsmFile ==
  ASSUME SimInv, state = "Ready",
         \/ gsm_get_response
         \/ gsm_read_binary
         \/ \E n \in P1s : gsm_read_record(n)
         \/ \E v \in Vals : gsm_update_binary(v)
         \/ \E n \in P1s, v \in Vals : gsm_update_record(n, v)
         \/ \E v \in Vals : gsm_increase(v)
         \/ gsm_status
         \/ gsm_run_gsm_algo
  PROVE  SimInv'
  <1>p. /\ Good(gsm.fs) /\ gsm.fs.adf = NoFile /\ gsm.fs.ef \in Efs \cup {NoFile}
        /\ gsm.data \in Contents /\ gsm.pin \in PinStore /\ gsm.queue \in Rsps
        /\ gshown \subseteq DOMAIN PinSlots
        /\ Paid(gsm.pin, gshown) /\ GsmQueue
        /\ NoRsp \in Rsps /\ "Auth" \notin Files /\ NoFile # "Auth"
    BY GsmParts
  <1>1. CASE gsm_get_response
    <2> DEFINE o == IF gsm.queue = NoRsp \/ gsm.queue.file # "Auth" THEN NoFile ELSE "Auth"
    <2>1. o \in Efs \cup {"Auth", NoFile} /\ (o # NoFile => o = "Auth" /\ GsmFree)
      BY <1>p DEF GsmQueue
    <2>2. CASE Gsm(gsm.fs, gsm.data, gsm.pin, NoRsp, o) /\ UNCHANGED gshown
      <3> HIDE DEF o
      <3> QED BY <2>1, <2>2, <1>p, GsmStep
    <2>3. CASE Gsm(gsm.fs, gsm.data, gsm.pin, gsm.queue, NoFile) /\ UNCHANGED gshown
      BY <2>3, <1>p, GsmStep DEF GsmQueue
    <2> QED BY <1>1, <2>2, <2>3 DEF gsm_get_response
  <1>2. CASE gsm_read_binary
    <2> DEFINE e == gsm.fs.ef
               o == IF ~gsm_pin1_denied /\ e # NoFile /\ Structure[e] = "transparent"
                    THEN e ELSE NoFile
    <2>1. o \in Efs \cup {NoFile} /\ (o # NoFile => GsmFree)
      BY <1>p, NotDenied
    <2>2. Gsm(gsm.fs, gsm.data, gsm.pin, NoRsp, o) /\ UNCHANGED gshown
      BY <1>2 DEF gsm_read_binary
    <2>3. "Auth" \notin Efs
      BY <1>p DEF Files
    <2> HIDE DEF o
    <2> QED
      BY <2>1, <2>2, <2>3, <1>p, GsmStep
  <1>3. ASSUME NEW n \in P1s, gsm_read_record(n) PROVE SimInv'
    <2> DEFINE e == gsm.fs.ef
               o == IF e # NoFile /\ Structure[e] # "transparent" /\ n \in 1 .. Records[e]
                    THEN e ELSE NoFile
    <2>1. o \in Efs \cup {NoFile} /\ (o # NoFile => Structure[o] # "transparent")
      BY <1>p
    <2>2. Gsm(gsm.fs, gsm.data, gsm.pin, NoRsp, o) /\ UNCHANGED gshown
      BY <1>3 DEF gsm_read_record
    <2>3. o # "Auth"
      BY <2>1, <1>p DEF Files
    <2> HIDE DEF o
    <2> QED
      BY <2>1, <2>2, <2>3, <1>p, GsmStep
  <1>4. ASSUME NEW v \in Vals, gsm_update_binary(v) PROVE SimInv'
    <2> DEFINE e == gsm.fs.ef
               d == IF gsm_pin1_denied THEN gsm.data ELSE write_binary(gsm.data, e, v)
    <2>1. d \in Contents
      BY <1>4, <1>p, WritesInContents DEF gsm_update_binary
    <2>2. Gsm(gsm.fs, d, gsm.pin, NoRsp, NoFile) /\ UNCHANGED gshown
      BY <1>4 DEF gsm_update_binary
    <2> HIDE DEF d
    <2> QED
      BY <2>1, <2>2, <1>p, GsmStep
  <1>5. ASSUME NEW n \in P1s, NEW v \in Vals, gsm_update_record(n, v) PROVE SimInv'
    <2> DEFINE d == write_record(gsm.data, gsm.fs.ef, n, v)
    <2>1. d \in Contents
      BY <1>5, <1>p, WritesInContents DEF gsm_update_record
    <2>2. Gsm(gsm.fs, d, gsm.pin, NoRsp, NoFile) /\ UNCHANGED gshown
      BY <1>5 DEF gsm_update_record
    <2> HIDE DEF d
    <2> QED
      BY <2>1, <2>2, <1>p, GsmStep
  <1>6. ASSUME NEW v \in Vals, gsm_increase(v) PROVE SimInv'
    <2> DEFINE e == gsm.fs.ef
               d == increase(gsm.data, e, v)
               o == IF Structure[e] = "cyclic" /\ gsm.data[e][1] + v <= ValMax[e]
                    THEN e ELSE NoFile
    <2>0. e \in Efs /\ v \in Nat
      BY <1>6, <1>p, DataAssumption DEF gsm_increase, Vals
    <2>1. d \in Contents
      BY <2>0, <1>p, WritesInContents
    <2>2. o \in Efs \cup {NoFile} /\ (o # NoFile => Structure[o] # "transparent") /\ o # "Auth"
      BY <2>0, <1>p DEF Files
    <2>3. Gsm(gsm.fs, d, gsm.pin, NoRsp, o) /\ UNCHANGED gshown
      BY <1>6 DEF gsm_increase
    <2> HIDE DEF d, o
    <2> QED
      BY <2>1, <2>2, <2>3, <1>p, GsmStep
  <1>7. CASE gsm_status
    <2>1. Gsm(gsm.fs, gsm.data, gsm.pin, NoRsp, NoFile) /\ UNCHANGED gshown
      BY <1>7 DEF gsm_status
    <2> QED
      BY <2>1, <1>p, GsmStep
  <1>8. CASE gsm_run_gsm_algo
    <2> DEFINE q == IF gsm_pin1_denied THEN NoRsp ELSE Rsp(0, "Auth")
    <2>1. q \in Rsps /\ (q # NoRsp => GsmFree)
      BY <1>p, NotDenied, ChansAssumption DEF Rsps, Rsp
    <2>2. Gsm(gsm.fs, gsm.data, gsm.pin, q, NoFile) /\ UNCHANGED gshown
      BY <1>8 DEF gsm_run_gsm_algo
    <2> HIDE DEF q
    <2> QED
      BY <2>1, <2>2, <1>p, GsmStep
  <1> QED
    BY <1>1, <1>2, <1>3, <1>4, <1>5, <1>6, <1>7, <1>8

\* The PIN commands of the GSM application.
LEMMA GsmPinStep ==
  ASSUME SimInv, state = "Ready", NEW k \in DOMAIN PinSlots, NEW v \in PinValues,
         gsm_pin_command(k, v)
  PROVE  SimInv'
  <1>t. gsm.pin \in PinStore /\ gsm.pin[k] \in PinRec /\ PinSlots[k].pin \in PinValues
    BY GsmParts, Personalised DEF PinStore
  <1>1. ASSUME NEW t \in PinRec, NEW proof \in BOOLEAN, GsmPin(k, t, proof),
               t.enabled /\ t.verified => (gsm.pin[k].enabled /\ gsm.pin[k].verified) \/ proof
        PROVE  SimInv'
    <2> DEFINE ps == [gsm.pin EXCEPT ![k] = t]
    <2>1. ps \in PinStore /\ Paid(ps, gshown')
      BY <1>1, <1>t, GsmParts, PaidUpdate DEF GsmPin
    <2>2. Gsm(gsm.fs, gsm.data, ps, NoRsp, NoFile) /\ gshown' \subseteq DOMAIN PinSlots
      BY <1>1, GsmParts DEF GsmPin
    <2> HIDE DEF ps
    <2> QED
      BY <2>1, <2>2, GsmParts, GsmStep
  <1> QED
    BY <1>1, <1>t, PinMethods DEF gsm_pin_command

\* ---- Power, reset and routing ----
\* A reset under the standard policy ends the session in both applications.
LEMMA ResetStep ==
  ASSUME SimInv, apply_reset_effects(Effects), state' = "Ready",
         Silent, NewSession
  PROVE  SimInv'
  <1>e. {"pin_verified", "response_queue", "file_selection", "logical_channels",
         "last_aid_match"} \subseteq Effects
    BY DEF Effects
  <1>t. gsm \in [fs : Ctx, data : Contents, pin : PinStore, queue : Rsps] /\ pins \in PinStore
    BY DEF SimInv, SimParts, GsmType
  <1>1. /\ gsm' = [fs |-> NewCtx, data |-> gsm.data, pin |-> reset_verified(gsm.pin),
                   queue |-> NoRsp]
        /\ pins' = reset_verified(pins)
        /\ queue' = NoRsp /\ lastAid' = FALSE
        /\ fs' = [ch \in Chans |-> IF ch = 0 THEN NewCtx ELSE Closed]
        /\ UNCHANGED <<content, dead>>
    BY <1>e, <1>t DEF apply_reset_effects, ApplyEffects
  <1>2. out' = NoFile /\ gout' = NoFile /\ shown' = {} /\ gshown' = {}
    BY DEF Silent, NewSession
  <1>n. Good(NewCtx) /\ NewCtx \in Ctx /\ NewCtx.adf = NoFile /\ Closed \notin Ctx /\ 0 \in Chans
    BY NewCtxGood, ChansAssumption, TokensAssumption DEF Good, NewCtx
  <1>3. UsimInv'
    BY <1>1, <1>2, <1>n, ChannelStep DEF Quiet, NoFcp, SimInv
  <1>4. pins' \in PinStore /\ Paid(pins', shown')
    BY <1>1, <1>t, ResetVerified
  <1>5. reset_verified(gsm.pin) \in PinStore /\ Paid(reset_verified(gsm.pin), gshown')
    BY <1>t, ResetVerified
  <1>6. GsmType' /\ GsmContext' /\ Paid(gsm'.pin, gshown') /\ GsmQueue'
    BY <1>1, <1>5, <1>t, <1>n DEF GsmType, GsmContext, GsmQueue, Rsps
  <1>7. SimParts'
    BY <1>4, <1>6, <1>1, <1>2 DEF SimParts, Session, UsimQueue
  <1>8. OutNeedsPins' /\ GsmOutNeedsPin'
    BY <1>2, TokensAssumption DEF Computed, OutNeedsPins, GsmOutNeedsPin
  <1> QED
    BY <1>3, <1>7, <1>8 DEF SimInv

\* PowerOff, and an APDU of an unknown class.
LEMMA IdleStep ==
  ASSUME SimInv, power_off \/ (state = "Ready" /\ unknown_apdu)
  PROVE  SimInv'
  <1>1. /\ UNCHANGED <<fs, content, dead, queue, lastAid, pins, gsm>>
        /\ out' = NoFile /\ gout' = NoFile
        /\ shown' \subseteq DOMAIN PinSlots /\ gshown' \subseteq DOMAIN PinSlots
        /\ state' \in {"Off", "Ready"}
        /\ state' = "Ready" => state = "Ready" /\ UNCHANGED <<shown, gshown>>
    BY DEF SimInv, SimParts, UsimInv, TypeOK, power_off, unknown_apdu, Silent, NewSession
  <1>2. UsimInv' /\ OutNeedsPins'
    BY <1>1, UsimAlone DEF SimInv
  <1>3. SimParts'
    BY <1>1 DEF SimInv, SimParts, GsmType, GsmContext, Session, GsmQueue, GsmFree, UsimQueue,
                UsimFree
  <1>4. GsmOutNeedsPin'
    BY <1>1, TokensAssumption DEF Computed, GsmOutNeedsPin
  <1> QED
    BY <1>2, <1>3, <1>4 DEF SimInv

\* The card keeps its invariant under the standard reset policy.
THEOREM SimInvariant ==
  ASSUME Policy = standard_reset_policy PROVE SimSpec => []SimInv
  <1>1. SimInv /\ [SimNext]_simVars => SimInv'
    <2> SUFFICES ASSUME SimInv, [SimNext]_simVars PROVE SimInv'
      OBVIOUS
    <2>0. Policy["Cold"] = Effects /\ Policy["Warm"] = Effects
      BY DEF standard_reset_policy
    <2>1. CASE UNCHANGED simVars
      BY <2>1 DEF simVars, usimVars, SimInv, UsimInv, TypeOK, SelectionSound, QueuedIsCurrent,
         Open, OutNeedsPins, GsmOutNeedsPin, SimParts, GsmType, GsmContext, Session, GsmQueue,
         GsmFree, UsimQueue, UsimFree
    <2>2. CASE power_on \/ warm_reset
      BY <2>0, <2>2, ResetStep DEF power_on, warm_reset, SimInv, SimParts
    <2>3. CASE power_off
      BY <2>3, IdleStep
    <2>4. ASSUME NEW family \in {"Usim", "Gsm", "Unknown"}, handle_apdu(family) PROVE SimInv'
      <3>0. state = "Ready"
        BY <2>4 DEF handle_apdu
      <3>1. CASE family = "Usim"
        BY <3>0, <3>1, <2>4, UsimStep DEF handle_apdu
      <3>2. CASE family = "Gsm"
        BY <3>0, <3>2, <2>4, GsmSelect, GsmFile, GsmPinStep DEF handle_apdu, gsm_apdu, gsm_handle
      <3>3. CASE family = "Unknown"
        BY <3>0, <3>3, <2>4, IdleStep DEF handle_apdu
      <3> QED
        BY <3>1, <3>2, <3>3
    <2> QED
      BY <2>1, <2>2, <2>3, <2>4 DEF SimNext
  <1> QED
    BY <1>1, SimInitInv, PTL DEF SimSpec

\* Types of the whole card.
THEOREM SimTypeCorrect ==
  ASSUME Policy = standard_reset_policy PROVE SimSpec => []SimTypeOK
  <1>1. SimInv => SimTypeOK
    BY DEF SimInv, UsimInv, SimParts, GsmType, GsmContext, Rsps, SimTypeOK
  <1> QED
    BY <1>1, SimInvariant, PTL

\* No content of a USIM file, and no IMS identity, leaves the card without the
\* keys it asks for; the SUCI asks for none.
THEOREM OutNeedsPinsCorrect ==
  ASSUME Policy = standard_reset_policy PROVE SimSpec => []OutNeedsPins
  BY SimInvariant, PTL DEF SimInv

\* No transparent file and no authentication result leaves the GSM application
\* without its PIN.
THEOREM GsmOutNeedsPinCorrect ==
  ASSUME Policy = standard_reset_policy PROVE SimSpec => []GsmOutNeedsPin
  BY SimInvariant, PTL DEF SimInv
=============================================================================
