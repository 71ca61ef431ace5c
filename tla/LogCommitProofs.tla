--------------------------- MODULE LogCommitProofs --------------------------
(***************************************************************************)
(* The steps of commit() preserve IInv of Log.                             *)
(***************************************************************************)
EXTENDS LogOpProofs
-----------------------------------------------------------------------------
(* commit() *)

\* A commit step keeps the control invariant when the committer goes on
\* committing and the others stay where they are.
LEMMA CommitControl ==
  ASSUME IInv, NEW p \in Procs, pc[p] \in CommitPC, pc'[p] \in CommitPC,
         pc' \in [Procs -> PC], \A q \in Procs : q # p => pc'[q] = pc[q],
         UNCHANGED <<outstanding, committing, locked>>
  PROVE  /\ Control' /\ ~Recovering' /\ ~Recovering
         /\ \A q \in Procs : q # p => pc[q] \notin CommitPC /\ pc'[q] \notin CommitPC
         /\ \A q \in Procs : pc'[q] \notin RecoverPC
  <1> USE BootProc
  <1>1. /\ outstanding = 0 /\ committing /\ ~Recovering /\ Active = {}
        /\ \A q \in Procs : /\ q # p => pc[q] \notin CommitPC
                            /\ pc[q] \notin RecoverPC /\ pc[q] # "op"
        /\ \A q \in Procs : locked[q] = {}
    BY DuringCommit, Zenon
  <1>2. ~Recovering' /\ \A q \in Procs : pc'[q] \notin RecoverPC
    BY <1>1, Zenon DEF Recovering, CommitPC, RecoverPC
  <1>3. Active' = Active
    BY <1>1, Zenon DEF Active, CommitPC
  <1>4. Control'
    BY <1>1, <1>2, <1>3, ZenonT(40) DEF IInv, Control, SleeperHasWaker, CommitPC, RecoverPC
  <1> QED BY <1>1, <1>2, <1>4, Zenon

\* write_log() makes log block i equal to the cached block of entry i.
LEMMA Inv_write_log == \A p \in Procs : Preserved(write_log(p))
  <1> SUFFICES ASSUME IInv, NEW p \in Procs, write_log(p)
               PROVE  IInv'
    BY Zenon DEF Preserved
  <1> DEFINE t == tail[p]
  <1> USE BootProc DEF IInv
  <1>0. /\ pc[p] = "write_log" /\ slot' = [slot EXCEPT ![t] = bread(lh[t])]
        /\ buf' = [buf EXCEPT ![lh[t]] = bread(lh[t])]
        /\ Loop(p, "write_head")
        /\ UNCHANGED <<home, head, pin, lh, outstanding, committing, locked, wrote,
                       panicked, crashes>>
    BY Zenon DEF write_log, log
  <1>1. /\ t \in 1 .. Len(lh) /\ t \in Slots /\ Len(lh) \in Nat
        /\ \A i \in 1 .. Len(lh) : lh[i] \in Blocks /\ i \in Slots
    BY LogAssumption, <1>0, SMTT(40) DEF Transaction, TypeOK, Slots
  <1>2. /\ pc' \in [Procs -> PC] /\ tail' \in [Procs -> Nat \ {0}]
        /\ \A q \in Procs : q # p => pc'[q] = pc[q] /\ tail'[q] = tail[q]
        /\ \/ t < Len(lh) /\ tail'[p] = t + 1 /\ pc'[p] = pc[p]
           \/ t = Len(lh) /\ tail'[p] = 1 /\ pc'[p] = "write_head"
    BY <1>0, <1>1, LoopFacts DEF PC, CommitPC
  <1>3. /\ Control' /\ ~Recovering' /\ ~Recovering
        /\ \A q \in Procs : q # p => pc[q] \notin CommitPC /\ pc'[q] \notin CommitPC
        /\ \A q \in Procs : pc'[q] \notin RecoverPC
    <2>1. pc[p] \in CommitPC /\ pc'[p] \in CommitPC
      BY <1>0, <1>2, Zenon DEF CommitPC
    <2>2. /\ pc' \in [Procs -> PC] /\ \A q \in Procs : q # p => pc'[q] = pc[q]
          /\ UNCHANGED <<outstanding, committing, locked>>
      BY <1>0, <1>2, Zenon
    <2> QED BY <2>1, <2>2, CommitControl, ZenonT(40)
  <1>4. \A i : ~Installed(i) /\ ~Installed(i)'
    BY <1>0, <1>2, <1>3, Zenon DEF Installed, CommitPC
  <1>5. buf' = buf /\ \A i \in 1 .. Len(lh) : bread(lh[i]) = buf[lh[i]] /\ buf[lh[i]] \in Data
    <2>1. \A i \in 1 .. Len(lh) : buf[lh[i]] # Invalid
      BY <1>3, <1>4, Zenon DEF Copies
    <2>2. \A i \in 1 .. Len(lh) : bread(lh[i]) = buf[lh[i]] /\ buf[lh[i]] \in Data
      BY <1>1, <2>1, SMTT(40) DEF bread, TypeOK
    <2>3. buf' = [buf EXCEPT ![lh[t]] = buf[lh[t]]]
      BY <1>0, <1>1, <2>2, ZenonT(40)
    <2> QED BY <1>1, <2>2, <2>3, Zenon DEF TypeOK
  <1>6. TypeOK'
    <2>1. slot' \in [Slots -> Data]
      BY <1>0, <1>1, <1>5, SMTT(60) DEF TypeOK
    <2> QED BY <1>0, <1>2, <1>5, <2>1, SMTT(60) DEF TypeOK
  <1>7. Transaction'
    <2>1. lh # <<>> /\ head = <<>>
      BY <1>0, <1>3, Zenon DEF Transaction, CommitPC
    <2>2. tail'[p] <= Len(lh) /\ (pc'[p] # "write_log" => tail'[p] = 1)
      BY <1>0, <1>1, <1>2
    <2> QED BY <1>0, <1>2, <1>3, <2>1, <2>2, SMTT(60) DEF Transaction, Distinct, CommitPC, RecoverPC
  <1>8. \A i \in 1 .. Len(lh) :
          i < t \/ i = t => slot'[i] = buf[lh[i]]
    BY <1>0, <1>1, <1>5, SMTT(60) DEF Copies, TypeOK
  <1>9. \A i \in 1 .. Len(lh) : bread(lh[i])' = buf[lh[i]]
    BY <1>0, <1>5, Zenon DEF bread
  <1>10. \A q \in Procs, i \in 1 .. Len(lh) :
           /\ pc'[q] = "write_log" /\ i < tail'[q] => slot'[i] = bread(lh[i])'
           /\ pc'[q] \in {"write_head", "install", "erase"} => slot'[i] = bread(lh[i])'
    <2> SUFFICES ASSUME NEW q \in Procs, NEW i \in 1 .. Len(lh),
                        \/ pc'[q] = "write_log" /\ i < tail'[q]
                        \/ pc'[q] \in {"write_head", "install", "erase"}
                 PROVE  slot'[i] = bread(lh[i])'
      BY Zenon
    <2>1. q = p
      BY <1>3, ZenonT(40) DEF CommitPC
    <2>2. pc[p] = "write_log"
      BY <1>0, Zenon
    <2>3. i < t \/ i = t
      BY <1>1, <1>2, <2>1, <2>2, SMTT(60)
    <2> QED BY <1>8, <1>9, <2>3, ZenonT(40)
  <1>11. Copies'
    <2>1. \A q \in Procs : pc'[q] \notin {"install", "erase", "rec_install", "rec_erase"}
      BY <1>0, <1>2, <1>3, Zenon DEF CommitPC, RecoverPC
    <2>2. \A c \in Blocks :
            buf'[c] # Invalid /\ ~InLog(c)' /\ Unlocked(c)' => buf'[c] = home'[c]
      BY <1>0, <1>5, ZenonT(60) DEF Copies, InLog, Unlocked
    <2>3. \A q \in Procs : \A c \in locked'[q] : buf'[c] # Invalid
      BY <1>0, <1>5, ZenonT(60) DEF Copies
    <2>4. \A i \in 1 .. Len(lh') : buf'[lh'[i]] # Invalid
      BY <1>0, <1>3, <1>4, <1>5, ZenonT(40) DEF Copies
    <2>5. lh' = lh /\ ~Recovering'
      BY <1>0, <1>3, Zenon
    <2>6. \A q \in Procs, i \in 1 .. Len(lh') :
            /\ pc'[q] = "write_log" /\ i < tail'[q] => slot'[i] = bread(lh[i])'
            /\ pc'[q] \in {"write_head", "install", "erase"} => slot'[i] = bread(lh[i])'
      BY <1>10, <2>5, ZenonT(40)
    <2>7. \A q \in Procs, i \in 1 .. Len(lh') :
            \/ pc'[q] \in {"install", "rec_install"} /\ i < tail'[q]
            \/ pc'[q] \in {"erase", "rec_erase"}
            => slot'[i] = home'[lh'[i]]
      BY <2>1, ZenonT(40)
    <2> HIDE DEF IInv
    <2> QED BY <2>2, <2>3, <2>4, <2>5, <2>6, <2>7, SMTT(40) DEF Copies
  <1>12. PinnedUntilInstalled'
    BY <1>0, <1>3, <1>4, Zenon DEF PinnedUntilInstalled
  <1> QED BY <1>3, <1>6, <1>7, <1>11, <1>12, Zenon

\* The header is written when all log blocks are.
LEMMA Inv_write_head == \A p \in Procs : Preserved(write_head(p))
  <1> SUFFICES ASSUME IInv, NEW p \in Procs, write_head(p)
               PROVE  IInv'
    BY Zenon DEF Preserved
  <1> USE BootProc DEF IInv
  <1>0. /\ pc[p] = "write_head" /\ head' = lh /\ pc' = [pc EXCEPT ![p] = "install"]
        /\ UNCHANGED <<home, slot, buf, pin, lh, outstanding, committing, tail, locked,
                       wrote, panicked, crashes>>
    BY Zenon DEF write_head, log, cache
  <1>1. /\ pc' \in [Procs -> PC] /\ pc'[p] = "install"
        /\ \A q \in Procs : q # p => pc'[q] = pc[q]
    BY <1>0, Zenon DEF TypeOK, PC, CommitPC
  <1>2. /\ Control' /\ ~Recovering' /\ ~Recovering
        /\ \A q \in Procs : q # p => pc[q] \notin CommitPC /\ pc'[q] \notin CommitPC
        /\ \A q \in Procs : pc'[q] \notin RecoverPC
    <2>1. pc[p] \in CommitPC /\ pc'[p] \in CommitPC
      BY <1>0, <1>1, Zenon DEF CommitPC
    <2>2. /\ pc' \in [Procs -> PC] /\ \A q \in Procs : q # p => pc'[q] = pc[q]
          /\ UNCHANGED <<outstanding, committing, locked>>
      BY <1>0, <1>1, Zenon
    <2> QED BY <2>1, <2>2, CommitControl, ZenonT(40)
  <1>3. TypeOK'
    BY <1>0, <1>1, Zenon DEF TypeOK
  <1>4. tail[p] = 1 /\ tail[p] <= Len(lh)
    BY LogAssumption, <1>0, NonEmpty, SMTT(60) DEF Transaction, TypeOK, CommitPC
  <1>5. Transaction'
    BY <1>0, <1>1, <1>2, <1>4, SMTT(40) DEF Transaction, Distinct, CommitPC, RecoverPC
  <1>6. \A i \in 1 .. Len(lh) : ~Installed(i) /\ ~Installed(i)'
    BY <1>0, <1>1, <1>2, <1>4, SMTT(40) DEF Installed, CommitPC
  <1>7. Copies'
    <2>1. \A q \in Procs : /\ pc'[q] \in {"write_log", "write_head", "install", "erase"} => q = p
                           /\ pc'[q] \notin {"rec_install", "rec_erase"}
      BY <1>2, ZenonT(40) DEF CommitPC, RecoverPC
    <2>2. \A i \in 1 .. Len(lh) : ~(i < tail[p])
      BY <1>4, SMTT(40)
    <2>3. \A c \in Blocks :
            buf'[c] # Invalid /\ ~InLog(c)' /\ Unlocked(c)' => buf'[c] = home'[c]
      BY <1>0, ZenonT(40) DEF Copies, InLog, Unlocked
    <2>4. \A q \in Procs : \A c \in locked'[q] : buf'[c] # Invalid
      BY <1>0, ZenonT(40) DEF Copies
    <2>5. \A i \in 1 .. Len(lh') : buf'[lh'[i]] # Invalid
      BY <1>0, <1>2, <1>6, ZenonT(40) DEF Copies
    <2>6. \A i \in 1 .. Len(lh') : slot'[i] = bread(lh[i])'
      BY <1>0, ZenonT(60) DEF Copies, bread
    <2>7. pc'[p] = "install" /\ tail' = tail /\ lh' = lh /\ ~Recovering'
      BY <1>0, <1>1, <1>2, Zenon
    <2> QED BY <2>1, <2>2, <2>3, <2>4, <2>5, <2>6, <2>7, ZenonT(60) DEF Copies, bread
  <1>8. PinnedUntilInstalled'
    BY <1>0, <1>2, <1>6, Zenon DEF PinnedUntilInstalled
  <1> QED BY <1>2, <1>3, <1>5, <1>7, <1>8, Zenon

\* install_trans() makes home block and log block equal, then unpins.
LEMMA Inv_install_trans == \A p \in Procs : Preserved(install_trans(p))
  <1> SUFFICES ASSUME IInv, NEW p \in Procs, install_trans(p)
               PROVE  IInv'
    BY Zenon DEF Preserved
  <1> DEFINE t == tail[p]
             b == lh[t]
  <1> USE BootProc DEF IInv
  <1>0. /\ pc[p] = "install" /\ home' = [home EXCEPT ![b] = slot[t]]
        /\ buf' = [buf EXCEPT ![b] = slot[t]]
        /\ pin' = [pin EXCEPT ![b] = @ - 1]
        /\ Loop(p, "erase")
        /\ UNCHANGED <<slot, head, lh, outstanding, committing, locked, wrote,
                       panicked, crashes>>
    BY Zenon DEF install_trans, Install, log
  <1>1. /\ t \in 1 .. Len(lh) /\ t \in Slots /\ Len(lh) \in Nat /\ b \in Blocks
        /\ \A i \in 1 .. Len(lh) : lh[i] \in Blocks /\ i \in Slots
        /\ slot[t] \in Data /\ head = lh
    BY LogAssumption, <1>0, SMTT(60) DEF Transaction, TypeOK, Slots
  <1>2. /\ pc' \in [Procs -> PC] /\ tail' \in [Procs -> Nat \ {0}]
        /\ \A q \in Procs : q # p => pc'[q] = pc[q] /\ tail'[q] = tail[q]
        /\ \/ t < Len(lh) /\ tail'[p] = t + 1 /\ pc'[p] = pc[p]
           \/ t = Len(lh) /\ tail'[p] = 1 /\ pc'[p] = "erase"
    <2>1. "erase" \in PC
      BY Zenon DEF PC, CommitPC
    <2>2. t <= Len(lh)
      BY <1>1
    <2> QED BY <1>0, <2>1, <2>2, LoopFacts, ZenonT(40)
  <1>3. /\ Control' /\ ~Recovering' /\ ~Recovering
        /\ \A q \in Procs : q # p => pc[q] \notin CommitPC /\ pc'[q] \notin CommitPC
        /\ \A q \in Procs : pc'[q] \notin RecoverPC
    <2>1. pc[p] \in CommitPC /\ pc'[p] \in CommitPC
      BY <1>0, <1>2, Zenon DEF CommitPC
    <2>2. /\ pc' \in [Procs -> PC] /\ \A q \in Procs : q # p => pc'[q] = pc[q]
          /\ UNCHANGED <<outstanding, committing, locked>>
      BY <1>0, <1>2, SMTT(60)
    <2> QED BY <2>1, <2>2, CommitControl, ZenonT(40)
  <1>4. \A i \in 1 .. Len(lh) : /\ Installed(i) <=> i < t
                                /\ Installed(i)' <=> i < t \/ i = t
    BY <1>0, <1>1, <1>2, <1>3, SMTT(60) DEF Installed, CommitPC
  <1>5. \A i, j \in 1 .. Len(lh) : lh[i] = lh[j] => i = j
    BY SMTT(40) DEF Transaction, Distinct
  <1>6. \A c \in Blocks : pin[c] = IF \E i \in 1 .. Len(lh) : lh[i] = c /\ ~(i < t)
                                   THEN 1 ELSE 0
    BY <1>3, <1>4, Zenon DEF PinnedUntilInstalled
  <1>7. pin[b] = 1
    BY <1>1, <1>6
  <1>8. pin' = [pin EXCEPT ![b] = 0]
    BY <1>0, <1>7, SMTT(60)
  <1>9. TypeOK'
    BY <1>0, <1>1, <1>2, <1>8, SMTT(60) DEF TypeOK
  <1>10. Transaction'
    BY <1>0, <1>1, <1>2, <1>3, SMTT(60) DEF Transaction, Distinct, CommitPC, RecoverPC
  <1>11. /\ \A c \in Blocks : c # b => buf'[c] = buf[c] /\ home'[c] = home[c]
                                       /\ bread(c)' = bread(c)
         /\ \A c \in Blocks : c = b => buf'[c] = slot[t] /\ home'[c] = slot[t]
                                       /\ bread(c)' = slot[t]
    BY <1>0, <1>1, SMTT(60) DEF TypeOK, bread
  <1>12. \A i \in 1 .. Len(lh) :
           /\ slot[i] = bread(lh[i])'
           /\ i < t \/ i = t => slot[i] = home'[lh[i]]
           /\ ~(i < t \/ i = t) => buf'[lh[i]] # Invalid
    <2> SUFFICES ASSUME NEW i \in 1 .. Len(lh)
                 PROVE  /\ slot[i] = bread(lh[i])'
                        /\ i < t \/ i = t => slot[i] = home'[lh[i]]
                        /\ ~(i < t \/ i = t) => buf'[lh[i]] # Invalid
      BY SMTT(60)
    <2>1. CASE i = t
      BY <1>0, <1>1, <1>11, <2>1, SMTT(60)
    <2>2. CASE i # t
      <3>1. lh[i] # b /\ lh[i] \in Blocks
        BY <1>1, <1>5, <2>2, SMTT(40)
      <3>2. bread(lh[i])' = bread(lh[i])
        BY <1>0, <1>11, <3>1, SMTT(40)
      <3>3. slot[i] = bread(lh[i]) /\ (i < t => slot[i] = home[lh[i]])
            /\ (~(i < t) => buf[lh[i]] # Invalid)
        BY <1>0, <1>3, <1>4, SMTT(60) DEF Copies
      <3> QED BY <1>11, <2>2, <3>1, <3>2, <3>3, SMTT(40)
    <2> QED BY <2>1, <2>2, Zenon
  <1>13. \A q \in Procs : \A c \in locked'[q] : FALSE
    BY <1>0, DuringCommit, SMTT(60) DEF CommitPC
  <1>14. Copies'
    <2>1. \A c \in Blocks :
            buf'[c] # Invalid /\ ~InLog(c)' /\ Unlocked(c)' => buf'[c] = home'[c]
      <3>1. \A c \in Blocks : InLog(c)' = InLog(c) /\ Unlocked(c)' = Unlocked(c)
        BY <1>0, ZenonT(40) DEF InLog, Unlocked
      <3> QED BY <1>11, <3>1, ZenonT(40) DEF Copies
    <2>2. \A i \in 1 .. Len(lh') : ~Installed(i)' => buf'[lh'[i]] # Invalid
      BY <1>0, <1>4, <1>12, ZenonT(40)
    <2>3. \A q \in Procs, i \in 1 .. Len(lh') :
            /\ pc'[q] # "write_log" /\ slot'[i] = bread(lh[i])'
            /\ \/ pc'[q] \in {"install", "rec_install"} /\ i < tail'[q]
               \/ pc'[q] \in {"erase", "rec_erase"}
               => slot'[i] = home'[lh'[i]]
      <3>1. \A q \in Procs : pc'[q] # "write_log"
        BY <1>0, <1>2, <1>3, ZenonT(40) DEF CommitPC
      <3>2. \A q \in Procs : pc'[q] \in {"install", "erase", "rec_install", "rec_erase"} => q = p
        BY <1>3, ZenonT(40) DEF CommitPC, RecoverPC
      <3>3. \A i \in 1 .. Len(lh) : i < tail'[p] \/ pc'[p] # pc[p] => i < t \/ i = t
        BY <1>1, <1>2, SMTT(40)
      <3>4. pc'[p] = "erase" => pc'[p] # pc[p]
        BY <1>0, Zenon
      <3>5. pc'[p] \notin {"rec_install", "rec_erase"}
        BY <1>3, ZenonT(40) DEF RecoverPC
      <3> QED BY <1>0, <1>12, <3>1, <3>2, <3>3, <3>4, <3>5, ZenonT(60)
    <2> QED BY <1>3, <1>13, <2>1, <2>2, <2>3, SMTT(40) DEF Copies
  <1>15. PinnedUntilInstalled'
    <2>1. \A c \in Blocks : c # b => pin'[c] = pin[c]
      BY <1>8, Zenon DEF TypeOK
    <2>2. pin'[b] = 0
      BY <1>1, <1>8, Zenon DEF TypeOK
    <2>3. \A c \in Blocks : pin'[c] = IF \E i \in 1 .. Len(lh) : lh[i] = c /\ ~(i < t \/ i = t)
                                      THEN 1 ELSE 0
      BY <1>1, <1>5, <1>6, <2>1, <2>2
    <2>4. \A c \in Blocks : (\E i \in 1 .. Len(lh') : lh'[i] = c /\ ~Installed(i)')
                             <=> (\E i \in 1 .. Len(lh) : lh[i] = c /\ ~(i < t \/ i = t))
      BY <1>0, <1>4, ZenonT(40)
    <2> QED BY <2>3, <2>4, ZenonT(40) DEF PinnedUntilInstalled
  <1> QED BY <1>3, <1>9, <1>10, <1>14, <1>15, SMTT(40)

\* The header is erased when all blocks are installed and unpinned.
LEMMA Inv_erase == \A p \in Procs : Preserved(erase(p))
  <1> SUFFICES ASSUME IInv, NEW p \in Procs, erase(p)
               PROVE  IInv'
    BY Zenon DEF Preserved
  <1> USE BootProc DEF IInv
  <1>0. /\ pc[p] = "erase" /\ lh' = <<>> /\ head' = <<>>
        /\ pc' = [pc EXCEPT ![p] = "finish"]
        /\ UNCHANGED <<home, slot, buf, pin, outstanding, committing, tail, locked,
                       wrote, panicked, crashes>>
    BY Zenon DEF erase, cache
  <1>1. /\ pc' \in [Procs -> PC] /\ pc'[p] = "finish"
        /\ \A q \in Procs : q # p => pc'[q] = pc[q]
    BY <1>0, Zenon DEF TypeOK, PC, CommitPC
  <1>2. /\ Control' /\ ~Recovering' /\ ~Recovering
        /\ \A q \in Procs : q # p => pc[q] \notin CommitPC /\ pc'[q] \notin CommitPC
        /\ \A q \in Procs : pc'[q] \notin RecoverPC
    <2>1. pc[p] \in CommitPC /\ pc'[p] \in CommitPC
      BY <1>0, <1>1, Zenon DEF CommitPC
    <2>2. /\ pc' \in [Procs -> PC] /\ \A q \in Procs : q # p => pc'[q] = pc[q]
          /\ UNCHANGED <<outstanding, committing, locked>>
      BY <1>0, <1>1, Zenon
    <2> QED BY <2>1, <2>2, CommitControl, ZenonT(40)
  <1>3. lh' \in Seq(Blocks) /\ head' \in Seq(Blocks) /\ Len(lh') = 0 /\ Len(head') = 0
    BY <1>0, SMTT(40)
  <1>4. TypeOK'
    BY LogAssumption, <1>0, <1>1, <1>3, SMTT(40) DEF TypeOK
  <1>5. Transaction'
    BY <1>0, <1>1, <1>2, <1>3, SMTT(40) DEF Transaction, Distinct, CommitPC, RecoverPC
  <1>6. \A i : Installed(i)
    BY <1>0, Zenon DEF Installed
  <1>7. \A b \in Blocks : buf[b] # Invalid => buf[b] = home[b]
    <2> SUFFICES ASSUME NEW b \in Blocks, buf[b] # Invalid PROVE buf[b] = home[b]
      BY Zenon
    <2>1. Unlocked(b)
      BY <1>0, DuringCommit, ZenonT(40) DEF CommitPC, Unlocked
    <2>2. CASE InLog(b)
      <3>1. PICK i \in 1 .. Len(lh) : lh[i] = b
        BY <2>2, SMTT(40) DEF InLog
      <3> QED BY <1>0, <3>1, SMTT(40) DEF Copies, bread
    <2>3. CASE ~InLog(b)
      BY <2>1, <2>3, ZenonT(40) DEF Copies
    <2> QED BY <2>2, <2>3, Zenon
  <1>8. \A b \in Blocks : pin[b] = 0
    BY <1>2, <1>6, SMTT(40) DEF PinnedUntilInstalled
  <1>9. \A q \in Procs : locked[q] = {}
    BY <1>0, DuringCommit, ZenonT(40) DEF CommitPC
  <1>10. Copies' /\ PinnedUntilInstalled'
    BY <1>0, <1>3, <1>7, <1>8, <1>9, EmptyLog, Zenon
  <1> QED BY <1>2, <1>4, <1>5, <1>10, Zenon

\* end_op() lets the sleepers in when the log is empty again.
LEMMA Inv_finish == \A p \in Procs : Preserved(finish(p))
  <1> SUFFICES ASSUME IInv, NEW p \in Procs, finish(p)
               PROVE  IInv'
    BY Zenon DEF Preserved
  <1> USE BootProc DEF IInv
  <1>0. /\ pc[p] = "finish" /\ committing' = FALSE
        /\ pc' = wakeup([pc EXCEPT ![p] = "idle"])
        /\ UNCHANGED <<home, slot, head, buf, pin, lh, outstanding, tail, locked,
                       wrote, panicked, crashes>>
    BY Zenon DEF finish, cache, disk
  <1>1. /\ outstanding = 0 /\ ~Recovering /\ Active = {}
        /\ \A q \in Procs : /\ q # p => pc[q] \notin CommitPC
                            /\ pc[q] \notin RecoverPC /\ pc[q] # "op"
        /\ \A q \in Procs : locked[q] = {}
    BY <1>0, DuringCommit, ZenonT(40) DEF CommitPC
  <1>2. /\ pc' \in [Procs -> PC] /\ \A q \in Procs : pc'[q] # "asleep"
        /\ \A q \in Procs : pc'[q] \in {pc[q], "idle", "awake"}
        /\ pc'[p] = "idle"
    BY <1>0, Zenon DEF TypeOK, PC, CommitPC, RecoverPC, wakeup
  <1>3. \A q \in Procs : /\ pc'[q] \notin CommitPC /\ pc'[q] \notin RecoverPC
                         /\ pc'[q] # "op"
    BY <1>1, <1>2, SMTT(40) DEF CommitPC, RecoverPC
  <1>4. /\ ~Recovering' /\ Active' = {} /\ lh = <<>> /\ head = <<>>
        /\ \A i : ~Installed(i) /\ ~Installed(i)'
    BY <1>0, <1>1, <1>3, ZenonT(40) DEF Recovering, Active, Transaction, Installed, CommitPC
  <1>5. TypeOK'
    <2>1. committing' \in BOOLEAN /\ panicked' \in BOOLEAN
      BY <1>0, ZenonT(40) DEF TypeOK
    <2> QED BY <1>0, <1>2, <2>1, ZenonT(40) DEF TypeOK
  <1>6. Control'
    <2>1. Cardinality(Active') = 0
      BY <1>1, <1>4, ZenonT(40) DEF Control
    <2>2. \A q \in Procs : pc'[q] = "down" => pc[q] = "down"
      BY <1>2, SMTT(40)
    <2> QED BY <1>0, <1>1, <1>2, <1>3, <1>4, <2>1, <2>2, ZenonT(40) DEF Control, SleeperHasWaker
  <1>7. Transaction'
    <2>1. \A q \in Procs : tail[q] = 1
      BY <1>0, <1>1, SMTT(40) DEF Transaction, CommitPC, RecoverPC
    <2>2. Distinct(lh') /\ Distinct(head')
      BY <1>0 DEF Transaction, Distinct
    <2>3. \A q \in Procs : pc'[q] \notin {"write_log", "install", "erase", "rec_install",
                                         "rec_erase", "finish", "write_head"}
      BY <1>3, SMTT(40) DEF CommitPC, RecoverPC
    <2> QED BY <1>0, <1>3, <1>4, <2>1, <2>2, <2>3, ZenonT(40) DEF Transaction
  <1>8. \A i \in 1 .. Len(lh) : FALSE
    BY <1>4, SMTT(40)
  <1>9. \A b \in Blocks : pin[b] = 0
    BY <1>1, <1>8, SMTT(40) DEF PinnedUntilInstalled
  <1>10. \A b \in Blocks : buf[b] # Invalid => buf[b] = home[b]
    BY <1>1, <1>8, SMTT(60) DEF Copies, InLog, Unlocked
  <1>11. Copies' /\ PinnedUntilInstalled'
    BY <1>0, <1>1, <1>4, <1>9, <1>10, EmptyLog, Zenon
  <1> QED BY <1>5, <1>6, <1>7, <1>11, Zenon
=============================================================================
