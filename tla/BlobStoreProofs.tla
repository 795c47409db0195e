-------------------------- MODULE BlobStoreProofs ---------------------------
(* Proofs about BlobStore.  What holds of the files holds only without     *)
(* some of the mishaps: Writes and Keeps name the ones they exclude.       *)
EXTENDS BlobStore, TLAPS

-----------------------------------------------------------------------------
(* Types, whatever happens.                                                *)

(* The records a step makes out of a request are requests again. *)
LEMMA RequestFields ==
  ASSUME BlobAssumption, NEW q \in Request
  PROVE  /\ Idle \in Request
         /\ \A f \in Files : [q EXCEPT !.pc = "copy", !.file = f] \in Request
         /\ \A n \in 1..(Blocks + 1), p \in {"copy", "rename"} :
              [q EXCEPT !.next = n, !.pc = p] \in Request
         /\ [q EXCEPT !.pc = "insert", !.file = NoFile, !.next = 1] \in Request
         /\ \A A \in SUBSET Archives : [q EXCEPT !.todo = A] \in Request
<1>1. 0 \in 0..MaxSkill /\ 1 \in 1..(Blocks + 1)
  BY DEF BlobAssumption
<1>2. Idle \in Request
  BY <1>1 DEF Idle, Request
<1>3. ASSUME NEW f \in Files
      PROVE  [q EXCEPT !.pc = "copy", !.file = f] \in Request
  BY DEF Request
<1>4. ASSUME NEW n \in 1..(Blocks + 1), NEW p \in {"copy", "rename"}
      PROVE  [q EXCEPT !.next = n, !.pc = p] \in Request
  BY DEF Request
<1>5. [q EXCEPT !.pc = "insert", !.file = NoFile, !.next = 1] \in Request
  BY <1>1 DEF Request
<1>6. ASSUME NEW A \in SUBSET Archives
      PROVE  [q EXCEPT !.todo = A] \in Request
  BY DEF Request
<1> QED
  BY <1>2, <1>3, <1>4, <1>5, <1>6

LEMMA TypeInit == ASSUME BlobAssumption PROVE Init => TypeOK
  BY DEF BlobAssumption, Init, TypeOK, Idle, Request, Whole

(* The fields a step sets keep their types. *)
LEMMA TypeStep ==
  ASSUME BlobAssumption, TypeOK, RequestsInStep, [Next]_vars
  PROVE TypeOK'
<1> USE DEF TypeOK
<1> SUFFICES ASSUME Step \/ UNCHANGED vars
             PROVE  TypeOK'
  BY DEF Next
<1>0. Idle \in Request /\ happens' \in SUBSET Mishap
  BY DEF Next, vars, BlobAssumption, Idle, Request
<1>1. CASE CreateSkill
  BY <1>1, <1>0 DEF CreateSkill, fileVars, BlobAssumption
<1>2. CASE \E r \in Requests, a \in Archives : Unchanged(r, a)
  BY <1>2, <1>0 DEF Unchanged, rowVars, fileVars
<1>3. CASE \E r \in Requests, a \in Archives : StartPublish(r, a)
  <2>1. PICK r \in Requests, a \in Archives : StartPublish(r, a)
    BY <1>3
  <2>2. [Idle EXCEPT !.pc = "open", !.archive = a, !.skill = skill] \in Request
    BY <1>0 DEF Idle, Request
  <2> QED
    BY <1>0, <2>1, <2>2 DEF StartPublish, rowVars, fileVars
<1>4. CASE \E r \in Requests : Open(r)
  <2>1. PICK r \in Requests : Open(r)
    BY <1>4
  <2>2. PICK f \in Openable(req[r].archive) :
          /\ content' = [content EXCEPT ![f] = {}]
          /\ tmp' = [tmp EXCEPT ![req[r].archive] = f]
          /\ req' = [req EXCEPT ![r].pc = "copy", ![r].file = f]
    BY <2>1 DEF Open
  <2>3. f \in Files
    BY <2>1, <2>2 DEF Open, Openable, RequestsInStep, Publishing
  <2>4. [req[r] EXCEPT !.pc = "copy", !.file = f] \in Request
    BY <2>3, RequestFields
  <2>5. req' = [req EXCEPT ![r] = [req[r] EXCEPT !.pc = "copy", !.file = f]]
    BY <2>2
  <2>6. content' \in [Files -> SUBSET Whole]
    BY <2>2, <2>3
  <2>7. tmp' \in [Archives -> Files \cup {NoFile}]
    BY <2>2, <2>3
  <2>8. req' \in [Requests -> Request]
    BY <2>4, <2>5
  <2> QED
    BY <1>0, <2>1, <2>6, <2>7, <2>8 DEF Open, rowVars
<1>5. CASE \E r \in Requests : Copy(r)
  <2>1. PICK r \in Requests : Copy(r)
    BY <1>5
  <2>2. req[r].file \in Files /\ req[r].next \in Whole
    BY <2>1 DEF RequestsInStep, Copy
  <2>3. [req[r] EXCEPT !.next = req[r].next + 1,
                       !.pc = IF req[r].next < Blocks THEN "copy" ELSE "rename"]
          \in Request
    <3>1. req[r].next + 1 \in 1..(Blocks + 1)
      BY <2>2 DEF Whole, BlobAssumption
    <3> QED
      BY <3>1, RequestFields
  <2>4. req' = [req EXCEPT ![r] =
                  [req[r] EXCEPT !.next = req[r].next + 1,
                                 !.pc = IF req[r].next < Blocks THEN "copy" ELSE "rename"]]
    BY <2>1 DEF Copy
  <2> QED
    BY <1>0, <2>1, <2>2, <2>3, <2>4 DEF Copy, rowVars
<1>6. CASE \E r \in Requests : OpenFails(r) \/ CopyFails(r) \/ RenameFails(r)
  BY <1>6, <1>0 DEF OpenFails, CopyFails, RenameFails, Done, rowVars, fileVars
<1>7. CASE \E r \in Requests : Rename(r)
  <2>1. PICK r \in Requests : Rename(r)
    BY <1>7
  <2>2. [req[r] EXCEPT !.pc = "insert", !.file = NoFile, !.next = 1] \in Request
    BY RequestFields
  <2>3. req' = [req EXCEPT ![r] =
                  [req[r] EXCEPT !.pc = "insert", !.file = NoFile, !.next = 1]]
    BY <2>1 DEF Rename
  <2>4. /\ dest' \in [Archives -> Files \cup {NoFile}]
        /\ tmp' \in [Archives -> Files \cup {NoFile}]
    BY <2>1 DEF Rename, RequestsInStep, Publishing
  <2> QED
    BY <1>0, <2>1, <2>2, <2>3, <2>4 DEF Rename, rowVars
<1>8. CASE \E r \in Requests : Insert(r)
  <2>1. PICK r \in Requests : Insert(r)
    BY <1>8
  <2>2. req[r].archive \in Archives
    BY <2>1 DEF Insert, RequestsInStep, Publishing
  <2>3. /\ versions' \in Seq(Archives)
        /\ Len(versions') = Len(versions) + 1
    BY <2>1, <2>2 DEF Insert
  <2>4. latest' \in 0..Len(versions')
    BY <2>1, <2>3 DEF Insert
  <2>5. told' \subseteq Archives
    BY <2>1, <2>2 DEF Insert
  <2> QED
    BY <2>1, <2>3, <2>4, <2>5, <1>0 DEF Insert, Done, fileVars
<1>9. CASE \E r \in Requests : InsertFails(r)
  <2>1. PICK r \in Requests : InsertFails(r)
    BY <1>9
  <2>2. dest' \in [Archives -> Files \cup {NoFile}]
    BY <2>1 DEF InsertFails
  <2>3. req' \in [Requests -> Request]
    BY <2>1, <1>0 DEF InsertFails, Done
  <2> QED
    BY <1>0, <2>1, <2>2, <2>3 DEF InsertFails, rowVars
<1>10. CASE \E r \in Requests : StartDelete(r)
  <2>1. PICK r \in Requests : StartDelete(r)
    BY <1>10
  <2>2. {versions[v] : v \in DOMAIN versions} \subseteq Archives
    OBVIOUS
  <2>3. [Idle EXCEPT !.pc = "purge",
                     !.todo = {versions[v] : v \in DOMAIN versions}] \in Request
    BY <1>0, <2>2 DEF Idle, Request
  <2> QED
    BY <1>0, <2>1, <2>3 DEF StartDelete, rowVars, fileVars
<1>11. CASE \E r \in Requests : Purge(r)
  <2>0. PICK r \in Requests : Purge(r)
    BY <1>11
  <2>1. PICK a \in req[r].todo :
          /\ dest' = [dest EXCEPT ![a] = NoFile]
          /\ req' = [req EXCEPT ![r].todo = @ \ {a}]
          /\ told' = told \ {a}
          /\ UNCHANGED <<rowVars, tmp, content>>
    BY <2>0 DEF Purge
  <2>2. [req[r] EXCEPT !.todo = req[r].todo \ {a}] \in Request
    <3>1. req[r].todo \ {a} \in SUBSET Archives
      BY DEF Request
    <3> QED
      BY <3>1, RequestFields
  <2>3. req' = [req EXCEPT ![r] = [req[r] EXCEPT !.todo = req[r].todo \ {a}]]
    BY <2>1
  <2> QED
    BY <1>0, <2>1, <2>2, <2>3 DEF rowVars
<1>12. CASE \E r \in Requests : DeleteRow(r)
  BY <1>12, <1>0 DEF DeleteRow, Done, fileVars
<1>13. CASE Crash \/ \E a \in Archives : Lose(a)
  BY <1>13, <1>0 DEF Crash, Lose, rowVars, fileVars
<1>14. CASE UNCHANGED vars
  BY <1>14, <1>0 DEF vars, rowVars, fileVars
<1> QED
  BY <1>1, <1>2, <1>3, <1>4, <1>5, <1>6, <1>7, <1>8, <1>9, <1>10, <1>11,
     <1>12, <1>13, <1>14 DEF Step

(* What a request at each step has in hand. *)
LEMMA RequestsStep ==
  ASSUME BlobAssumption, TypeOK, RequestsInStep, [Next]_vars
  PROVE RequestsInStep'
<1> USE DEF TypeOK, RequestsInStep, Publishing
<1> SUFFICES ASSUME NEW q \in Requests
             PROVE /\ Publishing(q)' => req'[q].archive \in Archives
                   /\ req'[q].pc = "open" => req'[q].next = 1
                   /\ req'[q].pc = "copy" => /\ req'[q].file \in Files
                                            /\ req'[q].next \in Whole
  BY DEF Publishing
<1>1. CASE \E r \in Requests, a \in Archives : Unchanged(r, a) \/ StartPublish(r, a)
  <2>1. PICK r \in Requests, a \in Archives : Unchanged(r, a) \/ StartPublish(r, a)
    BY <1>1
  <2>2. CASE req'[q] = req[q]
    BY <2>2
  <2>3. CASE req'[q] # req[q]
    <3>1. req'[q] = [Idle EXCEPT !.pc = "open", !.archive = a, !.skill = skill]
      BY <2>1, <2>3 DEF Unchanged, StartPublish
    <3> QED
      BY <3>1 DEF Idle
  <2> QED
    BY <2>2, <2>3
<1>2. CASE \E r \in Requests : Open(r)
  <2>1. PICK r \in Requests : Open(r)
    BY <1>2
  <2>2. PICK f \in Openable(req[r].archive) :
          req' = [req EXCEPT ![r].pc = "copy", ![r].file = f]
    BY <2>1 DEF Open
  <2>3. f \in Files /\ req[r].next \in Whole
    BY <2>1, <2>2 DEF Open, Openable, Whole, BlobAssumption
  <2> QED
    BY <2>1, <2>2, <2>3 DEF Open, Request
<1>3. CASE \E r \in Requests : Copy(r)
  BY <1>3 DEF Copy, Request, Whole, BlobAssumption
<1>4. CASE \E r \in Requests : OpenFails(r) \/ CopyFails(r) \/ RenameFails(r)
  BY <1>4 DEF OpenFails, CopyFails, RenameFails, Done, Idle
<1>5. CASE \E r \in Requests : Rename(r)
  BY <1>5 DEF Rename
<1>6. CASE \E r \in Requests : Insert(r) \/ InsertFails(r) \/ DeleteRow(r)
  BY <1>6 DEF Insert, InsertFails, DeleteRow, Done, Idle
<1>7. CASE \E r \in Requests : StartDelete(r) \/ Purge(r)
  <2>1. PICK r \in Requests : StartDelete(r) \/ Purge(r)
    BY <1>7
  <2>2. CASE q # r
    BY <2>1, <2>2 DEF StartDelete, Purge
  <2>3. CASE q = r
    <3>1. CASE StartDelete(r)
      BY <2>3, <3>1 DEF StartDelete, Idle
    <3>2. CASE Purge(r)
      <4>1. req[r].pc = "purge"
        BY <3>2 DEF Purge
      <4>2. PICK a \in req[r].todo : req' = [req EXCEPT ![r].todo = @ \ {a}]
        BY <3>2 DEF Purge
      <4>3. req'[r].pc = "purge"
        BY <4>1, <4>2 DEF Request
      <4> QED
        BY <2>3, <4>3
    <3> QED
      BY <2>1, <3>1, <3>2
  <2> QED
    BY <2>2, <2>3
<1>8. CASE CreateSkill \/ Crash \/ (\E a \in Archives : Lose(a)) \/ UNCHANGED vars
  BY <1>8 DEF CreateSkill, Crash, Lose, Idle, vars
<1> QED
  BY <1>1, <1>2, <1>3, <1>4, <1>5, <1>6, <1>7, <1>8 DEF Next, Step

(* Where copies do not fail and the server does not die, a file that lacks *)
(* blocks has a writer that will write them: the one that truncated it.    *)
LEMMA RepairedStep ==
  ASSUME BlobAssumption, TypeOK, RequestsInStep, [Next]_vars,
         Writes, NEW f \in Files, Repaired(f)
  PROVE Repaired(f)'
<1> USE DEF TypeOK, RequestsInStep, Repaired, Writes
<1>1. CASE \E r \in Requests : Copy(r)
  <2>1. PICK r \in Requests : Copy(r)
    BY <1>1
  <2>2. content'[f] = IF req[r].file = f THEN content[f] \cup {req[r].next}
                      ELSE content[f]
    BY <2>1 DEF Copy
  <2>3. content[f] \subseteq Whole /\ req[r].next \in Whole
    BY <2>1 DEF Copy
  <2>4. CASE content[f] = Whole
    BY <2>2, <2>3, <2>4
  <2>5. CASE content[f] # Whole
    <3>1. PICK q \in Requests : /\ req[q].pc = "copy" /\ req[q].file = f
                                /\ Whole \subseteq content[f] \cup req[q].next..Blocks
      BY <2>5
    <3>2. CASE q # r
      BY <2>1, <2>2, <3>1, <3>2 DEF Copy
    <3>3. CASE q = r /\ req[r].next < Blocks
      <4>1. req'[r].pc = "copy" /\ req'[r].file = f /\ req'[r].next = req[r].next + 1
        BY <2>1, <3>1, <3>3 DEF Copy
      <4>2. Whole \subseteq content'[f] \cup (req[r].next + 1)..Blocks
        BY <2>2, <2>3, <3>1, <3>3 DEF Whole, BlobAssumption
      <4> QED
        BY <4>1, <4>2
    <3>4. CASE q = r /\ ~(req[r].next < Blocks)
      <4>1. req[r].next = Blocks
        BY <2>3, <3>4 DEF Whole, BlobAssumption
      <4>2. content'[f] = Whole
        BY <2>2, <2>3, <3>1, <3>4, <4>1 DEF Whole, BlobAssumption
      <4> QED
        BY <4>2
    <3> QED
      BY <3>2, <3>3, <3>4
  <2> QED
    BY <2>4, <2>5
<1>2. CASE \E r \in Requests : Open(r)
  <2>1. PICK r \in Requests : Open(r)
    BY <1>2
  <2>2. PICK g \in Openable(req[r].archive) :
          /\ content' = [content EXCEPT ![g] = {}]
          /\ req' = [req EXCEPT ![r].pc = "copy", ![r].file = g]
    BY <2>1 DEF Open
  <2>3. CASE f = g
    <3>1. /\ req'[r].pc = "copy" /\ req'[r].file = f
          /\ Whole \subseteq content'[f] \cup req'[r].next..Blocks
      BY <2>1, <2>2, <2>3 DEF Open, Request, Whole
    <3> QED
      BY <3>1
  <2>4. CASE f # g
    <3>1. content'[f] = content[f]
      BY <2>2, <2>4
    <3>2. \A q \in Requests : req[q].pc = "copy" => req'[q] = req[q]
      BY <2>1, <2>2 DEF Open
    <3> QED
      BY <3>1, <3>2
  <2> QED
    BY <2>3, <2>4
<1>3. ASSUME content' = content,
             \A q \in Requests : req[q].pc = "copy" => req'[q] = req[q]
      PROVE Repaired(f)'
  BY <1>3
<1>4. CASE \E r \in Requests, a \in Archives : Unchanged(r, a) \/ StartPublish(r, a)
  BY <1>3, <1>4 DEF Unchanged, StartPublish, fileVars
<1>5. CASE \E r \in Requests : OpenFails(r) \/ CopyFails(r) \/ RenameFails(r)
  BY <1>3, <1>5 DEF OpenFails, CopyFails, RenameFails, Done, fileVars
<1>6. CASE \E r \in Requests : Rename(r) \/ Insert(r) \/ InsertFails(r)
  BY <1>3, <1>6 DEF Rename, Insert, InsertFails, Done, fileVars
<1>7. CASE \E r \in Requests : StartDelete(r) \/ Purge(r) \/ DeleteRow(r)
  BY <1>3, <1>7 DEF StartDelete, Purge, DeleteRow, Done, fileVars
<1>8. CASE CreateSkill \/ Crash \/ (\E a \in Archives : Lose(a)) \/ UNCHANGED vars
  BY <1>3, <1>8 DEF CreateSkill, Crash, Lose, vars, fileVars
<1> QED
  BY <1>1, <1>2, <1>4, <1>5, <1>6, <1>7, <1>8 DEF Next, Step

LEMMA SettledStep ==
  ASSUME BlobAssumption, SettledInv, [Next]_vars
  PROVE SettledInv'
<1>1. TypeOK' /\ RequestsInStep'
  BY TypeStep, RequestsStep DEF SettledInv
<1>0. Writes' <=> Writes
  BY DEF Next, vars, Writes
<1>2. ASSUME NEW f \in Files, Writes, Repaired(f)
      PROVE  Repaired(f)'
  BY <1>2, RepairedStep DEF SettledInv
<1>3. ASSUME Writes, NEW a \in Archives, NEW f \in {dest'[a], tmp'[a]} \ {NoFile}
      PROVE  Repaired(f)'
  <2> USE DEF SettledInv, TypeOK
  <2>0. f \in Files
    BY <1>1
  <2>1. CASE f \in {dest[a], tmp[a]}
    BY <1>2, <1>3, <2>0, <2>1
  <2>2. CASE \E r \in Requests : Open(r)
    <3>1. PICK r \in Requests : Open(r)
      BY <2>2
    <3>2. PICK g \in Openable(req[r].archive) :
            /\ content' = [content EXCEPT ![g] = {}]
            /\ tmp' = [tmp EXCEPT ![req[r].archive] = g]
            /\ req' = [req EXCEPT ![r].pc = "copy", ![r].file = g]
      BY <3>1 DEF Open
    <3>3. CASE f = g
      <4>1. /\ req'[r].pc = "copy" /\ req'[r].file = g /\ req'[r].next = 1
        BY <3>1, <3>2 DEF Open, RequestsInStep, Request
      <4> QED
        BY <3>3, <4>1 DEF Repaired, Whole
    <3>4. CASE f # g
      <4>1. f \in {dest[a], tmp[a]}
        BY <3>1, <3>2, <3>4 DEF Open
      <4> QED
        BY <2>1, <4>1
    <3> QED
      BY <3>3, <3>4
  <2>3. CASE ~(\E r \in Requests : Open(r))
    <3>1. CASE \E r \in Requests : Rename(r)
      BY <2>1, <3>1 DEF Rename
    <3>2. CASE \E r \in Requests : Purge(r)
      BY <2>1, <3>2 DEF Purge
    <3>3. CASE \E r \in Requests : InsertFails(r) \/ CopyFails(r)
      BY <2>1, <3>3 DEF InsertFails, CopyFails
    <3>4. CASE \E b \in Archives : Lose(b)
      BY <2>1, <3>4 DEF Lose
    <3>5. CASE dest' = dest /\ tmp' = tmp
      BY <2>1, <3>5
    <3>6. CASE \E r \in Requests :
                 \/ \E b \in Archives : Unchanged(r, b) \/ StartPublish(r, b)
                 \/ OpenFails(r) \/ Copy(r) \/ RenameFails(r) \/ Insert(r)
                 \/ StartDelete(r) \/ DeleteRow(r)
      BY <3>5, <3>6 DEF Unchanged, StartPublish, OpenFails, Copy, RenameFails,
                        Insert, StartDelete, DeleteRow, fileVars
    <3>7. CASE CreateSkill \/ Crash \/ UNCHANGED vars
      BY <3>5, <3>7 DEF CreateSkill, Crash, vars, fileVars
    <3> QED
      BY <2>3, <3>1, <3>2, <3>3, <3>4, <3>6, <3>7 DEF Next, Step
  <2> QED
    BY <2>2, <2>3
<1> QED
  BY <1>0, <1>1, <1>3 DEF SettledInv

(* A file under a final name that is not whole is being written by a       *)
(* request that will write what it lacks: for every number of requests,    *)
(* archives and blocks, as long as no write fails and the server lives.    *)
THEOREM PartialsGetWritten == Spec => []PartialIsBeingWritten
<1>1. Init => SettledInv
  BY TypeInit, BlobAssumption
     DEF Init, SettledInv, RequestsInStep, Publishing, Idle
<1>2. SettledInv /\ [Next]_vars => SettledInv'
  BY SettledStep, BlobAssumption
<1>3. SettledInv => PartialIsBeingWritten
  BY DEF SettledInv, PartialIsBeingWritten, Repaired
<1> QED
  BY <1>1, <1>2, <1>3, PTL DEF Spec

-----------------------------------------------------------------------------
(* Where nobody deletes, no insert fails and no archive is lost, a version *)
(* row never loses its archive, even though writes fail and servers die.   *)

LEMMA KeptStep ==
  ASSUME BlobAssumption, KeptInv, [Next]_vars, Keeps
  PROVE Backed'
<1> USE DEF KeptInv, TypeOK, Keeps, Backed
<1>1. TypeOK' /\ RequestsInStep'
  BY TypeStep, RequestsStep
<1>2. ASSUME NEW r \in Requests
      PROVE  ~(InsertFails(r) \/ StartDelete(r) \/ Purge(r) \/ DeleteRow(r))
  BY DEF InsertFails, StartDelete, Purge, DeleteRow, Publishing
<1>3. ASSUME NEW a \in Archives
      PROVE  ~Lose(a)
  BY DEF Lose
<1>4. CASE \E r \in Requests : Rename(r)
  <2>1. PICK r \in Requests : Rename(r)
    BY <1>4
  <2>2. \A a \in Archives : dest[a] # NoFile => dest'[a] # NoFile
    BY <2>1 DEF Rename
  <2>3. dest'[req[r].archive] # NoFile
    BY <2>1 DEF Rename, RequestsInStep, Publishing
  <2>4. \A q \in Requests \ {r} : req'[q] = req[q]
    BY <2>1 DEF Rename
  <2>5. /\ req'[r].pc = "insert"
        /\ req'[r].archive = req[r].archive /\ req'[r].skill = req[r].skill
    BY <2>1 DEF Rename, Request
  <2>6. req[r].skill = skill /\ skill # 0 /\ skill' = skill /\ versions' = versions
    BY <2>1 DEF Rename, Publishing, rowVars
  <2>7. ASSUME NEW q \in Requests
        PROVE  /\ req'[q].pc # "purge"
               /\ Publishing(q)' => req'[q].skill = skill' /\ skill' # 0
               /\ req'[q].pc = "insert" => dest'[req'[q].archive] # NoFile
    <3>1. CASE q = r
      BY <2>3, <2>5, <2>6, <3>1 DEF Publishing
    <3>2. CASE q # r
      BY <2>2, <2>4, <2>6, <3>2 DEF Publishing, RequestsInStep
    <3> QED
      BY <3>1, <3>2
  <2>8. \A v \in DOMAIN versions' : dest'[versions'[v]] # NoFile
    BY <2>2, <2>6
  <2> QED
    BY <1>1, <2>6, <2>7, <2>8
<1>5. CASE \E r \in Requests : Insert(r)
  <2>1. PICK r \in Requests : Insert(r)
    BY <1>5
  <2>2. req[r].archive \in Archives /\ dest[req[r].archive] # NoFile
    BY <2>1 DEF Insert, RequestsInStep, Publishing
  <2>3. \A v \in DOMAIN versions' : dest'[versions'[v]] # NoFile
    BY <2>1, <2>2 DEF Insert, fileVars
  <2>4. skill' = skill /\ skill # 0
    BY <2>1 DEF Insert, Publishing
  <2>5. req' = [req EXCEPT ![r] = Idle] /\ dest' = dest
    BY <2>1 DEF Insert, Done, fileVars
  <2> QED
    BY <1>1, <2>3, <2>4, <2>5 DEF Idle, Publishing
<1>6. CASE \E r \in Requests, a \in Archives : StartPublish(r, a)
  <2>1. PICK r \in Requests, a \in Archives : StartPublish(r, a)
    BY <1>6
  <2>2. /\ req' = [req EXCEPT ![r] =
                      [Idle EXCEPT !.pc = "open", !.archive = a, !.skill = skill]]
        /\ skill # 0 /\ skill' = skill /\ versions' = versions /\ dest' = dest
    BY <2>1 DEF StartPublish, rowVars, fileVars
  <2> QED
    BY <1>1, <2>2 DEF Idle, Publishing
<1>7. CASE \E r \in Requests : Open(r) \/ Copy(r)
  <2>1. PICK r \in Requests : Open(r) \/ Copy(r)
    BY <1>7
  <2>2. /\ skill' = skill /\ versions' = versions /\ dest' = dest
        /\ \A q \in Requests \ {r} : req'[q] = req[q]
        /\ Publishing(r) /\ req'[r].pc \in {"copy", "rename"}
        /\ req'[r].skill = req[r].skill
    BY <2>1 DEF Open, Copy, rowVars, Publishing, Request
  <2> QED
    BY <1>1, <2>2 DEF Publishing
<1>8. CASE \E r \in Requests : OpenFails(r) \/ CopyFails(r) \/ RenameFails(r)
  <2>1. PICK r \in Requests : OpenFails(r) \/ CopyFails(r) \/ RenameFails(r)
    BY <1>8
  <2>2. /\ req' = [req EXCEPT ![r] = Idle]
        /\ skill' = skill /\ versions' = versions /\ dest' = dest
    BY <2>1 DEF OpenFails, CopyFails, RenameFails, Done, rowVars, fileVars
  <2> QED
    BY <1>1, <2>2 DEF Idle, Publishing
<1>9. CASE CreateSkill
  BY <1>1, <1>9 DEF CreateSkill, Publishing, fileVars
<1>10. CASE Crash
  BY <1>1, <1>10 DEF Crash, Idle, Publishing, rowVars, fileVars
<1>11. CASE (\E r \in Requests, a \in Archives : Unchanged(r, a)) \/ UNCHANGED vars
  BY <1>1, <1>11 DEF Unchanged, Publishing, vars, rowVars, fileVars
<1> QED
  BY <1>2, <1>3, <1>4, <1>5, <1>6, <1>7, <1>8, <1>9, <1>10, <1>11 DEF Next, Step

(* A version row keeps its archive when nobody deletes the skill, no       *)
(* insert fails and nothing is lost, even though writers of one archive    *)
(* share a temporary file, writes fail and the server dies.                *)
THEOREM VersionsAreBacked == Spec => []VersionsKeepTheirArchive
<1>1. Init => KeptInv
  BY TypeInit, BlobAssumption
     DEF Init, KeptInv, Backed, RequestsInStep, Publishing, Idle
<1>2. KeptInv /\ [Next]_vars => KeptInv'
  <2> SUFFICES ASSUME KeptInv, [Next]_vars
               PROVE  KeptInv'
    OBVIOUS
  <2>1. TypeOK' /\ RequestsInStep'
    BY TypeStep, RequestsStep, BlobAssumption DEF KeptInv
  <2>2. Keeps' <=> Keeps
    BY DEF Next, vars, Keeps
  <2>3. Keeps => Backed'
    BY KeptStep, BlobAssumption
  <2> QED
    BY <2>1, <2>2, <2>3 DEF KeptInv
<1>3. KeptInv => VersionsKeepTheirArchive
  BY DEF KeptInv, Backed, VersionsKeepTheirArchive
<1> QED
  BY <1>1, <1>2, <1>3, PTL DEF Spec
=============================================================================
