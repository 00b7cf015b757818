-------------------------- MODULE ShortLinksProofs --------------------------
(*************************************************************************)
(* Theorems about ShortLinks, for any links, bodies, callers and number  *)
(* of requests: the rows of a link always agree, codes are unique, and   *)
(* the tables implement the catalogue of LinkCatalog.                    *)
(*************************************************************************)
EXTENDS ShortLinks, FiniteSetTheorems, TLAPS

Away == {"idle"} \cup Answers
Deciding == {"checking", "coding", "claiming", "reading", "writing"}
Working == {"begin", "locking"} \cup Deciding

\* What a request carries at each step of its transaction.
Carries(r) ==
  /\ pc[r] \in Away <=> call[r] = NoCall
  /\ pc[r] \notin Away => call[r] \in Call
  /\ pc[r] \in {"begin", "locking"} => call[r].op # "create"
  /\ pc[r] \in Working /\ call[r].op = "create" => call[r].link = NoLink
  /\ pc[r] \in Working /\ call[r].op # "create" => call[r].link \in Links
  /\ pc[r] \in Working /\ call[r].op # "delete" => call[r].body \in Bodies
  /\ pc[r] \in {"coding", "claiming", "reading"} => call[r].op # "delete"
  /\ pc[r] \in {"claiming", "reading", "writing"} /\ call[r].op # "delete"
       => call[r].code \in Codes

\* An update or delete holds the lock of a link that exists.
Holds(r) ==
  call[r].op # "create" /\ pc[r] \in Deciding =>
    lock[call[r].link] = r /\ links[call[r].link] # NoLink

\* The code has been written to the index, or is about to be committed.
Claimed(r) == pc[r] \in {"reading", "writing"} /\ call[r].op # "delete"

\* A code that was written to the index is of no other link of the domain.
ClaimStands(r) == Claimed(r) => Unchanged(r) \/ ~Taken(r, call[r].code)

\* Two requests that both change a code do not write the same one.
Apart(q, r) ==
  /\ q # r /\ Claimed(q) /\ Claimed(r)
  /\ ~Unchanged(q) /\ ~Unchanged(r)
  /\ DomainOf(q) = DomainOf(r)
  => call[q].code # call[r].code

\* The destinations that a replacement is about to write over are still those
\* it has read.
ReadStands(r) ==
  pc[r] = "writing" /\ call[r].op # "delete" =>
    /\ call[r].existing = DestinationsOf(call[r].link)
    /\ call[r].body.keep \subseteq call[r].existing

RequestInv(r) == Carries(r) /\ Holds(r) /\ ClaimStands(r) /\ ReadStands(r)

\* An identifier that is in use is never given to a new row.
UsedInv ==
  /\ Present \subseteq used
  /\ {t \in Targets : targets[t] # NoTarget} \subseteq used

LinksInv ==
  /\ RowsAgree
  /\ UsedInv
  /\ \A r \in Requests : RequestInv(r)
  /\ \A q, r \in Requests : Apart(q, r)

---------------------------------------------------------------------------
LEMMA EmptyCalls ==
  /\ NoCall \notin Call
  /\ NoCall.op = "none"
BY DEF NoCall, Call

LEMMA InitLinksInv == Init => LinksInv
<1> SUFFICES ASSUME Init  PROVE LinksInv  OBVIOUS
<1>1. PICK s \in Starts : links = s.links /\ targets = s.targets /\ policies = s.policies
  BY DEF Init
<1>2. Sound(s)  BY <1>1, StartsAssumption
<1>3. TypeOK
  BY <1>1, <1>2 DEF Init, TypeOK, Sound, Roles, Steps
<1>4. CodesUnique  BY <1>1, <1>2 DEF Sound, CodesUnique, Present
<1>5. WrittenAsOne
  BY <1>1, <1>2 DEF Sound, WrittenAsOne, Present, DestinationsOf
<1>6. UsedInv  BY DEF Init, UsedInv, Present
<1>7. ASSUME NEW r \in Requests
      PROVE pc[r] = "idle" /\ call[r] = NoCall /\ RequestInv(r)
  <2>1. pc[r] = "idle" /\ call[r] = NoCall  BY DEF Init
  <2> QED
    BY <2>1 DEF RequestInv, Carries, Holds, ClaimStands, Claimed, ReadStands, Away, Working, Deciding
<1>8. \A q, r \in Requests : Apart(q, r)  BY <1>7 DEF Apart, Claimed
<1> QED  BY <1>3, <1>4, <1>5, <1>6, <1>7, <1>8 DEF LinksInv, RowsAgree

---------------------------------------------------------------------------
(* Steps that write no row.                                                *)

\* The tables are as they were and so is everything of the other requests.
OthersKept(r) ==
  /\ UNCHANGED tables
  /\ \A q \in Requests \ {r} :
       /\ pc'[q] = pc[q] /\ call'[q] = call[q]
       /\ \A l \in Links : lock[l] = q => lock'[l] = q

\* A request stays apart from all others if it claims nothing new, or only what
\* nobody else has written to the index.
LEMMA FrameKeeps ==
  ASSUME LinksInv, TypeOK', NEW r \in Requests, OthersKept(r), RequestInv(r)',
         \/ ~Claimed(r)'
         \/ /\ Claimed(r)
            /\ call'[r].op = call[r].op /\ call'[r].link = call[r].link
            /\ call'[r].code = call[r].code /\ call'[r].body = call[r].body
         \/ Unchanged(r)'
         \/ \A q \in Requests : ~Pending(q, r)'
  PROVE  LinksInv'
<1>1. links' = links /\ targets' = targets /\ policies' = policies /\ used' = used
  BY DEF OthersKept, tables
<1>2. CodesUnique'  BY <1>1 DEF LinksInv, RowsAgree, CodesUnique, Present
<1>3. WrittenAsOne'
  BY <1>1 DEF LinksInv, RowsAgree, WrittenAsOne, Present, DestinationsOf
<1>4. UsedInv'  BY <1>1 DEF LinksInv, UsedInv, Present
<1>5. ASSUME NEW q \in Requests, q # r  PROVE RequestInv(q)'
  <2>1. pc'[q] = pc[q] /\ call'[q] = call[q] /\ RequestInv(q)
    BY <1>5 DEF OthersKept, LinksInv
  <2>2. Carries(q)'  BY <2>1 DEF RequestInv, Carries
  <2>3. Holds(q)'
    BY <1>1, <1>5, <2>1 DEF RequestInv, Holds, Carries, OthersKept, Working
  <2>4. ClaimStands(q)'
    BY <1>1, <2>1 DEF RequestInv, ClaimStands, Claimed, Unchanged, Taken, DomainOf
  <2>5. ReadStands(q)'  BY <1>1, <2>1 DEF RequestInv, ReadStands, DestinationsOf
  <2> QED  BY <2>2, <2>3, <2>4, <2>5 DEF RequestInv
<1>6. ASSUME NEW p \in Requests, NEW q \in Requests  PROVE Apart(p, q)'
  <2>1. \A x \in Requests \ {r} : pc'[x] = pc[x] /\ call'[x] = call[x]
    BY DEF OthersKept
  <2>2. Apart(p, q)  BY DEF LinksInv
  <2>3. \A x \in Requests \ {r} :
          /\ Claimed(x)' = Claimed(x) /\ Unchanged(x)' = Unchanged(x)
          /\ DomainOf(x)' = DomainOf(x)
    BY <1>1, <2>1 DEF Claimed, Unchanged, DomainOf
  <2>4. CASE p # r /\ q # r  BY <2>1, <2>2, <2>3, <2>4 DEF Apart
  <2>5. CASE ~Claimed(r)'  BY <2>4, <2>5 DEF Apart
  <2>6. CASE /\ Claimed(r)
             /\ call'[r].op = call[r].op /\ call'[r].link = call[r].link
             /\ call'[r].code = call[r].code /\ call'[r].body = call[r].body
    <3>1. Unchanged(r)' = Unchanged(r) /\ DomainOf(r)' = DomainOf(r)
      BY <1>1, <2>6 DEF Unchanged, DomainOf
    <3> QED  BY <2>1, <2>2, <2>3, <2>6, <3>1 DEF Apart
  <2>7. CASE \A x \in Requests : ~Pending(x, r)'
    BY <2>4, <2>7 DEF Apart, Pending, Claimed
  <2>8. CASE Unchanged(r)'  BY <2>4, <2>8 DEF Apart
  <2> QED  BY <2>5, <2>6, <2>7, <2>8
<1> QED  BY <1>2, <1>3, <1>4, <1>5, <1>6 DEF LinksInv, RowsAgree

\* An answer without a commit.
LEMMA RefuseKeeps ==
  ASSUME LinksInv, NEW r \in Requests, NEW answer \in Answers, Refuse(r, answer)
  PROVE  LinksInv'
<1>1. TypeOK  BY DEF LinksInv, RowsAgree
<1>2. pc'[r] = answer /\ call'[r] = NoCall
  BY <1>1 DEF Refuse, Goto, TypeOK
<1>3. TypeOK'
  BY <1>1 DEF Refuse, Goto, Unlocked, TypeOK, tables, accounts, Steps
<1>4. OthersKept(r)
  BY <1>1 DEF Refuse, Goto, Unlocked, OthersKept, tables, TypeOK
<1>5. RequestInv(r)' /\ ~Claimed(r)'
  BY <1>2 DEF RequestInv, Carries, Holds, ClaimStands, Claimed, ReadStands, Answers,
              Away, Working, Deciding
<1> QED  BY <1>3, <1>4, <1>5, FrameKeeps

\* Accounts and domains are read anew by each statement that needs them.
LEMMA AccountsKeep ==
  ASSUME LinksInv, TypeOK', UNCHANGED <<tables, lock, pc, call>>
  PROVE  LinksInv'
<1>1. /\ CodesUnique' = CodesUnique /\ WrittenAsOne' = WrittenAsOne
      /\ UsedInv' = UsedInv
  BY DEF tables, CodesUnique, WrittenAsOne, UsedInv, Present, DestinationsOf
<1>2. ASSUME NEW r \in Requests  PROVE RequestInv(r)' = RequestInv(r)
  BY DEF tables, RequestInv, Carries, Holds, ClaimStands, Claimed, Unchanged, Taken,
         ReadStands, DomainOf, DestinationsOf
<1>3. ASSUME NEW q \in Requests, NEW r \in Requests  PROVE Apart(q, r)' = Apart(q, r)
  BY DEF tables, Apart, Claimed, Unchanged, DomainOf
<1> QED  BY <1>1, <1>2, <1>3 DEF LinksInv, RowsAgree

LEMMA ArriveKeeps ==
  ASSUME LinksInv, NEW r \in Requests, Arrive(r)
  PROVE  LinksInv'
<1>1. TypeOK  BY DEF LinksInv, RowsAgree
<1>2. PICK c \in Callers, newCall \in
             [op : {"create"}, link : {NoLink}, body : Bodies] \cup
             [op : {"update"}, link : Links \cap used, body : Bodies] \cup
             [op : {"delete"}, link : Links \cap used, body : {NoBody}] :
        /\ call' = [call EXCEPT ![r] =
             [op |-> newCall.op, caller |-> c, admin |-> role[c] = "admin",
              link |-> newCall.link, body |-> newCall.body,
              code |-> NoCode, existing |-> {}]]
        /\ Goto(r, IF newCall.op = "create" THEN "checking" ELSE "begin")
  BY DEF Arrive
<1>3. /\ call'[r] \in Call
      /\ call'[r].op = newCall.op /\ call'[r].link = newCall.link
      /\ call'[r].body = newCall.body
      /\ pc'[r] = IF newCall.op = "create" THEN "checking" ELSE "begin"
  BY <1>1, <1>2 DEF Goto, TypeOK, Call
<1>4. /\ call' = [call EXCEPT ![r] = call'[r]]
      /\ pc' = [pc EXCEPT ![r] = pc'[r]]
      /\ UNCHANGED <<tables, accounts, lock>>
  BY <1>1, <1>2 DEF Goto, TypeOK, Arrive
<1>5. TypeOK'
  BY <1>1, <1>3, <1>4 DEF TypeOK, tables, accounts, Steps
<1>6. OthersKept(r)
  BY <1>1, <1>4 DEF OthersKept, tables, TypeOK
<1>7. Carries(r)'
  BY <1>3, EmptyCalls DEF Carries, Away, Answers, Working, Deciding
<1>8. RequestInv(r)' /\ ~Claimed(r)'
  BY <1>3, <1>7 DEF RequestInv, Holds, ClaimStands, Claimed, ReadStands, Deciding
<1> QED  BY <1>5, <1>6, <1>8, FrameKeeps

LEMMA StartLoadKeeps ==
  ASSUME LinksInv, NEW r \in Requests, StartLoad(r)
  PROVE  LinksInv'
<1>1. TypeOK /\ RequestInv(r)  BY DEF LinksInv, RowsAgree
<1>2. pc[r] = "begin" /\ pc'[r] = "locking" /\ call' = call
  BY <1>1 DEF StartLoad, Goto, TypeOK
<1>3. TypeOK'
  BY <1>1 DEF StartLoad, Goto, TypeOK, tables, accounts, Steps
<1>4. OthersKept(r)
  BY <1>1 DEF StartLoad, Goto, OthersKept, tables, TypeOK
<1>5. RequestInv(r)' /\ ~Claimed(r)'
  BY <1>1, <1>2 DEF RequestInv, Carries, Holds, ClaimStands, Claimed, ReadStands, Answers,
                    Away, Working, Deciding
<1> QED  BY <1>3, <1>4, <1>5, FrameKeeps

LEMMA LockLinkKeeps ==
  ASSUME LinksInv, NEW r \in Requests, LockLink(r)
  PROVE  LinksInv'
<1>1. TypeOK /\ RequestInv(r)  BY DEF LinksInv, RowsAgree
<1>2. /\ pc[r] = "locking" /\ pc'[r] = "checking" /\ call' = call
      /\ call[r].link \in Links
  BY <1>1 DEF LockLink, Goto, TypeOK, RequestInv, Carries, Working
<1>3. lock' = [lock EXCEPT ![call[r].link] = r] /\ lock[call[r].link] = Free
  BY DEF LockLink
<1>4. TypeOK'
  BY <1>1, <1>2 DEF LockLink, Goto, TypeOK, tables, accounts, Steps
<1>5. OthersKept(r)
  BY <1>1, <1>2, <1>3, ConstantsAssumption DEF LockLink, Goto, OthersKept, tables, TypeOK
<1>6. Holds(r)'
  BY <1>1, <1>2, <1>3 DEF LockLink, Holds, TypeOK, tables
<1>7. RequestInv(r)' /\ ~Claimed(r)'
  BY <1>1, <1>2, <1>6 DEF RequestInv, Carries, ClaimStands, Claimed, ReadStands, Answers,
                    Away, Working, Deciding
<1> QED  BY <1>4, <1>5, <1>7, FrameKeeps

LEMMA ManagerKeeps ==
  ASSUME LinksInv, NEW r \in Requests, Manager(r)
  PROVE  LinksInv'
<1>1. TypeOK /\ RequestInv(r)  BY DEF LinksInv, RowsAgree
<1>2. /\ pc[r] = "checking" /\ call' = call
      /\ pc'[r] = IF call[r].op = "delete" THEN "writing" ELSE "coding"
  BY <1>1 DEF Manager, Goto, TypeOK
<1>3. TypeOK'
  BY <1>1 DEF Manager, Goto, TypeOK, tables, accounts, Steps
<1>4. OthersKept(r) /\ lock' = lock /\ links' = links
  BY <1>1 DEF Manager, Goto, OthersKept, tables, TypeOK
<1>5. RequestInv(r)' /\ ~Claimed(r)'
  BY <1>1, <1>2, <1>4 DEF RequestInv, Carries, Holds, ClaimStands, Claimed, ReadStands,
                          Answers, Away, Working, Deciding
<1> QED  BY <1>3, <1>4, <1>5, FrameKeeps

\* The code that a request decides on is one of Codes.
LEMMA ChooseCodeKeeps ==
  ASSUME LinksInv, NEW r \in Requests, NEW c \in Codes, ChooseCode(r, c),
         pc[r] = "coding"
  PROVE  LinksInv'
<1>1. TypeOK /\ RequestInv(r)  BY DEF LinksInv, RowsAgree
<1>2. call[r] \in Call  BY <1>1 DEF RequestInv, Carries, Away, Answers
<1>3. /\ call' = [call EXCEPT ![r] = [call[r] EXCEPT !.code = c]]
      /\ pc'[r] = "claiming"
      /\ UNCHANGED <<tables, accounts, lock>>
  BY <1>1 DEF ChooseCode, Goto, TypeOK
<1>4. /\ call'[r] = [call[r] EXCEPT !.code = c]
      /\ call'[r] \in Call /\ call'[r].code = c
      /\ call'[r].op = call[r].op /\ call'[r].link = call[r].link
      /\ call'[r].body = call[r].body
  BY <1>1, <1>2, <1>3 DEF TypeOK, Call
<1>5. TypeOK'
  BY <1>1, <1>3, <1>4 DEF ChooseCode, Goto, TypeOK, tables, accounts, Steps
<1>6. OthersKept(r) /\ lock' = lock /\ links' = links
  BY <1>1, <1>3 DEF ChooseCode, Goto, OthersKept, tables, TypeOK
<1>7. Carries(r)'
  BY <1>1, <1>3, <1>4, EmptyCalls
    DEF RequestInv, Carries, Answers, Away, Working, Deciding
<1>8. Holds(r)'
  BY <1>1, <1>3, <1>4, <1>6 DEF RequestInv, Holds, Deciding
<1>9. RequestInv(r)' /\ ~Claimed(r)'
  BY <1>3, <1>7, <1>8 DEF RequestInv, ClaimStands, Claimed, ReadStands
<1> QED  BY <1>5, <1>6, <1>9, FrameKeeps

LEMMA CodeClaimedKeeps ==
  ASSUME LinksInv, NEW r \in Requests, CodeClaimed(r)
  PROVE  LinksInv'
<1>1. TypeOK /\ RequestInv(r)  BY DEF LinksInv, RowsAgree
<1>2. /\ pc[r] = "claiming" /\ pc'[r] = "reading" /\ call' = call
      /\ \A q \in Requests \ {r} : pc'[q] = pc[q]
  BY <1>1 DEF CodeClaimed, Goto, TypeOK
<1>3. TypeOK'
  BY <1>1 DEF CodeClaimed, Goto, TypeOK, tables, accounts, Steps
<1>4. OthersKept(r) /\ lock' = lock /\ links' = links
  BY <1>1 DEF CodeClaimed, Goto, OthersKept, tables, TypeOK
<1>5. Carries(r)' /\ Holds(r)' /\ ReadStands(r)'
  BY <1>1, <1>2, <1>4 DEF RequestInv, Carries, Holds, ReadStands, Answers, Away, Working,
                          Deciding
<1>6. ClaimStands(r)'
  BY <1>2, <1>4 DEF CodeClaimed, ClaimStands, Unchanged, Taken, DomainOf
<1>7. RequestInv(r)'  BY <1>5, <1>6 DEF RequestInv
<1>8. CASE Unchanged(r)
  <2>1. Unchanged(r)'  BY <1>2, <1>4, <1>8 DEF Unchanged
  <2> QED  BY <1>3, <1>4, <1>7, <2>1, FrameKeeps
<1>9. CASE \A q \in Requests : ~Pending(q, r)
  <2>1. \A q \in Requests : ~Pending(q, r)'
    BY <1>2, <1>4, <1>9 DEF Pending, Unchanged, DomainOf
  <2> QED  BY <1>3, <1>4, <1>7, <2>1, FrameKeeps
<1> QED  BY <1>8, <1>9 DEF CodeClaimed

LEMMA ReadDestinationsKeeps ==
  ASSUME LinksInv, NEW r \in Requests, ReadDestinations(r)
  PROVE  LinksInv'
<1> DEFINE present == DestinationsOf(call[r].link)
<1>1. TypeOK /\ RequestInv(r)  BY DEF LinksInv, RowsAgree
<1>2. call[r] \in Call /\ present \subseteq Targets
  BY <1>1 DEF ReadDestinations, RequestInv, Carries, Away, Answers, DestinationsOf
<1>3. /\ call' = [call EXCEPT ![r] = [call[r] EXCEPT !.existing = present]]
      /\ pc[r] = "reading" /\ pc'[r] = "writing"
      /\ call[r].body.keep \subseteq present
      /\ UNCHANGED <<tables, accounts, lock>>
  BY <1>1 DEF ReadDestinations, Goto, TypeOK
<1> HIDE DEF present
<1>4. /\ call'[r] = [call[r] EXCEPT !.existing = present]
      /\ call'[r] \in Call /\ call'[r].existing = present
      /\ call'[r].op = call[r].op /\ call'[r].link = call[r].link
      /\ call'[r].body = call[r].body /\ call'[r].code = call[r].code
  BY <1>1, <1>2, <1>3 DEF TypeOK, Call
<1>5. TypeOK'
  BY <1>1, <1>3, <1>4 DEF ReadDestinations, Goto, TypeOK, tables, accounts, Steps
<1>6. OthersKept(r) /\ lock' = lock /\ links' = links /\ targets' = targets
  BY <1>1, <1>3 DEF ReadDestinations, Goto, OthersKept, tables, TypeOK
<1>7. Carries(r)'
  BY <1>1, <1>3, <1>4, EmptyCalls
    DEF RequestInv, Carries, Answers, Away, Working, Deciding
<1>8. Holds(r)' /\ ClaimStands(r)'
  BY <1>1, <1>3, <1>4, <1>6
    DEF RequestInv, Holds, ClaimStands, Claimed, Unchanged, Taken, DomainOf, Deciding
<1>9. ReadStands(r)'
  BY <1>3, <1>4, <1>6 DEF ReadStands, present, DestinationsOf
<1>10. RequestInv(r)'  BY <1>7, <1>8, <1>9 DEF RequestInv
<1>11. Claimed(r)  BY <1>1, <1>3 DEF Claimed, RequestInv, Carries
<1> QED  BY <1>4, <1>5, <1>6, <1>10, <1>11, FrameKeeps

---------------------------------------------------------------------------
(* Commits.                                                                *)

\* Commit(r) of the link l with the new destinations new.
Commits(r, l, new) ==
  /\ pc[r] = "writing" /\ call[r].op # "delete"
  /\ IF call[r].op = "create" THEN l \notin used ELSE l = call[r].link
  /\ Cardinality(new) = call[r].body.fresh
  /\ links' = [links EXCEPT ![l] = [domain |-> DomainOf(r), code |-> call[r].code,
                                    mark |-> call[r].body.mark]]
  /\ targets' = Replaced(r, l, new)
  /\ policies' = [policies EXCEPT ![l] = call[r].body.mark]
  /\ used' = used \cup {l} \cup new
  /\ call' = [call EXCEPT ![r] = [call[r] EXCEPT !.link = l, !.body = NoBody,
                                                 !.code = NoCode, !.existing = {}]]
  /\ pc' = [pc EXCEPT ![r] = "reloading"]
  /\ lock' = Unlocked(r)
  /\ UNCHANGED accounts

LEMMA CommitCommits ==
  ASSUME TypeOK, NEW r \in Requests, Commit(r)
  PROVE  \E l \in Links, new \in SUBSET (Targets \ used) : Commits(r, l, new)
<1>1. PICK l \in Links, new \in SUBSET (Targets \ used) :
        /\ IF call[r].op = "create" THEN l \notin used ELSE l = call[r].link
        /\ Cardinality(new) = call[r].body.fresh
        /\ links' = [links EXCEPT ![l] = [domain |-> DomainOf(r), code |-> call[r].code,
                                          mark |-> call[r].body.mark]]
        /\ targets' = Replaced(r, l, new)
        /\ policies' = [policies EXCEPT ![l] = call[r].body.mark]
        /\ used' = used \cup {l} \cup new
        /\ call' = [call EXCEPT ![r].link = l, ![r].body = NoBody,
                                ![r].code = NoCode, ![r].existing = {}]
  BY DEF Commit
<1>2. call' = [call EXCEPT ![r] = [call[r] EXCEPT !.link = l, !.body = NoBody,
                                                  !.code = NoCode, !.existing = {}]]
  BY <1>1 DEF TypeOK
<1> QED  BY <1>1, <1>2 DEF Commit, Commits, Goto

\* What a request about to commit has in hand.
LEMMA WriterKnows ==
  ASSUME LinksInv, NEW r \in Requests, pc[r] = "writing", call[r].op # "delete"
  PROVE  /\ call[r] \in Call
         /\ call[r].body \in Body
         /\ DomainOf(r) \in Domains /\ call[r].code \in Codes
         /\ call[r].body.mark \in Marks
         /\ call[r].body.keep \subseteq DestinationsOf(call[r].link)
         /\ call[r].existing = DestinationsOf(call[r].link)
         /\ call[r].op # "create" =>
              /\ call[r].op = "update"
              /\ call[r].link \in Present /\ lock[call[r].link] = r
         /\ call[r].op = "create" => call[r].existing = {} /\ call[r].body.keep = {}
<1>1. TypeOK /\ RequestInv(r)  BY DEF LinksInv, RowsAgree
<1>2. call[r] \in Call  BY <1>1 DEF RequestInv, Carries, Away, Answers
<1>3. call[r].body \in Body /\ call[r].code \in Codes
  BY <1>1, ConstantsAssumption DEF RequestInv, Carries, Working, Deciding
<1>4. call[r].op # "create" =>
        /\ call[r].op = "update"
        /\ call[r].link \in Present /\ lock[call[r].link] = r
  BY <1>1, <1>2 DEF RequestInv, Carries, Holds, Working, Deciding, Present, Call
<1>5. DomainOf(r) \in Domains
  <2>1. CASE call[r].op = "create"  BY <1>3, <2>1 DEF DomainOf, Body
  <2>2. CASE call[r].op # "create"
    <3>1. links[call[r].link] \in Row  BY <1>1, <1>4, <2>2 DEF TypeOK, Present
    <3> QED  BY <2>2, <3>1 DEF DomainOf, Row
  <2> QED  BY <2>1, <2>2
<1>6. DestinationsOf(NoLink) = {}
  <2> SUFFICES ASSUME NEW t \in Targets, targets[t] # NoTarget  PROVE targets[t].link # NoLink
    BY DEF DestinationsOf
  <2>1. targets[t] \in TargetRow  BY <1>1 DEF TypeOK
  <2> QED  BY <2>1, ConstantsAssumption DEF TargetRow
<1>7. /\ call[r].body.keep \subseteq DestinationsOf(call[r].link)
      /\ call[r].existing = DestinationsOf(call[r].link)
  BY <1>1 DEF RequestInv, ReadStands
<1>8. call[r].op = "create" => call[r].link = NoLink
  BY <1>1 DEF RequestInv, Carries, Working, Deciding
<1> QED  BY <1>2, <1>3, <1>4, <1>5, <1>6, <1>7, <1>8 DEF Body

\* The rows of every link but l are as they were.
OnlyChanges(l) ==
  /\ \A m \in Links \ {l} :
       /\ links'[m] = links[m] /\ policies'[m] = policies[m]
       /\ DestinationsOf(m)' = DestinationsOf(m)
  /\ \A t \in Targets : t \notin DestinationsOf(l)' =>
       targets'[t] = NoTarget \/ (targets'[t] = targets[t] /\ targets[t].link # l)

\* The rows of one link are replaced as a whole, those of others stay.
LEMMA CommitEffect ==
  ASSUME LinksInv, NEW r \in Requests, NEW l \in Links,
         NEW new \in SUBSET (Targets \ used), Commits(r, l, new)
  PROVE  /\ TypeOK'
         /\ links'[l] = [domain |-> DomainOf(r), code |-> call[r].code,
                         mark |-> call[r].body.mark]
         /\ links'[l] \in Row /\ policies'[l] = links'[l].mark
         /\ l \in Present => call[r].op = "update" /\ l = call[r].link /\ lock[l] = r
         /\ DestinationsOf(l)' = call[r].body.keep \cup new
         /\ DestinationsOf(l)' # {}
         /\ \A t \in DestinationsOf(l)' : targets'[t] = [link |-> l, mark |-> links'[l].mark]
         /\ OnlyChanges(l)
<1> USE ConstantsAssumption
<1>1. TypeOK /\ WrittenAsOne /\ UsedInv  BY DEF LinksInv, RowsAgree
<1>2. pc[r] = "writing" /\ call[r].op # "delete"  BY DEF Commits
<1> DEFINE body == call[r].body
           row == [domain |-> DomainOf(r), code |-> call[r].code, mark |-> body.mark]
           whole == [link |-> l, mark |-> body.mark]
<1>3. row \in Row /\ whole \in TargetRow /\ body \in Body
  BY <1>2, WriterKnows DEF Row, TargetRow
<1>4. links' = [links EXCEPT ![l] = row] /\ links'[l] = row
  BY <1>1 DEF Commits, TypeOK
<1>5. policies' = [policies EXCEPT ![l] = body.mark] /\ policies'[l] = body.mark
  BY <1>1 DEF Commits, TypeOK
<1>6. \A t \in Targets :
        targets'[t] = IF t \in body.keep \cup new THEN whole
                      ELSE IF t \in call[r].existing THEN NoTarget
                      ELSE targets[t]
  BY DEF Commits, Replaced
<1>7. whole # NoTarget  BY <1>3 DEF TargetRow, NoTarget
<1>8. l \in Present => call[r].op = "update" /\ l = call[r].link /\ lock[l] = r
  BY <1>1, <1>2, WriterKnows DEF Commits, UsedInv
<1>9. call[r].existing = DestinationsOf(l)
  <2>1. CASE call[r].op = "create"
    <3>1. l \notin Present  BY <1>1, <2>1 DEF Commits, UsedInv
    <3>2. DestinationsOf(l) = {}  BY <1>1, <3>1 DEF WrittenAsOne, DestinationsOf
    <3> QED  BY <1>2, <2>1, <3>2, WriterKnows
  <2>2. CASE call[r].op # "create"
    BY <1>2, <2>2, WriterKnows DEF Commits
  <2> QED  BY <2>1, <2>2
<1>10. body.keep \subseteq DestinationsOf(l)
  BY <1>2, <1>9, WriterKnows
<1>11. new \cap {t \in Targets : targets[t] # NoTarget} = {}
  BY <1>1 DEF UsedInv
<1>12. body.keep \cup new \subseteq Targets
  BY <1>10 DEF DestinationsOf
<1>13. \A t \in Targets : /\ targets[t] \in TargetRow \cup {NoTarget}
                          /\ t \in DestinationsOf(l) <=> targets[t] # NoTarget /\ targets[t].link = l
  BY <1>1 DEF TypeOK, DestinationsOf
<1>14. body.keep \cup new # {}
  <2>1. Cardinality(new) = body.fresh  BY DEF Commits
  <2>2. new = {} => body.fresh = 0  BY <2>1, FS_EmptySet
  <2> QED  BY <1>3, <2>2 DEF Body
<1>15. links' \in [Links -> Row \cup {NoLink}]
  BY <1>1, <1>3, <1>4 DEF TypeOK
<1>16. policies' \in [Links -> Marks \cup {NoMark}]
  BY <1>1, <1>3, <1>5 DEF TypeOK, Body
<1>17. targets' \in [Targets -> TargetRow \cup {NoTarget}]
  <2>1. \A t \in Targets : targets'[t] \in TargetRow \cup {NoTarget}
    BY <1>3, <1>6, <1>13
  <2>2. targets' = [t \in Targets |-> targets'[t]]  BY DEF Commits, Replaced
  <2> QED  BY <2>1, <2>2
<1>18. call' \in [Requests -> Call \cup {NoCall}]
  <2> DEFINE next == [call[r] EXCEPT !.link = l, !.body = NoBody, !.code = NoCode, !.existing = {}]
  <2>1. call[r] \in Call  BY <1>2, WriterKnows
  <2>2. next \in Call  BY <2>1 DEF Call
  <2>3. call' = [call EXCEPT ![r] = next]  BY DEF Commits
  <2> HIDE DEF next
  <2> QED  BY <1>1, <2>2, <2>3 DEF TypeOK
<1>19. /\ pc' \in [Requests -> Steps] /\ lock' \in [Links -> Requests \cup {Free}]
       /\ used' \subseteq Links \cup Targets
       /\ role' = role /\ level' = level /\ open' = open
  BY <1>1, <1>12 DEF Commits, TypeOK, Unlocked, Steps, accounts
<1> HIDE DEF row, whole
<1>20. TypeOK'
  BY <1>1, <1>15, <1>16, <1>17, <1>18, <1>19 DEF TypeOK
<1>21. whole.link = l /\ whole.mark = body.mark /\ row.mark = body.mark
  BY DEF whole, row
<1>22. \A t \in Targets : t \in DestinationsOf(l)' <=> t \in body.keep \cup new
  BY <1>6, <1>7, <1>9, <1>13, <1>21 DEF DestinationsOf
<1>23. DestinationsOf(l)' = body.keep \cup new
  BY <1>12, <1>22 DEF DestinationsOf
<1>24. \A m \in Links \ {l} :
         /\ links'[m] = links[m] /\ policies'[m] = policies[m]
         /\ DestinationsOf(m)' = DestinationsOf(m)
  <2> SUFFICES ASSUME NEW m \in Links \ {l}
               PROVE /\ links'[m] = links[m] /\ policies'[m] = policies[m]
                     /\ DestinationsOf(m)' = DestinationsOf(m)
    OBVIOUS
  <2>1. links'[m] = links[m] /\ policies'[m] = policies[m]
    BY <1>1, <1>4, <1>5 DEF TypeOK
  <2>2. ASSUME NEW t \in Targets
        PROVE (targets'[t] # NoTarget /\ targets'[t].link = m)
                <=> (targets[t] # NoTarget /\ targets[t].link = m)
    BY <1>6, <1>7, <1>9, <1>10, <1>11, <1>13, <1>21
  <2>3. DestinationsOf(m)' = DestinationsOf(m)  BY <2>2 DEF DestinationsOf
  <2> QED  BY <2>1, <2>3
<1>25. \A t \in Targets : t \notin DestinationsOf(l)' =>
         targets'[t] = NoTarget \/ (targets'[t] = targets[t] /\ targets[t].link # l)
  <2> SUFFICES ASSUME NEW t \in Targets, t \notin body.keep \cup new
               PROVE targets'[t] = NoTarget \/ (targets'[t] = targets[t] /\ targets[t].link # l)
    BY <1>23
  <2> QED  BY <1>6, <1>9, <1>13
<1>26. OnlyChanges(l)  BY <1>24, <1>25, Zenon DEF OnlyChanges
<1> QED
  BY <1>3, <1>4, <1>5, <1>6, <1>8, <1>12, <1>14, <1>20, <1>21, <1>23, <1>26
    DEF row, whole

\* A commit keeps every claim of the others: it writes either the code its link
\* had or one that nobody else has written to the index.
LEMMA CommitKeeps ==
  ASSUME LinksInv, NEW r \in Requests, Commit(r)
  PROVE  LinksInv'
<1>1. TypeOK /\ CodesUnique /\ WrittenAsOne /\ UsedInv  BY DEF LinksInv, RowsAgree
<1>2. PICK l \in Links, new \in SUBSET (Targets \ used) : Commits(r, l, new)
  BY <1>1, CommitCommits
<1> DEFINE row == [domain |-> DomainOf(r), code |-> call[r].code, mark |-> call[r].body.mark]
<1>3. /\ TypeOK'
      /\ links'[l] = row /\ links'[l] \in Row /\ policies'[l] = links'[l].mark
      /\ l \in Present => call[r].op = "update" /\ l = call[r].link /\ lock[l] = r
      /\ DestinationsOf(l)' = call[r].body.keep \cup new
      /\ DestinationsOf(l)' # {}
      /\ \A t \in DestinationsOf(l)' : targets'[t] = [link |-> l, mark |-> links'[l].mark]
      /\ OnlyChanges(l)
  BY <1>2, CommitEffect
<1>4. \A m \in Links \ {l} :
        /\ links'[m] = links[m] /\ policies'[m] = policies[m]
        /\ DestinationsOf(m)' = DestinationsOf(m)
  BY <1>3, Zenon DEF OnlyChanges
<1>5. \A t \in Targets : t \notin DestinationsOf(l)' =>
        targets'[t] = NoTarget \/ (targets'[t] = targets[t] /\ targets[t].link # l)
  BY <1>3, Zenon DEF OnlyChanges
<1>6. pc[r] = "writing" /\ call[r].op # "delete" /\ RequestInv(r)
  BY <1>2 DEF Commits, LinksInv
<1>7. /\ pc'[r] = "reloading" /\ call'[r] \in Call
      /\ \A q \in Requests \ {r} : pc'[q] = pc[q] /\ call'[q] = call[q]
  <2>1. call[r] \in Call  BY <1>6, WriterKnows
  <2> QED  BY <1>1, <1>2, <2>1 DEF Commits, TypeOK, Call
<1>8. links'[l] # NoLink  BY <1>3, ConstantsAssumption
<1>9. Present' = Present \cup {l}
  BY <1>4, <1>8 DEF Present
<1>10. \A m \in Present \ {l} : links[m].domain = DomainOf(r) => links[m].code # call[r].code
  <2>1. CASE Unchanged(r)
    <3>1. l = call[r].link /\ l \in Present
      BY <1>1, <1>2, <1>6, <2>1, WriterKnows DEF Commits, Unchanged
    <3>2. links[l].domain = DomainOf(r) /\ links[l].code = call[r].code
      BY <2>1, <3>1 DEF Unchanged, DomainOf
    <3> QED  BY <1>1, <3>1, <3>2 DEF CodesUnique
  <2>2. CASE ~Taken(r, call[r].code)
    <3>1. Present \ {l} \subseteq Links \ {call[r].link}
      BY <1>2, <1>6, ConstantsAssumption DEF Commits, RequestInv, Carries, Working, Deciding, Present
    <3> QED  BY <2>2, <3>1 DEF Taken, Present
  <2> QED  BY <1>6, <2>1, <2>2 DEF RequestInv, ClaimStands, Claimed
<1>11. CodesUnique'
  <2>1. row.domain = DomainOf(r) /\ row.code = call[r].code  OBVIOUS
  <2> HIDE DEF row
  <2>2. \A m \in Present' \ {l} : links'[m] = links[m] /\ m \in Present
    BY <1>4, <1>9 DEF Present
  <2> QED  BY <1>1, <1>3, <1>9, <1>10, <2>1, <2>2 DEF CodesUnique
<1> HIDE DEF row
<1>12. WrittenAsOne'
  <2>1. ASSUME NEW m \in Present'
        PROVE /\ DestinationsOf(m)' # {}
              /\ \A t \in DestinationsOf(m)' : targets'[t].mark = links'[m].mark
              /\ policies'[m] \in {NoMark, links'[m].mark}
    <3>1. CASE m = l  BY <1>3, <3>1
    <3>2. CASE m # l
      <4>1. m \in Present /\ m \in Links \ {l}  BY <1>9, <3>2 DEF Present
      <4>2. \A t \in DestinationsOf(m) : targets'[t] = targets[t]
        <5> SUFFICES ASSUME NEW t \in DestinationsOf(m)  PROVE targets'[t] = targets[t]
          OBVIOUS
        <5>1. t \in Targets /\ targets[t] # NoTarget /\ targets[t].link = m
          BY DEF DestinationsOf
        <5>2. t \in DestinationsOf(m)'  BY <1>4, <4>1
        <5>3. targets'[t] # NoTarget /\ targets'[t].link = m  BY <5>2 DEF DestinationsOf
        <5>4. t \notin DestinationsOf(l)'  BY <3>2, <5>3 DEF DestinationsOf
        <5> QED  BY <1>5, <5>1, <5>3, <5>4
      <4> QED  BY <1>1, <1>4, <4>1, <4>2 DEF WrittenAsOne
    <3> QED  BY <3>1, <3>2
  <2>2. ASSUME NEW t \in Targets, targets'[t] # NoTarget  PROVE targets'[t].link \in Present'
    <3>1. CASE t \in DestinationsOf(l)'
      BY <1>9, <3>1 DEF DestinationsOf
    <3>2. CASE t \notin DestinationsOf(l)'
      BY <1>1, <1>5, <1>9, <2>2, <3>2 DEF WrittenAsOne
    <3> QED  BY <3>1, <3>2
  <2>3. ASSUME NEW m \in Links \ Present'  PROVE policies'[m] = NoMark
    BY <1>1, <1>4, <1>9, <2>3 DEF WrittenAsOne
  <2> QED  BY <2>1, <2>2, <2>3 DEF WrittenAsOne
<1>13. UsedInv'
  <2>1. used' = used \cup {l} \cup new  BY <1>2 DEF Commits
  <2>2. ASSUME NEW t \in Targets, targets'[t] # NoTarget  PROVE t \in used'
    <3>1. CASE t \in new  BY <2>1, <3>1
    <3>2. CASE t \in call[r].body.keep
      <4>1. t \in DestinationsOf(call[r].link)  BY <1>6, <3>2, WriterKnows
      <4> QED  BY <1>1, <2>1, <4>1 DEF UsedInv, DestinationsOf
    <3>3. CASE t \notin DestinationsOf(l)'
      BY <1>1, <1>5, <2>1, <2>2, <3>3 DEF UsedInv
    <3> QED  BY <1>3, <3>1, <3>2, <3>3
  <2> QED  BY <1>1, <1>9, <2>1, <2>2 DEF UsedInv
<1>14. ASSUME NEW q \in Requests \ {r}
       PROVE /\ call[q].op # "create" /\ pc[q] \in Deciding =>
                  call[q].link \in Links /\ call[q].link # l
             /\ RequestInv(q)
  <2>1. RequestInv(q)  BY DEF LinksInv
  <2>2. call[q].op # "create" /\ pc[q] \in Deciding =>
          /\ call[q].link \in Present /\ lock[call[q].link] = q
    BY <2>1 DEF RequestInv, Carries, Holds, Working, Present
  <2> QED  BY <1>3, <2>1, <2>2 DEF Present
<1>15. ASSUME NEW q \in Requests \ {r}, Claimed(q)
       PROVE /\ Unchanged(q)' = Unchanged(q) /\ DomainOf(q)' = DomainOf(q)
             /\ Claimed(q)'
  BY <1>4, <1>7, <1>14, <1>15 DEF Claimed, Unchanged, DomainOf, Deciding
<1>16. ASSUME NEW q \in Requests \ {r}  PROVE ClaimStands(q)'
  <2> SUFFICES ASSUME Claimed(q), ~Unchanged(q), NEW m \in Links \ {call[q].link},
                      links'[m] # NoLink, links'[m].domain = DomainOf(q),
                      links'[m].code = call[q].code
               PROVE FALSE
    BY <1>7, <1>15 DEF ClaimStands, Taken, Claimed
  <2>1. ~Taken(q, call[q].code)  BY <1>14 DEF RequestInv, ClaimStands
  <2>2. m = l  BY <1>4, <2>1 DEF Taken
  <2>3. DomainOf(r) = DomainOf(q) /\ call[r].code = call[q].code
    BY <1>3, <2>2 DEF row
  <2>4. CASE Unchanged(r)
    <3>1. l = call[r].link /\ links[l] # NoLink
      BY <1>1, <1>2, <1>6, <2>4, WriterKnows DEF Commits, Unchanged, Present
    <3>2. links[l].domain = DomainOf(r) /\ links[l].code = call[r].code
      BY <2>4, <3>1 DEF Unchanged, DomainOf
    <3> QED  BY <2>1, <2>2, <2>3, <3>1, <3>2 DEF Taken
  <2>5. CASE ~Unchanged(r)
    BY <1>6, <2>3, <2>5 DEF LinksInv, Apart, Claimed
  <2> QED  BY <2>4, <2>5
<1>17. ASSUME NEW q \in Requests \ {r}  PROVE RequestInv(q)'
  <2>1. Carries(q)'  BY <1>7, <1>14 DEF RequestInv, Carries
  <2>2. Holds(q)'
    BY <1>2, <1>4, <1>7, <1>14 DEF RequestInv, Holds, Commits, Unlocked
  <2>3. ReadStands(q)'
    <3> SUFFICES ASSUME pc[q] = "writing", call[q].op # "delete"
                 PROVE DestinationsOf(call[q].link)' = DestinationsOf(call[q].link)
      BY <1>7, <1>14 DEF RequestInv, ReadStands, DestinationsOf
    <3>1. CASE call[q].op = "create"
      <4>1. call[q].link = NoLink
        BY <1>14, <3>1 DEF RequestInv, Carries, Working, Deciding
      <4>2. \A t \in Targets : /\ targets[t] # NoTarget => targets[t].link # NoLink
                               /\ targets'[t] # NoTarget => targets'[t].link # NoLink
        BY <1>1, <1>12, ConstantsAssumption DEF WrittenAsOne, Present
      <4> QED  BY <1>7, <4>1, <4>2 DEF DestinationsOf
    <3>2. CASE call[q].op # "create"
      <4>1. call[q].link \in Links \ {l}  BY <1>14, <3>2 DEF Deciding
      <4> QED  BY <1>4, <1>7, <4>1 DEF DestinationsOf
    <3> QED  BY <3>1, <3>2
  <2> QED  BY <1>16, <2>1, <2>2, <2>3 DEF RequestInv
<1>18. RequestInv(r)' /\ ~Claimed(r)'
  BY <1>7, EmptyCalls
    DEF RequestInv, Carries, Holds, ClaimStands, Claimed, ReadStands, Answers,
        Away, Working, Deciding
<1>19. ASSUME NEW p \in Requests, NEW q \in Requests  PROVE Apart(p, q)'
  <2>1. Apart(p, q)  BY DEF LinksInv
  <2>2. CASE p = r \/ q = r  BY <1>18, <2>2 DEF Apart
  <2>3. CASE p # r /\ q # r
    BY <1>7, <1>15, <2>1, <2>3 DEF Apart, Claimed
  <2> QED  BY <2>2, <2>3
<1> QED
  BY <1>3, <1>11, <1>12, <1>13, <1>17, <1>18, <1>19 DEF LinksInv, RowsAgree

\* A link is deleted with all its rows, and no other is touched.
LEMMA DeleteEffect ==
  ASSUME LinksInv, NEW r \in Requests, CommitDelete(r), NEW l, l = call[r].link
  PROVE  /\ TypeOK'
         /\ l \in Present /\ lock[l] = r
         /\ links'[l] = NoLink /\ policies'[l] = NoMark
         /\ DestinationsOf(l)' = {}
         /\ OnlyChanges(l)
<1>1. TypeOK /\ RequestInv(r)  BY DEF LinksInv, RowsAgree
<1>2. l \in Present /\ lock[l] = r
  BY <1>1 DEF RequestInv, Carries, Holds, Working, Deciding, Present, CommitDelete
<1>3. l \in Links  BY <1>2 DEF Present
<1>4. /\ links' = [links EXCEPT ![l] = NoLink]
      /\ policies' = [policies EXCEPT ![l] = NoMark]
      /\ targets' = [t \in Targets |-> IF t \in DestinationsOf(l) THEN NoTarget ELSE targets[t]]
  BY DEF CommitDelete
<1>5. TypeOK'
  BY <1>1, <1>3, <1>4 DEF CommitDelete, Goto, TypeOK, Unlocked, accounts, Steps, Answers
<1>6. links'[l] = NoLink /\ policies'[l] = NoMark
  BY <1>1, <1>3, <1>4 DEF TypeOK
<1>7. \A t \in Targets :
        targets'[t] = IF targets[t] # NoTarget /\ targets[t].link = l THEN NoTarget ELSE targets[t]
  BY <1>4 DEF DestinationsOf
<1>8. DestinationsOf(l)' = {}  BY <1>7 DEF DestinationsOf
<1>9. \A m \in Links \ {l} :
        /\ links'[m] = links[m] /\ policies'[m] = policies[m]
        /\ DestinationsOf(m)' = DestinationsOf(m)
  BY <1>1, <1>3, <1>4, <1>7 DEF TypeOK, DestinationsOf
<1>10. \A t \in Targets : t \notin DestinationsOf(l)' =>
         targets'[t] = NoTarget \/ (targets'[t] = targets[t] /\ targets[t].link # l)
  BY <1>7
<1>11. OnlyChanges(l)  BY <1>9, <1>10, Zenon DEF OnlyChanges
<1> QED  BY <1>2, <1>5, <1>6, <1>8, <1>11

LEMMA CommitDeleteKeeps ==
  ASSUME LinksInv, NEW r \in Requests, CommitDelete(r)
  PROVE  LinksInv'
<1>0. PICK l : l = call[r].link  OBVIOUS
<1>1. TypeOK /\ CodesUnique /\ WrittenAsOne /\ UsedInv  BY DEF LinksInv, RowsAgree
<1>2. /\ TypeOK' /\ l \in Present /\ lock[l] = r
      /\ links'[l] = NoLink /\ policies'[l] = NoMark
      /\ DestinationsOf(l)' = {} /\ OnlyChanges(l)
  BY <1>0, DeleteEffect
<1>3. \A m \in Links \ {l} :
        /\ links'[m] = links[m] /\ policies'[m] = policies[m]
        /\ DestinationsOf(m)' = DestinationsOf(m)
  BY <1>2, Zenon DEF OnlyChanges
<1>4. \A t \in Targets : targets'[t] = NoTarget \/ (targets'[t] = targets[t] /\ targets[t].link # l)
  BY <1>2 DEF OnlyChanges
<1>5. /\ pc'[r] = "ok" /\ call'[r] = NoCall
      /\ \A q \in Requests \ {r} : pc'[q] = pc[q] /\ call'[q] = call[q]
  BY <1>1 DEF CommitDelete, Goto, TypeOK
<1>6. Present' = Present \ {l}
  BY <1>2, <1>3 DEF Present
<1>7. CodesUnique'
  BY <1>1, <1>3, <1>6 DEF CodesUnique, Present
<1>8. WrittenAsOne'
  <2>1. ASSUME NEW m \in Present'
        PROVE /\ DestinationsOf(m)' # {}
              /\ \A t \in DestinationsOf(m)' : targets'[t].mark = links'[m].mark
              /\ policies'[m] \in {NoMark, links'[m].mark}
    <3>1. m \in Present /\ m \in Links \ {l}  BY <1>6 DEF Present
    <3>2. \A t \in DestinationsOf(m)' : targets'[t] = targets[t]
      BY <1>4 DEF DestinationsOf
    <3> QED  BY <1>1, <1>3, <3>1, <3>2 DEF WrittenAsOne
  <2>2. ASSUME NEW t \in Targets, targets'[t] # NoTarget  PROVE targets'[t].link \in Present'
    BY <1>1, <1>4, <1>6, <2>2 DEF WrittenAsOne
  <2>3. ASSUME NEW m \in Links \ Present'  PROVE policies'[m] = NoMark
    BY <1>1, <1>2, <1>3, <1>6, <2>3 DEF WrittenAsOne
  <2> QED  BY <2>1, <2>2, <2>3 DEF WrittenAsOne
<1>9. UsedInv'
  BY <1>1, <1>4, <1>6 DEF UsedInv, CommitDelete
<1>10. ASSUME NEW q \in Requests \ {r}
       PROVE /\ call[q].op # "create" /\ pc[q] \in Deciding =>
                  call[q].link \in Links /\ call[q].link # l
             /\ RequestInv(q)
  <2>1. RequestInv(q)  BY DEF LinksInv
  <2>2. call[q].op # "create" /\ pc[q] \in Deciding =>
          /\ call[q].link \in Present /\ lock[call[q].link] = q
    BY <2>1 DEF RequestInv, Carries, Holds, Working, Present
  <2> QED  BY <1>2, <2>1, <2>2 DEF Present
<1>11. ASSUME NEW q \in Requests \ {r}, Claimed(q)
       PROVE /\ Unchanged(q)' = Unchanged(q) /\ DomainOf(q)' = DomainOf(q)
             /\ Claimed(q)'
  BY <1>3, <1>5, <1>10, <1>11 DEF Claimed, Unchanged, DomainOf, Deciding
<1>12. ASSUME NEW q \in Requests \ {r}  PROVE ClaimStands(q)'
  <2> SUFFICES ASSUME Claimed(q), ~Unchanged(q), NEW m \in Links \ {call[q].link},
                      links'[m] # NoLink, links'[m].domain = DomainOf(q),
                      links'[m].code = call[q].code
               PROVE FALSE
    BY <1>5, <1>11 DEF ClaimStands, Taken, Claimed
  <2>1. ~Taken(q, call[q].code)  BY <1>10 DEF RequestInv, ClaimStands
  <2> QED  BY <1>2, <1>3, <2>1 DEF Taken
<1>13. ASSUME NEW q \in Requests \ {r}  PROVE RequestInv(q)'
  <2>1. Carries(q)'  BY <1>5, <1>10 DEF RequestInv, Carries
  <2>2. Holds(q)'
    BY <1>3, <1>5, <1>10 DEF RequestInv, Holds, CommitDelete, Unlocked
  <2>3. ReadStands(q)'
    <3> SUFFICES ASSUME pc[q] = "writing", call[q].op # "delete"
                 PROVE DestinationsOf(call[q].link)' = DestinationsOf(call[q].link)
      BY <1>5, <1>10 DEF RequestInv, ReadStands, DestinationsOf
    <3>1. CASE call[q].op = "create"
      <4>1. call[q].link = NoLink
        BY <1>10, <3>1 DEF RequestInv, Carries, Working, Deciding
      <4>2. \A t \in Targets : /\ targets[t] # NoTarget => targets[t].link # NoLink
                               /\ targets'[t] # NoTarget => targets'[t].link # NoLink
        BY <1>1, <1>8, ConstantsAssumption DEF WrittenAsOne, Present
      <4> QED  BY <1>5, <4>1, <4>2 DEF DestinationsOf
    <3>2. CASE call[q].op # "create"
      <4>1. call[q].link \in Links \ {l}  BY <1>10, <3>2 DEF Deciding
      <4> QED  BY <1>3, <1>5, <4>1 DEF DestinationsOf
    <3> QED  BY <3>1, <3>2
  <2> QED  BY <1>12, <2>1, <2>2, <2>3 DEF RequestInv
<1>14. RequestInv(r)' /\ ~Claimed(r)'
  BY <1>5 DEF RequestInv, Carries, Holds, ClaimStands, Claimed, ReadStands, Answers,
              Away, Working, Deciding
<1>15. ASSUME NEW p \in Requests, NEW q \in Requests  PROVE Apart(p, q)'
  <2>1. Apart(p, q)  BY DEF LinksInv
  <2>2. CASE p = r \/ q = r  BY <1>14, <2>2 DEF Apart
  <2>3. CASE p # r /\ q # r
    BY <1>5, <1>11, <2>1, <2>3 DEF Apart, Claimed
  <2> QED  BY <2>2, <2>3
<1> QED
  BY <1>2, <1>7, <1>8, <1>9, <1>13, <1>14, <1>15 DEF LinksInv, RowsAgree

---------------------------------------------------------------------------
\* Every other step of a request is one of these.
LEMMA RefusalsRefuse ==
  ASSUME NEW r \in Requests,
         \/ NothingToLoad(r) \/ DeletedMeanwhile(r) \/ NotManager(r) \/ OtherDomain(r)
         \/ AliasTaken(r) \/ GenerationFails(r) \/ CodeConflict(r)
         \/ UnknownDestination(r) \/ Reload(r)
  PROVE  \E answer \in Answers : Refuse(r, answer)
BY DEF NothingToLoad, DeletedMeanwhile, NotManager, OtherDomain, AliasTaken,
       GenerationFails, CodeConflict, UnknownDestination, Reload, Refusal, Answers

LEMMA ChoicesChoose ==
  ASSUME LinksInv, NEW r \in Requests, AliasFree(r) \/ GenerateCode(r) \/ KeepCode(r)
  PROVE  pc[r] = "coding" /\ \E c \in Codes : ChooseCode(r, c)
<1>1. TypeOK /\ RequestInv(r)  BY DEF LinksInv, RowsAgree
<1>2. CASE AliasFree(r)
  <2>1. pc[r] = "coding" /\ call[r].op # "delete"
    BY <1>1, <1>2 DEF AliasFree, RequestInv, Carries
  <2>2. call[r].body \in Body
    BY <1>1, <2>1, ConstantsAssumption DEF RequestInv, Carries, Working, Deciding
  <2> QED  BY <1>2, <2>2 DEF AliasFree, Body
<1>3. CASE GenerateCode(r)
  BY <1>3 DEF GenerateCode
<1>4. CASE KeepCode(r)
  <2>1. call[r].link \in Links /\ links[call[r].link] # NoLink
    BY <1>1, <1>4 DEF KeepCode, RequestInv, Carries, Holds, Working, Deciding
  <2>2. links[call[r].link].code \in Codes  BY <1>1, <2>1 DEF TypeOK, Row
  <2> QED  BY <1>4, <2>2 DEF KeepCode
<1> QED  BY <1>2, <1>3, <1>4

LEMMA NextLinksInv == LinksInv /\ [Next]_vars => LinksInv'
<1> SUFFICES ASSUME LinksInv, [Next]_vars  PROVE LinksInv'  OBVIOUS
<1>0. TypeOK  BY DEF LinksInv, RowsAgree
<1>1. CASE UNCHANGED vars
  <2>1. TypeOK'  BY <1>0, <1>1 DEF TypeOK, vars
  <2> QED  BY <1>1, <2>1, AccountsKeep DEF vars, tables
<1>2. ASSUME NEW c \in Callers, ChangeAccount(c)  PROVE LinksInv'
  <2>1. TypeOK'  BY <1>0, <1>2 DEF ChangeAccount, TypeOK, tables
  <2> QED  BY <1>2, <2>1, AccountsKeep DEF ChangeAccount
<1>3. ASSUME NEW d \in Domains, ToggleDomain(d)  PROVE LinksInv'
  <2>1. TypeOK'  BY <1>0, <1>3 DEF ToggleDomain, TypeOK, tables
  <2> QED  BY <1>3, <2>1, AccountsKeep DEF ToggleDomain
<1>4. ASSUME NEW r \in Requests, Arrive(r)  PROVE LinksInv'
  BY <1>4, ArriveKeeps
<1>5. ASSUME NEW r \in Requests, Step(r)  PROVE LinksInv'
  <2>1. CASE StartLoad(r) \/ LockLink(r) \/ Manager(r)
    BY <2>1, StartLoadKeeps, LockLinkKeeps, ManagerKeeps
  <2>2. CASE AliasFree(r) \/ GenerateCode(r) \/ KeepCode(r)
    BY <2>2, ChoicesChoose, ChooseCodeKeeps
  <2>3. CASE CodeClaimed(r) \/ ReadDestinations(r)
    BY <2>3, CodeClaimedKeeps, ReadDestinationsKeeps
  <2>4. CASE Commit(r) \/ CommitDelete(r)
    BY <2>4, CommitKeeps, CommitDeleteKeeps
  <2>5. CASE \/ NothingToLoad(r) \/ DeletedMeanwhile(r) \/ NotManager(r) \/ OtherDomain(r)
             \/ AliasTaken(r) \/ GenerationFails(r) \/ CodeConflict(r)
             \/ UnknownDestination(r) \/ Reload(r)
    BY <2>5, RefusalsRefuse, RefuseKeeps
  <2> QED  BY <1>5, <2>1, <2>2, <2>3, <2>4, <2>5 DEF Step
<1> QED  BY <1>1, <1>2, <1>3, <1>4, <1>5 DEF Next

\* For any number of requests, links and codes, and whoever loses which right
\* between two statements: within a domain a code is of one link, although the
\* look-up of create_unique_short_code and the write of the code are separate
\* statements, and the rows of a link always come from one body, although
\* update_short_link replaces them by several statements.
THEOREM RowsAlwaysAgree == Spec => []RowsAgree
<1>1. LinksInv => RowsAgree  BY DEF LinksInv
<1> QED  BY <1>1, InitLinksInv, NextLinksInv, PTL DEF Spec

---------------------------------------------------------------------------
(* The refinement.  Only the two commits change the catalogue.             *)

\* The rows of a link make up an object of the catalogue.
ObjectsFit ==
  \A l \in Links :
    /\ catalogue[l] \in Catalog!Link \cup {NoLink}
    /\ catalogue[l] = NoLink <=> l \notin Present
    /\ l \in Present =>
         /\ catalogue[l] \in Catalog!Link
         /\ catalogue[l].domain = links[l].domain
         /\ catalogue[l].policy = (policies[l] # NoMark)

\* Two links share neither a code of a domain nor a destination.
ObjectsDistinct ==
  \A l, m \in Links : l # m /\ catalogue[l] # NoLink /\ catalogue[m] # NoLink =>
    /\ catalogue[l].domain = catalogue[m].domain => catalogue[l].code # catalogue[m].code
    /\ catalogue[l].targets \cap catalogue[m].targets = {}

LEMMA RowsAreObjects == RowsAgree => ObjectsFit /\ ObjectsDistinct
<1> SUFFICES ASSUME RowsAgree  PROVE ObjectsFit /\ ObjectsDistinct  OBVIOUS
<1>1. ASSUME NEW l \in Links, l \in Present
      PROVE /\ catalogue[l] \in Catalog!Link /\ catalogue[l] # NoLink
            /\ catalogue[l].domain = links[l].domain
            /\ catalogue[l].code = links[l].code
            /\ catalogue[l].targets = DestinationsOf(l)
            /\ catalogue[l].policy = (policies[l] # NoMark)
  <2>1. links[l] \in Row /\ links[l] # NoLink
    BY <1>1 DEF RowsAgree, TypeOK, Present
  <2>2. DestinationsOf(l) \in (SUBSET Targets) \ {{}}
    BY <1>1 DEF RowsAgree, WrittenAsOne, DestinationsOf
  <2> DEFINE object == [domain |-> links[l].domain, code |-> links[l].code,
                        mark |-> links[l].mark, targets |-> DestinationsOf(l),
                        policy |-> policies[l] # NoMark]
  <2>3. catalogue[l] = object  BY <2>1 DEF catalogue
  <2>4. /\ object \in [domain : Domains, code : Codes, mark : Marks,
                       targets : SUBSET Targets, policy : BOOLEAN]
        /\ object \in Catalog!Link
    BY <2>1, <2>2 DEF Row, Catalog!Link
  <2>5. object # NoLink  BY <2>4, ConstantsAssumption
  <2>6. /\ object.domain = links[l].domain /\ object.code = links[l].code
        /\ object.targets = DestinationsOf(l) /\ object.policy = (policies[l] # NoMark)
    OBVIOUS
  <2> HIDE DEF object
  <2> QED  BY <2>3, <2>4, <2>5, <2>6
<1>2. \A l \in Links : l \notin Present => catalogue[l] = NoLink
  BY DEF Present, catalogue
<1>3. ObjectsFit  BY <1>1, <1>2 DEF ObjectsFit
<1>4. ASSUME NEW l \in Links, NEW m \in Links, l # m,
             catalogue[l] # NoLink, catalogue[m] # NoLink
      PROVE /\ catalogue[l].domain = catalogue[m].domain => catalogue[l].code # catalogue[m].code
            /\ catalogue[l].targets \cap catalogue[m].targets = {}
  <2>1. l \in Present /\ m \in Present  BY <1>2, <1>4
  <2>2. links[l].domain = links[m].domain => links[l].code # links[m].code
    BY <1>4, <2>1 DEF RowsAgree, CodesUnique
  <2>3. DestinationsOf(l) \cap DestinationsOf(m) = {}  BY <1>4 DEF DestinationsOf
  <2> QED  BY <1>1, <2>1, <2>2, <2>3
<1> QED  BY <1>3, <1>4 DEF ObjectsDistinct

\* So do the rows that a step leaves.
LEMMA NewRowsAreObjects == RowsAgree' => ObjectsFit' /\ ObjectsDistinct'
BY RowsAreObjects, PTL

LEMMA InitRefines == Init => Catalog!Init
<1> SUFFICES ASSUME Init  PROVE Catalog!Init  OBVIOUS
<1>1. ObjectsFit /\ ObjectsDistinct
  BY InitLinksInv, RowsAreObjects DEF LinksInv
<1>2. catalogue \in [Links -> Catalog!Link \cup {NoLink}]
  BY <1>1 DEF ObjectsFit, catalogue
<1> QED  BY <1>1, <1>2 DEF ObjectsDistinct, Catalog!Init, Catalog!Start

\* A step that changes only the rows of l changes only its object.
LEMMA OthersKeepObjects ==
  ASSUME NEW l \in Links, OnlyChanges(l)
  PROVE  \A m \in Links \ {l} : catalogue'[m] = catalogue[m]
<1> SUFFICES ASSUME NEW m \in Links \ {l}  PROVE catalogue'[m] = catalogue[m]
  OBVIOUS
<1>1. /\ links'[m] = links[m] /\ policies'[m] = policies[m]
      /\ DestinationsOf(m)' = DestinationsOf(m)
  BY Zenon DEF OnlyChanges
<1> QED  BY <1>1 DEF catalogue

\* What a commit of l leaves is written as LinkCatalog asks.
LEMMA WholeLinkIsWritten ==
  ASSUME RowsAgree', NEW l \in Links, OnlyChanges(l),
         links'[l] # NoLink, policies'[l] # NoMark
  PROVE  Catalog!Written(l) /\ catalogue'[l].domain = links'[l].domain
<1> DEFINE w == catalogue'[l]
<1>1. \A m \in Links \ {l} : catalogue'[m] = catalogue[m]  BY OthersKeepObjects
<1>2. ObjectsFit' /\ ObjectsDistinct'  BY NewRowsAreObjects
<1>3. l \in Present'  BY DEF Present
<1>4. /\ w \in Catalog!Link /\ w # NoLink
      /\ w.policy = TRUE /\ w.domain = links'[l].domain
  BY <1>2, <1>3 DEF ObjectsFit
<1>5. ASSUME NEW m \in Links \ {l}, catalogue[m] # NoLink
      PROVE /\ ~(catalogue[m].domain = w.domain /\ catalogue[m].code = w.code)
            /\ w.targets \cap catalogue[m].targets = {}
  BY <1>1, <1>2, <1>4, <1>5 DEF ObjectsDistinct
<1> HIDE DEF w
<1>6. ~Catalog!Taken(l, w.domain, w.code)
  BY <1>5 DEF Catalog!Taken, Catalog!Present
<1>7. w.targets \cap Catalog!Used(l) = {}
  BY <1>5 DEF Catalog!Used, Catalog!Present
<1> QED  BY <1>1, <1>4, <1>6, <1>7 DEF Catalog!Written, w

\* Every step of the requests is a step of the catalogue or leaves it alone.
LEMMA StepRefines ==
  LinksInv /\ LinksInv' /\ [Next]_vars => [Catalog!Next]_catalogue
<1> SUFFICES ASSUME LinksInv, LinksInv', [Next]_vars  PROVE [Catalog!Next]_catalogue
  OBVIOUS
<1>0. TypeOK /\ RowsAgree' /\ RowsAgree  BY DEF LinksInv, RowsAgree
<1>1. ASSUME NEW r \in Requests, Commit(r)  PROVE Catalog!Next
  <2>1. PICK l \in Links, new \in SUBSET (Targets \ used) : Commits(r, l, new)
    BY <1>0, <1>1, CommitCommits
  <2>2. /\ links'[l] = [domain |-> DomainOf(r), code |-> call[r].code,
                        mark |-> call[r].body.mark]
        /\ links'[l] \in Row /\ policies'[l] = links'[l].mark
        /\ l \in Present => call[r].op = "update" /\ l = call[r].link
        /\ OnlyChanges(l)
    BY <2>1, CommitEffect
  <2>3. /\ links'[l] # NoLink /\ policies'[l] # NoMark
        /\ links'[l].domain = DomainOf(r)
    BY <2>2, ConstantsAssumption DEF Row
  <2>4. Catalog!Written(l) /\ catalogue'[l].domain = DomainOf(r)
    BY <1>0, <2>2, <2>3, WholeLinkIsWritten
  <2>5. ObjectsFit /\ ObjectsFit'  BY <1>0, RowsAreObjects, NewRowsAreObjects
  <2>6. CASE l \notin Present
    BY <2>4, <2>5, <2>6 DEF ObjectsFit, Catalog!Next, Catalog!Create
  <2>7. CASE l \in Present
    <3>1. catalogue[l] # NoLink /\ catalogue[l].domain = DomainOf(r)
      BY <2>2, <2>5, <2>7 DEF ObjectsFit, DomainOf
    <3>2. catalogue'[l] # NoLink
      BY <2>3, <2>5 DEF ObjectsFit, Present
    <3> QED  BY <2>4, <3>1, <3>2 DEF Catalog!Next, Catalog!Replace
  <2> QED  BY <2>6, <2>7
<1>2. ASSUME NEW r \in Requests, CommitDelete(r)  PROVE Catalog!Next
  <2>1. PICK l : l = call[r].link  OBVIOUS
  <2>2. l \in Present /\ links'[l] = NoLink /\ OnlyChanges(l)
    BY <1>2, <2>1, DeleteEffect
  <2>3. l \in Links  BY <2>2 DEF Present
  <2>4. catalogue[l] # NoLink
    BY <1>0, <2>2, <2>3, RowsAreObjects DEF ObjectsFit
  <2>5. catalogue'[l] = NoLink  BY <2>2, <2>3 DEF catalogue
  <2>6. \A m \in Links \ {l} : catalogue'[m] = catalogue[m]
    BY <2>2, <2>3, OthersKeepObjects
  <2> QED  BY <2>3, <2>4, <2>5, <2>6 DEF Catalog!Next, Catalog!Delete
<1>3. ASSUME UNCHANGED tables  PROVE UNCHANGED catalogue
  BY <1>3 DEF tables, catalogue, DestinationsOf
<1>4. ASSUME NEW r \in Requests, Arrive(r) \/ Step(r), ~Commit(r), ~CommitDelete(r)
      PROVE UNCHANGED tables
  <2>1. CASE \/ NothingToLoad(r) \/ DeletedMeanwhile(r) \/ NotManager(r) \/ OtherDomain(r)
             \/ AliasTaken(r) \/ GenerationFails(r) \/ CodeConflict(r)
             \/ UnknownDestination(r) \/ Reload(r)
    BY <2>1, RefusalsRefuse DEF Refuse
  <2>2. CASE AliasFree(r) \/ GenerateCode(r) \/ KeepCode(r)
    BY <2>2 DEF AliasFree, GenerateCode, KeepCode, ChooseCode
  <2> QED
    BY <1>4, <2>1, <2>2
      DEF Step, Arrive, StartLoad, LockLink, Manager, CodeClaimed, ReadDestinations
<1>5. ASSUME \/ \E c \in Callers : ChangeAccount(c)
             \/ \E d \in Domains : ToggleDomain(d)
             \/ UNCHANGED vars
      PROVE UNCHANGED tables
  BY <1>5 DEF ChangeAccount, ToggleDomain, vars, tables
<1> QED  BY <1>1, <1>2, <1>3, <1>4, <1>5 DEF Next

\* For any number of requests: whatever create_short_link, update_short_link and
\* delete_short_link do statement by statement, others see a link created,
\* replaced or deleted as a whole, with a code and destinations of its own.
THEOREM TablesImplementCatalogue == Spec => LinksAreCatalog
<1>1. LinksInv /\ [Next]_vars => LinksInv'  BY NextLinksInv
<1> QED
  BY <1>1, InitLinksInv, InitRefines, StepRefines, PTL DEF Spec, LinksAreCatalog, Catalog!Spec

=============================================================================
