---------------------------- MODULE SocialProofs ----------------------------
(***************************************************************************)
(* Proofs about what the members of the site are to each other, for any    *)
(* users and connections: of Friends, the types, where two rows of one     *)
(* pair come from, and that the tables implement Friendship; of Groups,    *)
(* what handlers and clients know of a group's members; of DmHistory, when *)
(* a client's copy of a message is the stored one.                         *)
(***************************************************************************)
EXTENDS Friends, Groups, DmHistory, TLAPS

\* A pair of users is a pair, whichever way round.
LEMMA PairFacts ==
    ASSUME NEW a \in Users, NEW b \in Users
    PROVE  /\ <<a, b>> \in Pairs
           /\ {a, b} = {b, a}
           /\ {a, b} \in {{p[1], p[2]} : p \in Pairs}
<1>1. <<a, b>> \in Pairs /\ <<a, b>>[1] = a /\ <<a, b>>[2] = b
  BY DEF Pairs
<1>2. QED
  BY <1>1

\* Two sets of two are the same if their members are, one way or the other.
LEMMA SamePair ==
    ASSUME NEW a, NEW b, NEW c, NEW d, {a, b} = {c, d}
    PROVE  (a = c /\ b = d) \/ (a = d /\ b = c)
OBVIOUS

\* Whoever a message may name is a user.
LEMMA NamedFacts ==
    ASSUME NEW c \in Conns, NEW u, idle(c, u)
    PROVE  Owner[c] \in Users /\ u \in Users /\ <<Owner[c], u>> \in Pairs /\ <<u, Owner[c]>> \in Pairs
BY HandlersAssumption, FriendsAssumption DEF idle, Pairs

-----------------------------------------------------------------------------
(* Types. *)

LEMMA FTypeInit == FInit => FTypeOK
BY HandlersAssumption DEF FInit, FTypeOK

LEMMA RequestType ==
    ASSUME FTypeOK, NEW c \in Conns,
           (\E u \in Users : FriendRequest(c, u) \/ ContactGroupSet(c, u))
    PROVE  FTypeOK'
<1> PICK u \in Users : FriendRequest(c, u) \/ ContactGroupSet(c, u)
  OBVIOUS
<1>1. fpc' \in [Conns -> {"read", "count", "insert", "file"}] /\ peer' = [peer EXCEPT ![c] = u]
      /\ fpc' = [fpc EXCEPT ![c] = fpc'[c]]
  BY DEF FTypeOK, FriendRequest, ContactGroupSet
<1>2. UNCHANGED <<friends, blocks, contactGroups, wants, crossed>>
  BY DEF FriendRequest, ContactGroupSet
<1>3. QED
  BY <1>1, <1>2 DEF FTypeOK

LEMMA DoneType ==
    ASSUME FTypeOK, NEW c \in Conns, done(c)
    PROVE  /\ fpc' \in [Conns -> {"read", "count", "insert", "file"}]
           /\ peer' \in [Conns -> Users \cup {NoUser}]
           /\ \A d \in Conns : fpc'[d] # "read" => peer'[d] \in Users
BY DEF FTypeOK, done

LEMMA CountType ==
    ASSUME FTypeOK, NEW c \in Conns, RequestCount(c)
    PROVE  FTypeOK'
<1>1. Owner[c] \in Users /\ peer[c] \in Users
  BY HandlersAssumption DEF FTypeOK, RequestCount
<1>2. {Owner[c], peer[c]} \in {{p[1], p[2]} : p \in Pairs}
  BY <1>1, PairFacts
<1>3. CASE requestExists(Owner[c], peer[c])
  BY <1>3, DoneType DEF FTypeOK, RequestCount
<1>4. CASE ~requestExists(Owner[c], peer[c])
  <2>1. crossed' \subseteq {{p[1], p[2]} : p \in Pairs}
    BY <1>2, <1>4 DEF FTypeOK, RequestCount
  <2>2. fpc' = [fpc EXCEPT ![c] = "insert"] /\ peer' = peer
    BY <1>4 DEF RequestCount
  <2>3. QED
    BY <1>1, <2>1, <2>2 DEF FTypeOK, RequestCount
<1>5. QED
  BY <1>3, <1>4

LEMMA InsertType ==
    ASSUME FTypeOK, NEW c \in Conns, RequestInsert(c)
    PROVE  FTypeOK'
<1>1. Owner[c] \in Users /\ peer[c] \in Users
  BY HandlersAssumption DEF FTypeOK, RequestInsert
<1>2. <<Owner[c], peer[c]>> \in Pairs
  BY <1>1, PairFacts
<1>3. friends' \in [Pairs -> {"none", "pending", "accepted"}] /\ wants' \subseteq Pairs
  BY <1>2 DEF FTypeOK, RequestInsert
<1>4. QED
  BY <1>3, DoneType DEF FTypeOK, RequestInsert

LEMMA StatementType ==
    ASSUME FTypeOK, NEW c \in Conns, NEW u \in Users,
           FriendAccept(c, u) \/ FriendReject(c, u) \/ FriendRemove(c, u)
           \/ Block(c, u) \/ Unblock(c, u)
    PROVE  FTypeOK'
<1>1. Owner[c] \in Users /\ u \in Users /\ <<Owner[c], u>> \in Pairs /\ <<u, Owner[c]>> \in Pairs
  BY NamedFacts DEF FriendAccept, FriendReject, FriendRemove, Block, Unblock
<1>2. UNCHANGED <<contactGroups, fpc, peer, crossed>>
  BY DEF FriendAccept, FriendReject, FriendRemove, Block, Unblock
<1>3. CASE FriendAccept(c, u)
  BY <1>1, <1>2, <1>3 DEF FTypeOK, FriendAccept, acceptFriendRequest
<1>4. CASE FriendReject(c, u)
  BY <1>1, <1>2, <1>4 DEF FTypeOK, FriendReject, rejectFriendRequest
<1>5. CASE FriendRemove(c, u)
  BY <1>1, <1>2, <1>5 DEF FTypeOK, FriendRemove, removeFriend
<1>6. CASE Block(c, u)
  BY <1>1, <1>2, <1>6 DEF FTypeOK, Block, blockUser
<1>7. CASE Unblock(c, u)
  BY <1>1, <1>2, <1>7 DEF FTypeOK, Unblock, unblockUser
<1>8. QED
  BY <1>3, <1>4, <1>5, <1>6, <1>7

LEMMA FileType ==
    ASSUME FTypeOK, NEW c \in Conns, NEW named \in BOOLEAN, setContactGroup(c, named)
    PROVE  FTypeOK'
<1>1. Owner[c] \in Users /\ peer[c] \in Users
  BY HandlersAssumption DEF FTypeOK, setContactGroup
<1>2. <<Owner[c], peer[c]>> \in Pairs
  BY <1>1, PairFacts
<1>3. contactGroups' \subseteq Pairs
  BY <1>2 DEF FTypeOK, setContactGroup
<1>4. QED
  BY <1>3, DoneType DEF FTypeOK, setContactGroup

LEMMA DeleteType ==
    ASSUME FTypeOK, NEW u \in Users, deleteAccount(u)
    PROVE  FTypeOK'
<1>1. friends' \in [Pairs -> {"none", "pending", "accepted"}]
  BY DEF FTypeOK, deleteAccount
<1>2. QED
  BY <1>1 DEF FTypeOK, deleteAccount

LEMMA FTypeStep == FTypeOK /\ [FNext]_fvars => FTypeOK'
<1> SUFFICES ASSUME FTypeOK, [FNext]_fvars PROVE FTypeOK'
  OBVIOUS
<1>1. CASE UNCHANGED fvars
  BY <1>1 DEF FTypeOK, fvars
<1>2. ASSUME NEW u \in Users, deleteAccount(u) PROVE FTypeOK'
  BY <1>2, DeleteType
<1>3. ASSUME NEW c \in Conns, FHandler(c) PROVE FTypeOK'
  BY <1>3, RequestType, CountType, InsertType, StatementType, FileType DEF FHandler
<1>4. QED
  BY <1>1, <1>2, <1>3 DEF FNext

\* The tables, and what the handlers of the friend messages keep while they
\* are under way, have their types.
THEOREM FriendsTypes == FSpec => []FTypeOK
BY FTypeInit, FTypeStep, PTL DEF FSpec

-----------------------------------------------------------------------------
(* Two rows for one pair. *)

\* Two handlers that both found no row for a pair make it a crossed one, ...
OverlapNoted ==
    \A c, d \in Conns :
        c # d /\ fpc[c] = "insert" /\ fpc[d] = "insert"
        /\ {Owner[c], peer[c]} = {Owner[d], peer[d]}
        => {Owner[c], peer[c]} \in crossed

\* ... so a handler about to insert finds a row only for a crossed pair.
LateRowNoted ==
    \A c \in Conns :
        fpc[c] = "insert" /\ requestExists(Owner[c], peer[c])
        => {Owner[c], peer[c]} \in crossed

RowsInv == FTypeOK /\ OverlapNoted /\ LateRowNoted /\ TwoRowsOnlyWhenCrossed

LEMMA RowsInit == FInit => RowsInv
<1> SUFFICES ASSUME FInit PROVE RowsInv
  OBVIOUS
<1>1. FTypeOK
  BY FTypeInit
<1>2. OverlapNoted /\ LateRowNoted
  BY DEF FInit, OverlapNoted, LateRowNoted
<1>3. TwoRowsOnlyWhenCrossed
  BY PairFacts DEF FInit, TwoRowsOnlyWhenCrossed
<1>4. QED
  BY <1>1, <1>2, <1>3 DEF RowsInv

\* A step that adds no row, brings no handler to its INSERT and forgets no
\* crossing keeps them.
LEMMA NoNewRow ==
    ASSUME RowsInv, FTypeOK',
           crossed \subseteq crossed',
           \A p \in Pairs : friends'[p] # "none" => friends[p] # "none",
           \A c \in Conns : fpc'[c] = "insert" => fpc[c] = "insert" /\ peer'[c] = peer[c]
    PROVE  RowsInv'
<1>1. OverlapNoted'
  BY DEF RowsInv, OverlapNoted
<1>2. LateRowNoted'
  <2> SUFFICES ASSUME NEW c \in Conns, fpc'[c] = "insert",
                      requestExists(Owner[c], peer[c])'
               PROVE  {Owner[c], peer'[c]} \in crossed'
    BY DEF LateRowNoted
  <2>1. fpc[c] = "insert" /\ peer'[c] = peer[c] /\ Owner[c] \in Users /\ peer[c] \in Users
    BY HandlersAssumption DEF RowsInv, FTypeOK
  <2>2. <<Owner[c], peer[c]>> \in Pairs /\ <<peer[c], Owner[c]>> \in Pairs
    BY <2>1, PairFacts
  <2>3. requestExists(Owner[c], peer[c])
    BY <2>1, <2>2 DEF requestExists
  <2>4. QED
    BY <2>1, <2>3 DEF RowsInv, LateRowNoted
<1>3. TwoRowsOnlyWhenCrossed'
  BY PairFacts DEF RowsInv, TwoRowsOnlyWhenCrossed
<1>4. QED
  BY <1>1, <1>2, <1>3 DEF RowsInv

LEMMA CountRows ==
    ASSUME RowsInv, NEW c \in Conns, RequestCount(c)
    PROVE  RowsInv'
<1>0. FTypeOK /\ FTypeOK'
  BY CountType DEF RowsInv
<1>1. CASE requestExists(Owner[c], peer[c])
  <2>1. UNCHANGED <<friends, crossed>> /\ fpc' = [fpc EXCEPT ![c] = "read"]
        /\ peer' = [peer EXCEPT ![c] = NoUser]
    BY <1>1 DEF RequestCount, done
  <2>2. \A d \in Conns : fpc'[d] = "insert" => fpc[d] = "insert" /\ peer'[d] = peer[d]
    BY <1>0, <2>1 DEF FTypeOK
  <2>3. QED
    BY <1>0, <2>1, <2>2, NoNewRow
<1>2. CASE ~requestExists(Owner[c], peer[c])
  <2>1. UNCHANGED <<friends, peer>> /\ fpc' = [fpc EXCEPT ![c] = "insert"]
        /\ crossed \subseteq crossed'
    BY <1>2 DEF RequestCount
  <2>2. \A d \in Conns : fpc[d] = "insert" /\ {Owner[d], peer[d]} = {Owner[c], peer[c]}
                         => {Owner[c], peer[c]} \in crossed'
    BY <1>2 DEF RequestCount, aboutToAsk
  <2>3. \A d \in Conns : d # c /\ fpc'[d] = "insert" => fpc[d] = "insert"
    BY <1>0, <2>1 DEF FTypeOK
  <2>4. OverlapNoted'
    BY <2>1, <2>2, <2>3 DEF RowsInv, OverlapNoted
  <2>5. LateRowNoted'
    BY <1>2, <2>1, <2>3 DEF RowsInv, LateRowNoted, requestExists
  <2>6. TwoRowsOnlyWhenCrossed'
    BY <2>1 DEF RowsInv, TwoRowsOnlyWhenCrossed
  <2>7. QED
    BY <1>0, <2>4, <2>5, <2>6 DEF RowsInv
<1>3. QED
  BY <1>1, <1>2

LEMMA InsertRows ==
    ASSUME RowsInv, NEW c \in Conns, RequestInsert(c)
    PROVE  RowsInv'
<1>0. FTypeOK /\ FTypeOK' /\ crossed' = crossed
  BY InsertType DEF RowsInv, RequestInsert
<1>1. fpc[c] = "insert" /\ fpc' = [fpc EXCEPT ![c] = "read"] /\ peer' = [peer EXCEPT ![c] = NoUser]
  BY DEF RequestInsert, done
<1>2. \A d \in Conns : fpc'[d] = "insert" => d # c /\ fpc[d] = "insert" /\ peer'[d] = peer[d]
  BY <1>0, <1>1 DEF FTypeOK
<1>3. CASE UNCHANGED friends
  BY <1>0, <1>2, <1>3, NoNewRow
<1>4. CASE friends' = [friends EXCEPT ![<<Owner[c], peer[c]>>] = "pending"]
  <2>1. Owner[c] \in Users /\ peer[c] \in Users
    BY <1>0, <1>1, HandlersAssumption DEF FTypeOK
  <2>2. <<Owner[c], peer[c]>> \in Pairs /\ <<peer[c], Owner[c]>> \in Pairs
    BY <2>1, PairFacts
  <2>3. \A p \in Pairs : friends'[p] # "none" => friends[p] # "none" \/ p = <<Owner[c], peer[c]>>
    BY <1>0, <1>4, <2>2 DEF FTypeOK
  <2>4. OverlapNoted'
    BY <1>0, <1>2 DEF RowsInv, OverlapNoted
  <2>5. LateRowNoted'
    <3> SUFFICES ASSUME NEW d \in Conns, fpc'[d] = "insert", requestExists(Owner[d], peer[d])'
                 PROVE  {Owner[d], peer'[d]} \in crossed'
      BY DEF LateRowNoted
    <3>1. d # c /\ fpc[d] = "insert" /\ peer'[d] = peer[d] /\ Owner[d] \in Users /\ peer[d] \in Users
      BY <1>0, <1>2, HandlersAssumption DEF FTypeOK
    <3>2. <<Owner[d], peer[d]>> \in Pairs /\ <<peer[d], Owner[d]>> \in Pairs
      BY <3>1, PairFacts
    <3>3. CASE requestExists(Owner[d], peer[d])
      BY <1>0, <3>1, <3>3 DEF RowsInv, LateRowNoted
    <3>4. CASE ~requestExists(Owner[d], peer[d])
      <4>1. <<Owner[d], peer[d]>> = <<Owner[c], peer[c]>> \/ <<peer[d], Owner[d]>> = <<Owner[c], peer[c]>>
        BY <2>3, <3>1, <3>2, <3>4 DEF requestExists
      <4>2. {Owner[d], peer[d]} = {Owner[c], peer[c]}
        BY <4>1
      <4>3. QED
        BY <1>0, <1>1, <3>1, <4>2 DEF RowsInv, OverlapNoted
    <3>5. QED
      BY <3>3, <3>4
  <2>6. TwoRowsOnlyWhenCrossed'
    <3> SUFFICES ASSUME NEW a \in Users, NEW b \in Users, a # b,
                        friends'[<<a, b>>] # "none", friends'[<<b, a>>] # "none"
                 PROVE  {a, b} \in crossed'
      BY DEF TwoRowsOnlyWhenCrossed
    <3>1. <<a, b>> \in Pairs /\ <<b, a>> \in Pairs
      BY PairFacts
    <3>2. CASE friends[<<a, b>>] # "none" /\ friends[<<b, a>>] # "none"
      BY <1>0, <3>2 DEF RowsInv, TwoRowsOnlyWhenCrossed
    <3>3. CASE friends[<<a, b>>] = "none"
      <4>1. a = Owner[c] /\ b = peer[c]
        BY <2>3, <3>1, <3>3
      <4>2. friends[<<b, a>>] # "none"
        BY <2>3, <3>1, <4>1
      <4>3. requestExists(Owner[c], peer[c])
        BY <4>1, <4>2 DEF requestExists
      <4>4. QED
        BY <1>0, <1>1, <4>1, <4>3 DEF RowsInv, LateRowNoted
    <3>4. CASE friends[<<b, a>>] = "none"
      <4>1. b = Owner[c] /\ a = peer[c]
        BY <2>3, <3>1, <3>4
      <4>2. friends[<<a, b>>] # "none"
        BY <2>3, <3>1, <4>1
      <4>3. requestExists(Owner[c], peer[c])
        BY <4>1, <4>2 DEF requestExists
      <4>4. {Owner[c], peer[c]} = {a, b}
        BY <4>1
      <4>5. QED
        BY <1>0, <1>1, <4>4, <4>3 DEF RowsInv, LateRowNoted
    <3>5. QED
      BY <3>2, <3>3, <3>4
  <2>7. QED
    BY <1>0, <2>4, <2>5, <2>6 DEF RowsInv
<1>5. QED
  BY <1>3, <1>4 DEF RequestInsert

\* The other handlers only take rows away, or change the status of one.
LEMMA OtherRows ==
    ASSUME RowsInv, NEW c \in Conns, FHandler(c), ~RequestCount(c), ~RequestInsert(c)
    PROVE  RowsInv'
<1>0. FTypeOK /\ FTypeOK'
  BY FTypeStep DEF RowsInv, FNext
<1>1. ASSUME NEW u \in Users, FriendRequest(c, u) \/ ContactGroupSet(c, u) PROVE RowsInv'
  <2>1. UNCHANGED <<friends, crossed>> /\ peer' = [peer EXCEPT ![c] = u]
        /\ (fpc' = [fpc EXCEPT ![c] = "count"] \/ fpc' = [fpc EXCEPT ![c] = "file"])
    BY <1>1 DEF FriendRequest, ContactGroupSet
  <2>2. \A d \in Conns : fpc'[d] = "insert" => fpc[d] = "insert" /\ peer'[d] = peer[d]
    BY <1>0, <2>1 DEF FTypeOK
  <2>3. QED
    BY <1>0, <2>1, <2>2, NoNewRow
<1>2. ASSUME NEW u \in Users,
             FriendAccept(c, u) \/ FriendReject(c, u) \/ FriendRemove(c, u)
             \/ Block(c, u) \/ Unblock(c, u)
      PROVE  RowsInv'
  <2>1. <<Owner[c], u>> \in Pairs /\ <<u, Owner[c]>> \in Pairs
    BY <1>2, NamedFacts DEF FriendAccept, FriendReject, FriendRemove, Block, Unblock
  <2>2. UNCHANGED <<fpc, peer, crossed>>
    BY <1>2 DEF FriendAccept, FriendReject, FriendRemove, Block, Unblock
  <2>3. CASE FriendAccept(c, u)
    <3>1. \A p \in Pairs : friends'[p] # "none" => friends[p] # "none"
      BY <1>0, <2>1, <2>3 DEF FTypeOK, FriendAccept, acceptFriendRequest
    <3>2. QED
      BY <1>0, <2>2, <3>1, NoNewRow
  <2>4. CASE FriendReject(c, u)
    <3>1. \A p \in Pairs : friends'[p] # "none" => friends[p] # "none"
      BY <1>0, <2>1, <2>4 DEF FTypeOK, FriendReject, rejectFriendRequest
    <3>2. QED
      BY <1>0, <2>2, <3>1, NoNewRow
  <2>5. CASE FriendRemove(c, u)
    <3>1. \A p \in Pairs : friends'[p] # "none" => friends[p] # "none"
      BY <1>0, <2>1, <2>5 DEF FTypeOK, FriendRemove, removeFriend
    <3>2. QED
      BY <1>0, <2>2, <3>1, NoNewRow
  <2>6. CASE Block(c, u) \/ Unblock(c, u)
    <3>1. UNCHANGED friends
      BY <2>6 DEF Block, Unblock
    <3>2. QED
      BY <1>0, <2>2, <3>1, NoNewRow
  <2>7. QED
    BY <1>2, <2>3, <2>4, <2>5, <2>6
<1>3. ASSUME NEW named \in BOOLEAN, setContactGroup(c, named) PROVE RowsInv'
  <2>1. UNCHANGED <<friends, crossed>> /\ fpc' = [fpc EXCEPT ![c] = "read"]
        /\ peer' = [peer EXCEPT ![c] = NoUser]
    BY <1>3 DEF setContactGroup, done
  <2>2. \A d \in Conns : fpc'[d] = "insert" => fpc[d] = "insert" /\ peer'[d] = peer[d]
    BY <1>0, <2>1 DEF FTypeOK
  <2>3. QED
    BY <1>0, <2>1, <2>2, NoNewRow
<1>4. QED
  BY <1>1, <1>2, <1>3 DEF FHandler

LEMMA RowsStep == RowsInv /\ [FNext]_fvars => RowsInv'
<1> SUFFICES ASSUME RowsInv, [FNext]_fvars PROVE RowsInv'
  OBVIOUS
<1>0. FTypeOK /\ FTypeOK'
  BY FTypeStep DEF RowsInv
<1>1. CASE UNCHANGED fvars
  BY <1>0, <1>1, NoNewRow DEF fvars
<1>2. ASSUME NEW u \in Users, deleteAccount(u) PROVE RowsInv'
  <2>1. UNCHANGED <<fpc, peer, crossed>>
    BY <1>2 DEF deleteAccount
  <2>2. \A p \in Pairs : friends'[p] # "none" => friends[p] # "none"
    BY <1>2 DEF deleteAccount
  <2>3. QED
    BY <1>0, <2>1, <2>2, NoNewRow
<1>3. ASSUME NEW c \in Conns, FHandler(c) PROVE RowsInv'
  BY <1>3, CountRows, InsertRows, OtherRows
<1>4. QED
  BY <1>1, <1>2, <1>3 DEF FNext

\* sendFriendRequest misses a row only when two requests for the same pair
\* are under way together, however many connections a user has.
THEOREM RowsCrossOnlyTogether == FSpec => []TwoRowsOnlyWhenCrossed
<1>1. RowsInv => TwoRowsOnlyWhenCrossed
  BY DEF RowsInv
<1>2. QED
  BY <1>1, RowsInit, RowsStep, PTL DEF FSpec

\* The types and the rows together.
THEOREM FriendsKept == FSpec => []FriendsSafe
BY FriendsTypes, RowsCrossOnlyTogether, PTL DEF FriendsSafe

-----------------------------------------------------------------------------
(* The tables implement Friendship. *)

\* A request that can be accepted is one its sender still stands by.
PendingIsMeant == \A p \in Pairs : friends[p] = "pending" => p \in wants

MeantInv == FTypeOK /\ PendingIsMeant

LEMMA MeantInit == FInit => MeantInv
<1> SUFFICES ASSUME FInit PROVE MeantInv
  OBVIOUS
<1>1. PendingIsMeant
  BY DEF FInit, PendingIsMeant
<1>2. QED
  BY <1>1, FTypeInit DEF MeantInv

\* The abstract steps, in the words of the tables.
AStep == [Abstract!Next]_<<wants, friendPairs>>

\* Friends are the pairs with an accepted row.
LEMMA FriendPairsFact ==
    ASSUME NEW a \in Users, NEW b \in Users
    PROVE  {a, b} \in friendPairs <=> areFriends(a, b)
<1>1. <<a, b>> \in Pairs /\ <<b, a>> \in Pairs
  BY PairFacts
<1>2. ASSUME {a, b} \in friendPairs PROVE areFriends(a, b)
  <2>1. PICK p \in Pairs : friends[p] = "accepted" /\ {a, b} = {p[1], p[2]}
    BY <1>2 DEF friendPairs
  <2>2. p = <<a, b>> \/ p = <<b, a>>
    BY <2>1, SamePair DEF Pairs
  <2>3. QED
    BY <2>1, <2>2 DEF areFriends
<1>3. ASSUME areFriends(a, b) PROVE {a, b} \in friendPairs
  <2>1. PICK p \in Pairs : friends[p] = "accepted" /\ (p = <<a, b>> \/ p = <<b, a>>)
    BY <1>1, <1>3 DEF areFriends
  <2>2. {p[1], p[2]} = {a, b}
    BY <2>1
  <2>3. QED
    BY <2>1, <2>2 DEF friendPairs
<1>4. QED
  BY <1>2, <1>3

\* Every one of them is a pair of users.
LEMMA FriendPairsType ==
    ASSUME NEW s \in friendPairs
    PROVE  \E a, b \in Users : s = {a, b}
BY DEF friendPairs, Pairs

\* Nobody's friends change where no row becomes or ceases to be accepted.
LEMMA SameFriends ==
    ASSUME \A p \in Pairs : friends'[p] = "accepted" <=> friends[p] = "accepted"
    PROVE  friendPairs' = friendPairs
BY DEF friendPairs

LEMMA InsertMeant ==
    ASSUME MeantInv, NEW c \in Conns, RequestInsert(c)
    PROVE  PendingIsMeant' /\ AStep
<1>0. FTypeOK /\ PendingIsMeant
  BY DEF MeantInv
<1>1. Owner[c] \in Users /\ peer[c] \in Users
  BY <1>0, HandlersAssumption DEF FTypeOK, RequestInsert
<1>2. <<Owner[c], peer[c]>> \in Pairs
  BY <1>1, PairFacts
<1>3. CASE UNCHANGED <<friends, wants>>
  <2>1. friendPairs' = friendPairs
    BY <1>3, SameFriends
  <2>2. QED
    BY <1>0, <1>3, <2>1 DEF PendingIsMeant, AStep
<1>4. CASE /\ friends[<<Owner[c], peer[c]>>] = "none"
           /\ friends' = [friends EXCEPT ![<<Owner[c], peer[c]>>] = "pending"]
           /\ wants' = wants \cup {<<Owner[c], peer[c]>>}
  <2>1. PendingIsMeant'
    BY <1>0, <1>2, <1>4 DEF PendingIsMeant, FTypeOK
  <2>2. \A p \in Pairs : friends'[p] = "accepted" <=> friends[p] = "accepted"
    BY <1>0, <1>2, <1>4 DEF FTypeOK
  <2>3. friendPairs' = friendPairs
    BY <2>2, SameFriends
  <2>4. Abstract!Ask(Owner[c], peer[c])
    BY <1>4, <2>3 DEF Abstract!Ask
  <2>5. QED
    BY <1>1, <2>1, <2>4 DEF AStep, Abstract!Next
<1>5. QED
  BY <1>3, <1>4 DEF RequestInsert

LEMMA AcceptMeant ==
    ASSUME MeantInv, NEW c \in Conns, NEW u \in Users, FriendAccept(c, u)
    PROVE  PendingIsMeant' /\ AStep
<1>0. FTypeOK /\ PendingIsMeant
  BY DEF MeantInv
<1>1. Owner[c] \in Users /\ <<Owner[c], u>> \in Pairs /\ <<u, Owner[c]>> \in Pairs
  BY NamedFacts DEF FriendAccept
<1>2. friends[<<u, Owner[c]>>] = "pending" /\ wants' = wants \cup {<<Owner[c], u>>}
      /\ friends' = [friends EXCEPT ![<<u, Owner[c]>>] = "accepted"]
  BY DEF FriendAccept, acceptFriendRequest
<1>3. PendingIsMeant'
  BY <1>0, <1>1, <1>2 DEF PendingIsMeant, FTypeOK
<1>4. {q \in Pairs : friends'[q] = "accepted"}
        = {q \in Pairs : friends[q] = "accepted"} \cup {<<u, Owner[c]>>}
  BY <1>0, <1>1, <1>2 DEF FTypeOK
<1>5. friendPairs' = friendPairs \cup {{Owner[c], u}}
  <2>1. friendPairs' = {{p[1], p[2]} : p \in {q \in Pairs : friends'[q] = "accepted"}}
    BY DEF friendPairs
  <2>2. friendPairs = {{p[1], p[2]} : p \in {q \in Pairs : friends[q] = "accepted"}}
    BY DEF friendPairs
  <2>3. {<<u, Owner[c]>>[1], <<u, Owner[c]>>[2]} = {Owner[c], u}
    OBVIOUS
  <2>4. QED
    BY <1>4, <2>1, <2>2, <2>3
<1>6. Abstract!Agree(Owner[c], u)
  BY <1>0, <1>1, <1>2, <1>5 DEF PendingIsMeant, Abstract!Agree
<1>7. QED
  BY <1>1, <1>3, <1>6 DEF AStep, Abstract!Next

LEMMA RejectMeant ==
    ASSUME MeantInv, NEW c \in Conns, NEW u \in Users, FriendReject(c, u)
    PROVE  PendingIsMeant' /\ AStep
<1>0. FTypeOK /\ PendingIsMeant
  BY DEF MeantInv
<1>1. Owner[c] \in Users /\ <<u, Owner[c]>> \in Pairs
  BY NamedFacts DEF FriendReject
<1>2. friends[<<u, Owner[c]>>] = "pending"
      /\ friends' = [friends EXCEPT ![<<u, Owner[c]>>] = "none"]
      /\ wants' = IF areFriends(u, Owner[c]) THEN wants ELSE wants \ {<<u, Owner[c]>>}
  BY DEF FriendReject, rejectFriendRequest
<1>3. PendingIsMeant'
  <2>1. \A p \in Pairs : friends'[p] = "pending" => p # <<u, Owner[c]>> /\ friends[p] = "pending"
    BY <1>0, <1>1, <1>2 DEF FTypeOK
  <2>2. \A p \in Pairs : p # <<u, Owner[c]>> /\ p \in wants => p \in wants'
    BY <1>2
  <2>3. QED
    BY <1>0, <2>1, <2>2 DEF PendingIsMeant
<1>4. \A p \in Pairs : friends'[p] = "accepted" <=> friends[p] = "accepted"
  BY <1>0, <1>1, <1>2 DEF FTypeOK
<1>5. friendPairs' = friendPairs
  BY <1>4, SameFriends
<1>6. CASE areFriends(u, Owner[c])
  BY <1>2, <1>3, <1>5, <1>6 DEF AStep
<1>7. CASE ~areFriends(u, Owner[c])
  <2>1. {u, Owner[c]} \notin friendPairs
    BY <1>1, <1>7, FriendPairsFact
  <2>2. Abstract!Decline(u, Owner[c])
    BY <1>2, <1>5, <1>7, <2>1 DEF Abstract!Decline
  <2>3. QED
    BY <1>1, <1>3, <2>2 DEF AStep, Abstract!Next
<1>8. QED
  BY <1>6, <1>7

LEMMA RemoveMeant ==
    ASSUME MeantInv, NEW c \in Conns, NEW u \in Users, FriendRemove(c, u)
    PROVE  PendingIsMeant' /\ AStep
<1>0. FTypeOK /\ PendingIsMeant
  BY DEF MeantInv
<1>1. Owner[c] \in Users /\ <<Owner[c], u>> \in Pairs /\ <<u, Owner[c]>> \in Pairs
  BY NamedFacts DEF FriendRemove
<1>2. wants' = wants \ {<<Owner[c], u>>, <<u, Owner[c]>>}
      /\ friends' = [friends EXCEPT ![<<Owner[c], u>>] = "none", ![<<u, Owner[c]>>] = "none"]
  BY DEF FriendRemove, removeFriend
<1>3. \A p \in Pairs : friends'[p] = IF p \in {<<Owner[c], u>>, <<u, Owner[c]>>} THEN "none" ELSE friends[p]
  BY <1>0, <1>1, <1>2 DEF FTypeOK
<1>4. PendingIsMeant'
  BY <1>0, <1>2, <1>3 DEF PendingIsMeant
<1>5. friendPairs' = friendPairs \ {{Owner[c], u}}
  <2>1. ASSUME NEW s \in friendPairs' PROVE s \in friendPairs \ {{Owner[c], u}}
    <3>1. PICK p \in Pairs : friends'[p] = "accepted" /\ s = {p[1], p[2]}
      BY <2>1 DEF friendPairs
    <3>2. p \notin {<<Owner[c], u>>, <<u, Owner[c]>>} /\ friends[p] = "accepted"
      BY <1>3, <3>1
    <3>3. s # {Owner[c], u}
      BY <3>1, <3>2, SamePair DEF Pairs
    <3>4. QED
      BY <3>1, <3>2, <3>3 DEF friendPairs
  <2>2. ASSUME NEW s \in friendPairs, s # {Owner[c], u} PROVE s \in friendPairs'
    <3>1. PICK p \in Pairs : friends[p] = "accepted" /\ s = {p[1], p[2]}
      BY <2>2 DEF friendPairs
    <3>2. p \notin {<<Owner[c], u>>, <<u, Owner[c]>>}
      BY <2>2, <3>1
    <3>3. friends'[p] = "accepted"
      BY <1>3, <3>1, <3>2
    <3>4. QED
      BY <3>1, <3>3 DEF friendPairs
  <2>3. QED
    BY <2>1, <2>2
<1>6. Abstract!Part(Owner[c], u)
  BY <1>2, <1>5 DEF Abstract!Part
<1>7. QED
  BY <1>1, <1>4, <1>6 DEF AStep, Abstract!Next

LEMMA DeleteMeant ==
    ASSUME MeantInv, NEW u \in Users, deleteAccount(u)
    PROVE  PendingIsMeant' /\ AStep
<1>0. FTypeOK /\ PendingIsMeant
  BY DEF MeantInv
<1>1. \A p \in Pairs : friends'[p] = IF u \in {p[1], p[2]} THEN "none" ELSE friends[p]
  BY DEF deleteAccount
<1>2. wants' = {p \in wants : u \notin {p[1], p[2]}}
  BY DEF deleteAccount
<1>3. PendingIsMeant'
  BY <1>0, <1>1, <1>2 DEF PendingIsMeant
<1>4. friendPairs' = {s \in friendPairs : u \notin s}
  <2>1. ASSUME NEW s \in friendPairs' PROVE s \in friendPairs /\ u \notin s
    <3>1. PICK p \in Pairs : friends'[p] = "accepted" /\ s = {p[1], p[2]}
      BY <2>1 DEF friendPairs
    <3>2. u \notin {p[1], p[2]} /\ friends[p] = "accepted"
      BY <1>1, <3>1
    <3>3. QED
      BY <3>1, <3>2 DEF friendPairs
  <2>2. ASSUME NEW s \in friendPairs, u \notin s PROVE s \in friendPairs'
    <3>1. PICK p \in Pairs : friends[p] = "accepted" /\ s = {p[1], p[2]}
      BY <2>2 DEF friendPairs
    <3>2. friends'[p] = "accepted"
      BY <1>1, <2>2, <3>1
    <3>3. QED
      BY <3>1, <3>2 DEF friendPairs
  <2>3. QED
    BY <2>1, <2>2
<1>5. wants' = {w \in wants : u # w[1] /\ u # w[2]}
  BY <1>2
<1>6. Abstract!Erase(u)
  BY <1>4, <1>5 DEF Abstract!Erase
<1>7. QED
  BY <1>3, <1>6 DEF AStep, Abstract!Next

\* A step that touches neither the rows nor the intentions is a stutter.
LEMMA QuietMeant ==
    ASSUME MeantInv, UNCHANGED <<friends, wants>>
    PROVE  PendingIsMeant' /\ AStep
<1>1. friendPairs' = friendPairs
  BY SameFriends
<1>2. QED
  BY <1>1 DEF MeantInv, PendingIsMeant, AStep

LEMMA MeantStep == MeantInv /\ [FNext]_fvars => MeantInv' /\ AStep
<1> SUFFICES ASSUME MeantInv, [FNext]_fvars PROVE MeantInv' /\ AStep
  OBVIOUS
<1>0. FTypeOK'
  BY FTypeStep DEF MeantInv
<1>1. CASE UNCHANGED fvars
  BY <1>0, <1>1, QuietMeant DEF fvars, MeantInv
<1>2. ASSUME NEW u \in Users, deleteAccount(u) PROVE MeantInv' /\ AStep
  BY <1>0, <1>2, DeleteMeant DEF MeantInv
<1>3. ASSUME NEW c \in Conns, FHandler(c) PROVE MeantInv' /\ AStep
  <2>1. CASE RequestInsert(c)
    BY <1>0, <2>1, InsertMeant DEF MeantInv
  <2>2. ASSUME NEW u \in Users, FriendAccept(c, u) \/ FriendReject(c, u) \/ FriendRemove(c, u)
        PROVE  MeantInv' /\ AStep
    BY <1>0, <2>2, AcceptMeant, RejectMeant, RemoveMeant DEF MeantInv
  <2>3. ASSUME NEW u \in Users, FriendRequest(c, u) \/ Block(c, u) \/ Unblock(c, u) \/ ContactGroupSet(c, u)
        PROVE  MeantInv' /\ AStep
    <3>1. UNCHANGED <<friends, wants>>
      BY <2>3 DEF FriendRequest, Block, Unblock, ContactGroupSet
    <3>2. QED
      BY <1>0, <3>1, QuietMeant DEF MeantInv
  <2>4. ASSUME RequestCount(c) \/ \E named \in BOOLEAN : setContactGroup(c, named)
        PROVE  MeantInv' /\ AStep
    <3>1. UNCHANGED <<friends, wants>>
      BY <2>4 DEF RequestCount, setContactGroup
    <3>2. QED
      BY <1>0, <3>1, QuietMeant DEF MeantInv
  <2>5. QED
    BY <1>3, <2>1, <2>2, <2>3, <2>4 DEF FHandler
<1>4. QED
  BY <1>1, <1>2, <1>3 DEF FNext

\* The friends table, with its directional rows, its look-then-insert and its
\* refused statements, implements friendship as Friendship states it.
THEOREM FriendsImplementFriendship == FSpec => FriendshipKept
<1>1. FInit => Abstract!Init
  <2> SUFFICES ASSUME FInit PROVE Abstract!Init
    OBVIOUS
  <2>1. friendPairs = {}
    BY DEF FInit, friendPairs
  <2>2. QED
    BY <2>1 DEF FInit, Abstract!Init
<1>2. QED
  BY <1>1, MeantInit, MeantStep, PTL DEF FSpec, FriendshipKept, Abstract!Spec, AStep

-----------------------------------------------------------------------------
(* Group conversations. *)

\* Before the rows of the group are there nobody has heard of it, and one
\* handler at most is about to insert them.
CreateInv ==
    /\ \A c, d \in Conns : gpc[c] = "create" /\ gpc[d] = "create" => c = d
    /\ \A c \in Conns : gpc[c] = "create" => creator = NoUser
    /\ creator = NoUser =>
           convoName = FirstName /\ \A c \in Conns : gpc[c] \in {"read", "create"} /\ view[c] = NoView

\* What a handler's message was about, and the name it has when it set none.
ArgInv ==
    \A c \in Conns :
        /\ gpc[c] \notin {"readRenamed", "tellUpdated"} => carried[c] = FirstName
        /\ gpc[c] \in {"leave", "readLeft", "tellLeft"} => arg[c] = {Owner[c]}
        /\ gpc[c] \in {"remove", "removed"} => \E u \in Users : arg[c] = {u}

\* The list of a message, against what became of the members since.
MessageInv ==
    \A c \in Conns : gpc[c] \in {"store", "fanout"} => list[c] \subseteq sometime[c] /\ throughout[c] \subseteq list[c]

\* The client shows nothing, or is one nobody told that its user left.
off(d) == view[d] = NoView \/ d \in ghosts

right == [name |-> convoName, members |-> memberRows]

\* What the clients show while the handler of k, alone, changes the group.
StageInv(k) ==
    /\ gpc[k] \in {"create", "add", "remove", "rename"} => \A d \in Conns : knows(d)
    /\ gpc[k] = "leave" => \A d \in Conns : IF Owner[d] = Owner[k] THEN off(d) ELSE knows(d)
    /\ gpc[k] \in {"readLeft", "tellLeft"} =>
           /\ Owner[k] \notin memberRows
           /\ \A d \in Conns : Owner[d] \in memberRows =>
                  \E M \in SUBSET Users : view[d] = [name |-> convoName, members |-> M] /\ M \ {Owner[k]} = memberRows
    /\ gpc[k] = "removed" => arg[k] \cap memberRows = {}
    /\ gpc[k] \in {"readLeft", "tellLeft", "removed", "readUpdated", "readRenamed", "tellUpdated", "readCreated", "tellCreated"} =>
           \A d \in Conns : Owner[d] \notin memberRows => off(d) \/ (gpc[k] = "removed" /\ Owner[d] \in arg[k])
    /\ gpc[k] \in {"readCreated", "tellCreated"} =>
           /\ convoName = FirstName
           /\ \A d \in Conns : Owner[d] \in memberRows => view[d] \in {NoView, right}
    /\ gpc[k] \in {"readRenamed", "tellUpdated"} => carried[k] = convoName
    /\ gpc[k] \in {"tellCreated", "tellUpdated", "tellLeft"} => list[k] = memberRows

ViewInv ==
    ~overlap /\ ~failed =>
        /\ \A c, d \in Conns : gpc[c] \in Changing /\ gpc[d] \in Changing => c = d
        /\ (\A c \in Conns : gpc[c] \notin Changing) => \A d \in Conns : knows(d)
        /\ \A k \in Conns : StageInv(k)

GroupsInv == GTypeOK /\ CreateInv /\ ArgInv /\ MessageInv /\ ViewInv

-----------------------------------------------------------------------------
GLabels == {"read", "store", "fanout"} \cup Changing

LEMMA GroupsInit == GInit => GroupsInv
<1> SUFFICES ASSUME GInit PROVE GroupsInv
  OBVIOUS
<1>1. GTypeOK
  <2>1. changes \in 0..MaxChanges
    BY GroupsAssumption DEF GInit
  <2>2. friendship \subseteq SUBSET Users
    BY GroupsAssumption DEF GInit
  <2>3. QED
    BY <2>1, <2>2, GroupsAssumption DEF GInit, GTypeOK, Views
<1>2. CreateInv /\ ArgInv /\ MessageInv
  BY DEF GInit, CreateInv, ArgInv, MessageInv
<1>3. \A c \in Conns : knows(c) /\ StageInv(c) /\ gpc[c] \notin Changing
  BY DEF GInit, knows, StageInv, Changing
<1>4. ViewInv
  BY <1>3 DEF ViewInv
<1>5. QED
  BY <1>1, <1>2, <1>4 DEF GroupsInv

LEMMA GOwnerFacts ==
    ASSUME NEW c \in Conns
    PROVE  Owner[c] \in Users /\ Owner[c] # NoUser
BY HandlersAssumption

LEMMA GStepFacts ==
    ASSUME GTypeOK, NEW c \in Conns, NEW from, NEW to \in GLabels, step(c, from, to)
    PROVE  /\ gpc[c] = from /\ gpc'[c] = to
           /\ \A d \in Conns \ {c} : gpc'[d] = gpc[d]
           /\ gpc' \in [Conns -> GLabels]
BY DEF step, GTypeOK, GLabels

LEMMA FinishFacts ==
    ASSUME GTypeOK, NEW c \in Conns, NEW from, finish(c, from)
    PROVE  /\ gpc[c] = from /\ gpc'[c] = "read" /\ carried'[c] = FirstName
           /\ \A d \in Conns \ {c} : gpc'[d] = gpc[d] /\ arg'[d] = arg[d] /\ list'[d] = list[d] /\ carried'[d] = carried[d]
           /\ gpc' \in [Conns -> GLabels] /\ arg' \in [Conns -> SUBSET Users]
           /\ list' \in [Conns -> SUBSET Users] /\ carried' \in [Conns -> Names]
<1>1. "read" \in GLabels
  BY DEF GLabels
<1>2. QED
  BY <1>1, GStepFacts, GroupsAssumption DEF finish, GTypeOK

LEMMA KnowsSame ==
    ASSUME UNCHANGED <<convoName, memberRows, view, ghosts>>, NEW d
    PROVE  (knows(d)' <=> knows(d)) /\ (off(d)' <=> off(d)) /\ right' = right
BY DEF knows, off, right

\* Once the rows are there somebody has created the group.
LEMMA Created == GroupsInv => (memberRows # {} => creator # NoUser)
BY DEF GroupsInv, GTypeOK

\* The stage of a handler whose place and notice are as they were.
LEMMA StageSame ==
    ASSUME UNCHANGED <<convoName, memberRows, view, ghosts>>, NEW k,
           gpc'[k] = gpc[k], arg'[k] = arg[k], carried'[k] = carried[k], list'[k] = list[k],
           StageInv(k)
    PROVE  StageInv(k)'
<1>1. \A d : (knows(d)' <=> knows(d)) /\ (off(d)' <=> off(d)) /\ right' = right
  BY KnowsSame
<1>2. QED
  BY <1>1 DEF StageInv

\* Nothing is asked of a handler that changes nothing.
LEMMA StageIdle ==
    ASSUME NEW k, gpc'[k] \notin Changing
    PROVE  StageInv(k)'
BY DEF StageInv, Changing

LEMMA BeginGroups ==
    ASSUME GroupsInv, NEW c \in Conns, NEW label \in {"create", "add", "remove", "leave", "rename"},
           NEW S \in SUBSET Users, begin(c, label, S),
           label = "create" => creator = NoUser /\ \A d \in Conns : gpc[d] # "create",
           label # "create" => creator # NoUser,
           label = "remove" => \E u \in Users : S = {u},
           IF label = "leave"
           THEN /\ S = {Owner[c]} /\ view' = [view EXCEPT ![c] = NoView]
                /\ ghosts' = ghosts \cup (connsOf(Owner[c]) \ {c})
           ELSE UNCHANGED <<view, ghosts>>
    PROVE  GroupsInv'
<1> USE DEF GroupsInv
<1>1. /\ gpc[c] = "read" /\ changes' = changes + 1 /\ changes < MaxChanges
      /\ gpc' = [gpc EXCEPT ![c] = label] /\ arg' = [arg EXCEPT ![c] = S]
      /\ overlap' = (overlap \/ \E d \in Conns : gpc[d] \in Changing)
      /\ UNCHANGED <<creator, convoName, memberRows, friendship, list, carried, sometime, throughout, failed>>
  BY DEF begin, ready, rows
<1>2. label \in Changing
  BY DEF Changing
<1>3. view' \in [Conns -> Views] /\ ghosts' \subseteq Conns
  BY DEF GTypeOK, Views, connsOf
<1>4. GTypeOK'
  <2>1. changes' \in 0..MaxChanges
    BY <1>1, GroupsAssumption DEF GTypeOK
  <2>2. overlap' \in BOOLEAN
    BY <1>1 DEF GTypeOK
  <2>3. QED
    BY <1>1, <1>2, <1>3, <2>1, <2>2 DEF GTypeOK
<1>5. gpc'[c] = label /\ arg'[c] = S /\ \A d \in Conns \ {c} : gpc'[d] = gpc[d] /\ arg'[d] = arg[d]
  BY <1>1 DEF GTypeOK
<1>6. CreateInv'
  BY <1>1, <1>5 DEF CreateInv, GTypeOK
<1>7. ArgInv' /\ MessageInv'
  BY <1>1, <1>5 DEF ArgInv, MessageInv
<1>8. ASSUME ~overlap', ~failed'
      PROVE  ViewInv'
  <2>1. \A d \in Conns : gpc[d] \notin Changing
    BY <1>1, <1>8
  <2>2. \A d \in Conns : knows(d)
    BY <1>1, <1>8, <2>1 DEF ViewInv
  <2>3. \A d \in Conns \ {c} : gpc'[d] \notin Changing
    BY <1>5, <2>1
  <2>4. CASE label = "leave"
    <3>1. \A d \in Conns : IF Owner[d] = Owner[c] THEN off(d)' ELSE view'[d] = view[d] /\ (d \in ghosts' <=> d \in ghosts)
      BY <2>4 DEF off, connsOf, GTypeOK
    <3>2. \A d \in Conns : IF Owner[d] = Owner[c] THEN off(d)' ELSE knows(d)'
      BY <1>1, <2>2, <3>1 DEF knows
    <3>3. StageInv(c)'
      BY <1>5, <2>4, <3>2 DEF StageInv
    <3>4. QED
      BY <1>2, <1>5, <2>3, <3>3, StageIdle DEF ViewInv
  <2>5. CASE label # "leave"
    <3>1. \A d \in Conns : knows(d)'
      BY <1>1, <2>2, <2>5, KnowsSame
    <3>2. StageInv(c)'
      BY <1>5, <2>5, <3>1 DEF StageInv
    <3>3. QED
      BY <1>2, <1>5, <2>3, <3>1, <3>2, StageIdle DEF ViewInv
  <2>6. QED
    BY <2>4, <2>5
<1>9. ViewInv'
  BY <1>8 DEF ViewInv
<1>10. QED
  BY <1>4, <1>6, <1>7, <1>9

\* A step that is none of the group's business.
LEMMA AsideGroups ==
    ASSUME GroupsInv, NEW c \in Conns, gpc[c] \notin Changing, gpc'[c] \notin Changing,
           gpc' \in [Conns -> GLabels], arg' \in [Conns -> SUBSET Users],
           list' \in [Conns -> SUBSET Users], carried' \in [Conns -> Names],
           sometime' \in [Conns -> SUBSET Users], throughout' \in [Conns -> SUBSET Users],
           carried'[c] = FirstName, gpc'[c] # "read" => creator # NoUser,
           gpc'[c] \in {"store", "fanout"} => list'[c] \subseteq sometime'[c] /\ throughout'[c] \subseteq list'[c],
           \A d \in Conns \ {c} : /\ gpc'[d] = gpc[d] /\ arg'[d] = arg[d] /\ list'[d] = list[d] /\ carried'[d] = carried[d]
                                  /\ sometime'[d] = sometime[d] /\ throughout'[d] = throughout[d],
           UNCHANGED <<creator, convoName, memberRows, friendship, view, overlap, failed, ghosts, changes>>
    PROVE  GroupsInv'
<1> USE DEF GroupsInv
<1>1. GTypeOK'
  BY DEF GTypeOK, GLabels
<1>2. gpc'[c] \in {"read", "store", "fanout"}
  BY DEF GLabels
<1>3. CreateInv' /\ ArgInv' /\ MessageInv'
  BY <1>2 DEF CreateInv, ArgInv, MessageInv
<1>4. \A d \in Conns : (knows(d)' <=> knows(d))
  BY KnowsSame
<1>5. ASSUME ~overlap, ~failed PROVE \A k \in Conns : StageInv(k)'
  <2> SUFFICES ASSUME NEW k \in Conns PROVE StageInv(k)'
    OBVIOUS
  <2>1. CASE k = c
    BY <2>1, StageIdle
  <2>2. CASE k # c
    BY <1>5, <2>2, StageSame DEF ViewInv
  <2>3. QED
    BY <2>1, <2>2
<1>6. \A d \in Conns : gpc'[d] \in Changing => gpc[d] \in Changing /\ gpc'[d] = gpc[d]
  OBVIOUS
<1>7. \A d \in Conns : gpc[d] \in Changing => gpc'[d] \in Changing
  OBVIOUS
<1>8. ViewInv'
  BY <1>4, <1>5, <1>6, <1>7 DEF ViewInv
<1>9. QED
  BY <1>1, <1>3, <1>8

LEMMA MessageGroups ==
    ASSUME GroupsInv, NEW c \in Conns, ConvoMsg(c) \/ StoreMsg(c) \/ Fanout(c)
    PROVE  GroupsInv'
<1>0. /\ "read" \in GLabels /\ "store" \in GLabels /\ "fanout" \in GLabels
      /\ "read" \notin Changing /\ "store" \notin Changing /\ "fanout" \notin Changing
  BY DEF GLabels, Changing
<1>1. CASE ConvoMsg(c)
  <2>1. /\ gpc[c] = "read" /\ Owner[c] \in memberRows
        /\ gpc' = [gpc EXCEPT ![c] = "store"] /\ list' = [list EXCEPT ![c] = memberRows]
        /\ sometime' = [sometime EXCEPT ![c] = memberRows] /\ throughout' = [throughout EXCEPT ![c] = memberRows]
        /\ UNCHANGED <<creator, convoName, memberRows, friendship, arg, carried, view, overlap, failed, ghosts, changes>>
    BY <1>1 DEF ConvoMsg, ready, conversationMembers, rows
  <2>2. creator # NoUser /\ carried[c] = FirstName
    BY <2>1, Created DEF GroupsInv, ArgInv
  <2>3. gpc' \in [Conns -> GLabels]
    BY <1>0, <2>1 DEF GroupsInv, GTypeOK, GLabels
  <2>4. QED
    BY <1>0, <2>1, <2>2, <2>3, AsideGroups DEF GroupsInv, GTypeOK
<1>2. CASE StoreMsg(c)
  <2>1. /\ gpc[c] = "store" /\ gpc'[c] = "fanout"
        /\ \A d \in Conns \ {c} : gpc'[d] = gpc[d]
        /\ gpc' \in [Conns -> GLabels]
    BY <1>0, <1>2, GStepFacts DEF StoreMsg, GroupsInv
  <2>2. UNCHANGED <<creator, convoName, memberRows, friendship, arg, list, carried, view,
                    sometime, throughout, overlap, failed, ghosts, changes>>
    BY <1>2 DEF StoreMsg, rows, history
  <2>3. creator # NoUser /\ carried[c] = FirstName /\ list[c] \subseteq sometime[c] /\ throughout[c] \subseteq list[c]
    BY <2>1 DEF GroupsInv, CreateInv, ArgInv, MessageInv
  <2>4. QED
    BY <1>0, <2>1, <2>2, <2>3, AsideGroups DEF GroupsInv, GTypeOK
<1>3. CASE Fanout(c)
  <2>1. /\ gpc[c] = "fanout" /\ gpc'[c] = "read" /\ carried'[c] = FirstName
        /\ \A d \in Conns \ {c} : gpc'[d] = gpc[d] /\ arg'[d] = arg[d] /\ list'[d] = list[d] /\ carried'[d] = carried[d]
        /\ gpc' \in [Conns -> GLabels] /\ arg' \in [Conns -> SUBSET Users]
        /\ list' \in [Conns -> SUBSET Users] /\ carried' \in [Conns -> Names]
    BY <1>3, FinishFacts DEF Fanout, GroupsInv
  <2>2. /\ sometime' = [sometime EXCEPT ![c] = {}] /\ throughout' = [throughout EXCEPT ![c] = {}]
        /\ UNCHANGED <<creator, convoName, memberRows, friendship, view, overlap, failed, ghosts, changes>>
    BY <1>3 DEF Fanout, rows
  <2>3. /\ sometime' \in [Conns -> SUBSET Users] /\ throughout' \in [Conns -> SUBSET Users]
        /\ \A d \in Conns \ {c} : sometime'[d] = sometime[d] /\ throughout'[d] = throughout[d]
    BY <2>2 DEF GroupsInv, GTypeOK
  <2>4. QED
    BY <1>0, <2>1, <2>2, <2>3, AsideGroups
<1>4. QED
  BY <1>1, <1>2, <1>3

\* A handler that is alone goes on to another place.
LEMMA StageGroups ==
    ASSUME GroupsInv, NEW c \in Conns, gpc[c] \in Changing, GTypeOK', CreateInv', ArgInv', MessageInv',
           \A d \in Conns \ {c} : gpc'[d] = gpc[d],
           overlap' = overlap, failed' \/ ~failed,
           (\A d \in Conns \ {c} : gpc[d] \notin Changing) /\ StageInv(c) /\ ~overlap /\ ~failed' =>
               IF gpc'[c] \in Changing THEN StageInv(c)' ELSE \A d \in Conns : knows(d)'
    PROVE  GroupsInv'
<1> USE DEF GroupsInv
<1>1. ASSUME ~overlap', ~failed' PROVE ViewInv'
  <2>1. ~overlap /\ ~failed
    BY <1>1
  <2>2. StageInv(c) /\ \A d \in Conns \ {c} : gpc[d] \notin Changing
    BY <2>1 DEF ViewInv
  <2>3. IF gpc'[c] \in Changing THEN StageInv(c)' ELSE \A d \in Conns : knows(d)'
    BY <1>1, <2>1, <2>2
  <2>4. \A d \in Conns \ {c} : gpc'[d] \notin Changing
    BY <2>2
  <2>5. \A k \in Conns : StageInv(k)'
    BY <2>3, <2>4, StageIdle
  <2>6. QED
    BY <2>3, <2>4, <2>5 DEF ViewInv
<1>2. ViewInv'
  BY <1>1 DEF ViewInv
<1>3. QED
  BY <1>2

\* The rows change: the messages under way see it.
LEMMA RowsFacts ==
    ASSUME GTypeOK, MessageInv, NEW S \in SUBSET Users, setMembers(S), UNCHANGED list,
           \A d \in Conns : gpc'[d] \in {"store", "fanout"} => gpc[d] = gpc'[d]
    PROVE  /\ memberRows' = S
           /\ sometime' \in [Conns -> SUBSET Users] /\ throughout' \in [Conns -> SUBSET Users]
           /\ MessageInv'
<1>1. /\ memberRows' = S
      /\ sometime' = [d \in Conns |-> IF gpc[d] \in {"store", "fanout"} THEN sometime[d] \cup S ELSE sometime[d]]
      /\ throughout' = [d \in Conns |-> throughout[d] \cap S]
  BY DEF setMembers
<1>2. QED
  BY <1>1 DEF GTypeOK, MessageInv

LEMMA CreateGroups ==
    ASSUME GroupsInv, NEW c \in Conns, CreateRows(c)
    PROVE  GroupsInv'
<1> USE DEF GroupsInv
<1>0. "create" \in Changing /\ "readCreated" \in Changing /\ "readCreated" \in GLabels
  BY DEF GLabels, Changing
<1>1. /\ gpc[c] = "create" /\ gpc'[c] = "readCreated"
      /\ \A d \in Conns \ {c} : gpc'[d] = gpc[d]
      /\ gpc' \in [Conns -> GLabels]
  BY <1>0, GStepFacts DEF CreateRows
<1>2. /\ creator' = Owner[c] /\ setMembers({Owner[c]} \cup arg[c])
      /\ UNCHANGED <<convoName, friendship, arg, list, carried, view, overlap, failed, ghosts, changes>>
  BY DEF CreateRows, createConversation
<1>3. creator = NoUser /\ convoName = FirstName /\ \A d \in Conns : gpc[d] \in {"read", "create"} /\ view[d] = NoView
  BY <1>1 DEF CreateInv
<1>4. Owner[c] \in Users /\ Owner[c] # NoUser /\ {Owner[c]} \cup arg[c] \in SUBSET Users
  BY GOwnerFacts DEF GTypeOK
<1>5. /\ memberRows' \in SUBSET Users
      /\ sometime' \in [Conns -> SUBSET Users] /\ throughout' \in [Conns -> SUBSET Users]
      /\ MessageInv'
  BY <1>1, <1>2, <1>4, RowsFacts
<1>6. GTypeOK'
  BY <1>1, <1>2, <1>4, <1>5 DEF GTypeOK, GLabels
<1>7. CreateInv'
  BY <1>1, <1>2, <1>3, <1>4 DEF CreateInv
<1>8. ArgInv'
  BY <1>1, <1>2 DEF ArgInv
<1>9. StageInv(c)'
  <2>1. \A d \in Conns : off(d)' /\ view'[d] = NoView
    BY <1>2, <1>3 DEF off
  <2>2. QED
    BY <1>1, <1>2, <1>3, <2>1 DEF StageInv
<1>10. QED
  BY <1>0, <1>1, <1>2, <1>5, <1>6, <1>7, <1>8, <1>9, StageGroups

LEMMA AddGroups ==
    ASSUME GroupsInv, NEW c \in Conns, AddRows(c)
    PROVE  GroupsInv'
<1> USE DEF GroupsInv
<1>0. "add" \in Changing /\ "readUpdated" \in Changing /\ "readUpdated" \in GLabels
  BY DEF GLabels, Changing
<1>1. /\ gpc[c] = "add" /\ gpc'[c] = "readUpdated"
      /\ \A d \in Conns \ {c} : gpc'[d] = gpc[d]
      /\ gpc' \in [Conns -> GLabels]
  BY <1>0, GStepFacts DEF AddRows
<1>2. /\ setMembers(memberRows \cup arg[c])
      /\ UNCHANGED <<creator, convoName, friendship, arg, list, carried, view, overlap, failed, ghosts, changes>>
  BY DEF AddRows, addConversationMembers
<1>3. creator # NoUser
  BY <1>1 DEF CreateInv
<1>4. memberRows \cup arg[c] \in SUBSET Users
  BY DEF GTypeOK
<1>5. /\ memberRows' = memberRows \cup arg[c]
      /\ sometime' \in [Conns -> SUBSET Users] /\ throughout' \in [Conns -> SUBSET Users]
      /\ MessageInv'
  BY <1>1, <1>2, <1>4, RowsFacts
<1>6. GTypeOK'
  BY <1>1, <1>2, <1>3, <1>4, <1>5 DEF GTypeOK, GLabels
<1>7. CreateInv'
  BY <1>1, <1>2, <1>3 DEF CreateInv
<1>8. ArgInv'
  BY <1>1, <1>2 DEF ArgInv
<1>9. ASSUME StageInv(c) PROVE StageInv(c)'
  <2>1. \A d \in Conns : Owner[d] \notin memberRows' => off(d)'
    BY <1>1, <1>2, <1>5, <1>9 DEF off, StageInv, knows
  <2>2. QED
    BY <1>1, <2>1 DEF StageInv
<1>10. QED
  BY <1>0, <1>1, <1>2, <1>5, <1>6, <1>7, <1>8, <1>9, StageGroups

LEMMA RefusedGroups ==
    ASSUME GroupsInv, NEW c \in Conns, ChangeRefused(c)
    PROVE  GroupsInv'
<1> USE DEF GroupsInv
<1>1. /\ gpc[c] \in {"create", "add", "rename"} /\ gpc'[c] = "read" /\ carried'[c] = FirstName
      /\ \A d \in Conns \ {c} : gpc'[d] = gpc[d] /\ arg'[d] = arg[d] /\ list'[d] = list[d] /\ carried'[d] = carried[d]
      /\ gpc' \in [Conns -> GLabels] /\ arg' \in [Conns -> SUBSET Users]
      /\ list' \in [Conns -> SUBSET Users] /\ carried' \in [Conns -> Names]
  BY FinishFacts DEF ChangeRefused
<1>2. UNCHANGED <<creator, convoName, memberRows, friendship, view, sometime, throughout, overlap, failed, ghosts, changes>>
  BY DEF ChangeRefused, rows, history
<1>3. GTypeOK'
  BY <1>1, <1>2 DEF GTypeOK, GLabels
<1>4. CreateInv' /\ ArgInv' /\ MessageInv'
  BY <1>1, <1>2 DEF CreateInv, ArgInv, MessageInv
<1>5. StageInv(c) => \A d \in Conns : knows(d)'
  BY <1>1, <1>2, KnowsSame DEF StageInv
<1>6. gpc[c] \in Changing /\ gpc'[c] \notin Changing
  BY <1>1 DEF Changing
<1>7. QED
  BY <1>1, <1>2, <1>3, <1>4, <1>5, <1>6, StageGroups

LEMMA DeleteGroups ==
    ASSUME GroupsInv, NEW c \in Conns, DeleteRow(c)
    PROVE  GroupsInv'
<1> USE DEF GroupsInv
<1>0. {"remove", "removed", "leave", "readLeft"} \subseteq Changing /\ {"removed", "readLeft"} \subseteq GLabels
  BY DEF GLabels, Changing
<1>1. /\ \/ gpc[c] = "remove" /\ gpc'[c] = "removed"
         \/ gpc[c] = "leave" /\ gpc'[c] = "readLeft"
      /\ \A d \in Conns \ {c} : gpc'[d] = gpc[d]
      /\ gpc' \in [Conns -> GLabels]
  BY <1>0, GStepFacts DEF DeleteRow
<1>2. UNCHANGED <<creator, convoName, friendship, arg, list, carried, view, overlap, ghosts, changes>>
  BY DEF DeleteRow
<1>3. PICK u \in Users : arg[c] = {u} /\ (gpc[c] = "leave" => u = Owner[c])
  BY <1>1, GOwnerFacts DEF ArgInv
<1>4. \/ setMembers(memberRows \ {u}) /\ failed' = failed
      \/ failed' = TRUE /\ UNCHANGED <<memberRows, sometime, throughout>>
  BY <1>3 DEF DeleteRow, leaveConversation
<1>5. creator # NoUser
  BY <1>1 DEF CreateInv
<1>6. memberRows \ {u} \in SUBSET Users
  BY DEF GTypeOK
<1>7. /\ memberRows' \in SUBSET Users
      /\ sometime' \in [Conns -> SUBSET Users] /\ throughout' \in [Conns -> SUBSET Users]
      /\ MessageInv'
      /\ failed' = TRUE \/ memberRows' = memberRows \ {u}
  <2>1. CASE setMembers(memberRows \ {u})
    BY <1>1, <1>2, <1>6, <2>1, RowsFacts
  <2>2. CASE failed' = TRUE /\ UNCHANGED <<memberRows, sometime, throughout>>
    BY <1>1, <1>2, <2>2 DEF GTypeOK, MessageInv
  <2>3. QED
    BY <1>4, <2>1, <2>2
<1>8. GTypeOK'
  <2>1. failed' \in BOOLEAN
    BY <1>4 DEF GTypeOK
  <2>2. QED
    BY <1>1, <1>2, <1>5, <1>7, <2>1 DEF GTypeOK, GLabels
<1>9. CreateInv'
  BY <1>1, <1>2, <1>5 DEF CreateInv
<1>10. ArgInv'
  BY <1>1, <1>2, <1>3 DEF ArgInv
<1>11. ASSUME StageInv(c), ~failed' PROVE StageInv(c)'
  <2>1. memberRows' = memberRows \ {u}
    BY <1>7, <1>11
  <2>2. CASE gpc[c] = "remove"
    <3>1. \A d \in Conns : Owner[d] \notin memberRows /\ ~(Owner[d] \in arg[c]) => off(d)'
      BY <1>2, <1>11, <2>2 DEF StageInv, knows, off
    <3>2. gpc'[c] = "removed" /\ arg'[c] \cap memberRows' = {}
      BY <1>1, <1>2, <1>3, <2>1, <2>2
    <3>3. \A d \in Conns : Owner[d] \notin memberRows' => off(d)' \/ Owner[d] \in arg'[c]
      BY <1>2, <1>3, <2>1, <3>1
    <3>4. QED
      BY <3>2, <3>3 DEF StageInv
  <2>3. CASE gpc[c] = "leave"
    <3>1. u = Owner[c] /\ gpc'[c] = "readLeft"
      BY <1>1, <1>3, <2>3
    <3>2. \A d \in Conns : IF Owner[d] = Owner[c] THEN off(d) ELSE knows(d)
      BY <1>11, <2>3 DEF StageInv
    <3>3. \A d \in Conns : Owner[d] \notin memberRows' => off(d)'
      BY <1>2, <2>1, <3>1, <3>2 DEF knows, off
    <3>4. \A d \in Conns : Owner[d] \in memberRows' =>
             \E M \in SUBSET Users : view'[d] = [name |-> convoName', members |-> M] /\ M \ {Owner[c]} = memberRows'
      BY <1>2, <2>1, <3>1, <3>2 DEF knows, GTypeOK
    <3>5. QED
      BY <2>1, <3>1, <3>3, <3>4 DEF StageInv
  <2>4. QED
    BY <1>1, <2>2, <2>3
<1>12. failed' \/ ~failed
  BY <1>4
<1>13. QED
  BY <1>0, <1>1, <1>2, <1>7, <1>8, <1>9, <1>10, <1>11, <1>12, StageGroups

LEMMA RemovedGroups ==
    ASSUME GroupsInv, NEW c \in Conns, TellRemoved(c)
    PROVE  GroupsInv'
<1> USE DEF GroupsInv
<1>0. "removed" \in Changing /\ "readUpdated" \in Changing /\ "readUpdated" \in GLabels
  BY DEF GLabels, Changing
<1>1. /\ gpc[c] = "removed" /\ gpc'[c] = "readUpdated"
      /\ \A d \in Conns \ {c} : gpc'[d] = gpc[d]
      /\ gpc' \in [Conns -> GLabels]
  BY <1>0, GStepFacts DEF TellRemoved
<1>2. /\ view' = [d \in Conns |-> IF Owner[d] \in arg[c] THEN NoView ELSE view[d]]
      /\ UNCHANGED <<creator, convoName, memberRows, friendship, arg, list, carried,
                     sometime, throughout, overlap, failed, ghosts, changes>>
  BY DEF TellRemoved, rows, history
<1>3. GTypeOK'
  BY <1>1, <1>2 DEF GTypeOK, GLabels, Views
<1>4. CreateInv' /\ ArgInv' /\ MessageInv'
  BY <1>1, <1>2 DEF CreateInv, ArgInv, MessageInv
<1>5. ASSUME StageInv(c) PROVE StageInv(c)'
  <2>1. \A d \in Conns : Owner[d] \notin memberRows' => off(d)'
    BY <1>1, <1>2, <1>5 DEF off, StageInv
  <2>2. QED
    BY <1>1, <2>1 DEF StageInv
<1>6. QED
  BY <1>0, <1>1, <1>2, <1>3, <1>4, <1>5, StageGroups

LEMMA RenameGroups ==
    ASSUME GroupsInv, NEW c \in Conns, NEW name \in Names, renameConversation(c, name)
    PROVE  GroupsInv'
<1> USE DEF GroupsInv
<1>0. "rename" \in Changing /\ "readRenamed" \in Changing /\ "readRenamed" \in GLabels
  BY DEF GLabels, Changing
<1>1. /\ gpc[c] = "rename" /\ gpc'[c] = "readRenamed"
      /\ \A d \in Conns \ {c} : gpc'[d] = gpc[d]
      /\ gpc' \in [Conns -> GLabels]
  BY <1>0, GStepFacts DEF renameConversation
<1>2. /\ convoName' = name /\ carried' = [carried EXCEPT ![c] = name]
      /\ UNCHANGED <<creator, memberRows, friendship, arg, list, view,
                     sometime, throughout, overlap, failed, ghosts, changes>>
  BY DEF renameConversation, history
<1>3. GTypeOK'
  BY <1>1, <1>2 DEF GTypeOK, GLabels
<1>4. creator # NoUser
  BY <1>1 DEF CreateInv
<1>5. CreateInv' /\ ArgInv' /\ MessageInv'
  BY <1>1, <1>2, <1>4 DEF CreateInv, ArgInv, MessageInv, GTypeOK
<1>6. ASSUME StageInv(c) PROVE StageInv(c)'
  <2>1. \A d \in Conns : Owner[d] \notin memberRows' => off(d)'
    BY <1>1, <1>2, <1>6 DEF off, StageInv, knows
  <2>2. carried'[c] = convoName'
    BY <1>2 DEF GTypeOK
  <2>3. QED
    BY <1>1, <2>1, <2>2 DEF StageInv
<1>7. QED
  BY <1>0, <1>1, <1>2, <1>3, <1>5, <1>6, StageGroups

LEMMA ReadGroups ==
    ASSUME GroupsInv, NEW c \in Conns, ReadMembers(c)
    PROVE  GroupsInv'
<1> USE DEF GroupsInv
<1>0. /\ {"readCreated", "readUpdated", "readRenamed", "readLeft", "tellCreated", "tellUpdated", "tellLeft"} \subseteq Changing
      /\ {"tellCreated", "tellUpdated", "tellLeft"} \subseteq GLabels
  BY DEF GLabels, Changing
<1>1. /\ \/ gpc[c] = "readCreated" /\ gpc'[c] = "tellCreated" /\ carried' = carried
         \/ gpc[c] = "readUpdated" /\ gpc'[c] = "tellUpdated" /\ carried' = [carried EXCEPT ![c] = convoName]
         \/ gpc[c] = "readRenamed" /\ gpc'[c] = "tellUpdated" /\ carried' = carried
         \/ gpc[c] = "readLeft" /\ gpc'[c] = "tellLeft" /\ carried' = carried
      /\ \A d \in Conns \ {c} : gpc'[d] = gpc[d]
      /\ gpc' \in [Conns -> GLabels]
  BY <1>0, GStepFacts DEF ReadMembers
<1>2. /\ list' = [list EXCEPT ![c] = memberRows]
      /\ UNCHANGED <<creator, convoName, memberRows, friendship, arg, view,
                     sometime, throughout, overlap, failed, ghosts, changes>>
  BY DEF ReadMembers, conversationMembers, rows, history
<1>3. /\ carried' \in [Conns -> Names] /\ list' \in [Conns -> SUBSET Users] /\ list'[c] = memberRows
      /\ \A d \in Conns \ {c} : carried'[d] = carried[d] /\ list'[d] = list[d]
      /\ gpc'[c] # "tellUpdated" => carried'[c] = carried[c]
      /\ gpc[c] = "readUpdated" => carried'[c] = convoName
      /\ gpc[c] = "readRenamed" => carried'[c] = carried[c]
  BY <1>1, <1>2 DEF GTypeOK
<1>4. GTypeOK'
  BY <1>1, <1>2, <1>3 DEF GTypeOK, GLabels
<1>5. CreateInv' /\ ArgInv' /\ MessageInv'
  BY <1>1, <1>2, <1>3 DEF CreateInv, ArgInv, MessageInv
<1>6. ASSUME StageInv(c) PROVE StageInv(c)'
  <2>1. \A d : (knows(d)' <=> knows(d)) /\ (off(d)' <=> off(d)) /\ right' = right
    BY <1>2, KnowsSame
  <2>2. QED
    BY <1>1, <1>2, <1>3, <1>6, <2>1 DEF StageInv
<1>7. QED
  BY <1>0, <1>1, <1>2, <1>4, <1>5, <1>6, StageGroups

\* A notice leaves a client with a copy.
LEMMA NoticedType ==
    ASSUME GTypeOK, NEW c \in Conns, NEW v \in Views
    PROVE  noticed(c, v) \in Views
<1>1. CASE gpc[c] = "tellLeft"
  <2>1. noticed(c, v) = [v EXCEPT !.members = @ \ arg[c]]
    BY <1>1 DEF noticed
  <2>2. CASE v = NoView
    <3>1. [v EXCEPT !.members = @ \ arg[c]] = NoView
      <4>1. v = [name |-> "", members |-> {}] /\ v.members \ arg[c] = {}
        BY <2>2 DEF NoView
      <4>2. \A n, M, N : [[name |-> n, members |-> M] EXCEPT !.members = N] = [name |-> n, members |-> N]
        OBVIOUS
      <4>3. [v EXCEPT !.members = @ \ arg[c]] = [v EXCEPT !.members = {}]
        BY <4>1, Zenon
      <4>4. QED
        BY <4>1, <4>2, <4>3, Zenon DEF NoView
    <3>2. QED
      BY <2>1, <3>1 DEF Views
  <2>3. CASE v \in [name : Names, members : SUBSET Users]
    <3>1. [v EXCEPT !.members = @ \ arg[c]] \in [name : Names, members : SUBSET Users]
      BY <2>3
    <3>2. QED
      BY <2>1, <3>1 DEF Views
  <2>4. QED
    BY <2>2, <2>3 DEF Views
<1>2. CASE gpc[c] # "tellLeft"
  <2>1. noticed(c, v) = v \/ noticed(c, v) = [name |-> carried[c], members |-> list[c]]
    BY <1>2 DEF noticed
  <2>2. [name |-> carried[c], members |-> list[c]] \in Views
    BY DEF GTypeOK, Views
  <2>3. QED
    BY <2>1, <2>2
<1>3. QED
  BY <1>1, <1>2

LEMMA TellGroups ==
    ASSUME GroupsInv, NEW c \in Conns, Tell(c)
    PROVE  GroupsInv'
<1> USE DEF GroupsInv
<1>1. /\ gpc[c] \in {"tellCreated", "tellUpdated", "tellLeft"} /\ gpc'[c] = "read" /\ carried'[c] = FirstName
      /\ \A d \in Conns \ {c} : gpc'[d] = gpc[d] /\ arg'[d] = arg[d] /\ list'[d] = list[d] /\ carried'[d] = carried[d]
      /\ gpc' \in [Conns -> GLabels] /\ arg' \in [Conns -> SUBSET Users]
      /\ list' \in [Conns -> SUBSET Users] /\ carried' \in [Conns -> Names]
  BY FinishFacts DEF Tell
<1>2. /\ view' = [d \in Conns |-> IF Owner[d] \in list[c] THEN noticed(c, view[d]) ELSE view[d]]
      /\ ghosts' = {d \in ghosts : Owner[d] \notin list[c]}
      /\ UNCHANGED <<creator, convoName, memberRows, friendship, sometime, throughout, overlap, failed, changes>>
  BY DEF Tell, rows
<1>3. view' \in [Conns -> Views]
  BY <1>2, NoticedType DEF GTypeOK
<1>4. GTypeOK'
  BY <1>1, <1>2, <1>3 DEF GTypeOK, GLabels
<1>5. creator # NoUser
  BY <1>1 DEF CreateInv
<1>6. CreateInv' /\ ArgInv' /\ MessageInv'
  BY <1>1, <1>2, <1>5 DEF CreateInv, ArgInv, MessageInv
<1>7. ASSUME StageInv(c) PROVE \A d \in Conns : knows(d)'
  <2> SUFFICES ASSUME NEW d \in Conns PROVE knows(d)'
    OBVIOUS
  <2>1. list[c] = memberRows /\ memberRows' = memberRows /\ convoName' = convoName
    BY <1>1, <1>2, <1>7 DEF StageInv
  <2>2. CASE Owner[d] \notin memberRows
    <3>1. off(d)
      BY <1>1, <1>7, <2>2 DEF StageInv
    <3>2. view'[d] = view[d] /\ (d \in ghosts => d \in ghosts')
      BY <1>2, <2>1, <2>2
    <3>3. QED
      BY <2>1, <2>2, <3>1, <3>2 DEF knows, off
  <2>3. CASE Owner[d] \in memberRows
    <3>1. view'[d] = noticed(c, view[d])
      BY <1>2, <2>1, <2>3
    <3>2. noticed(c, view[d]) = right
      <4>1. CASE gpc[c] = "tellLeft"
        <5>1. PICK M \in SUBSET Users : view[d] = [name |-> convoName, members |-> M] /\ M \ {Owner[c]} = memberRows
          BY <1>7, <2>3, <4>1 DEF StageInv
        <5>2. noticed(c, view[d]) = [view[d] EXCEPT !.members = @ \ {Owner[c]}]
          BY <4>1 DEF noticed, ArgInv
        <5>3. QED
          BY <5>1, <5>2 DEF right
      <4>2. CASE gpc[c] = "tellUpdated"
        BY <1>7, <2>1, <4>2 DEF noticed, StageInv, right
      <4>3. CASE gpc[c] = "tellCreated"
        <5>1. carried[c] = convoName /\ view[d] \in {NoView, right}
          BY <1>7, <2>3, <4>3 DEF StageInv, ArgInv
        <5>2. CASE view[d] = NoView
          BY <2>1, <4>3, <5>1, <5>2 DEF noticed, right
        <5>3. CASE view[d] # NoView
          BY <4>3, <5>1, <5>3 DEF noticed
        <5>4. QED
          BY <5>2, <5>3
      <4>4. QED
        BY <1>1, <4>1, <4>2, <4>3
    <3>3. QED
      BY <2>1, <2>3, <3>1, <3>2 DEF knows, right
  <2>4. QED
    BY <2>2, <2>3
<1>8. gpc[c] \in Changing /\ gpc'[c] \notin Changing
  BY <1>1 DEF Changing
<1>9. QED
  BY <1>1, <1>2, <1>4, <1>6, <1>7, <1>8, StageGroups

\* A client that starts anew shows the group as it is; while its user is
\* leaving, it is one of those nobody will tell.
LEMMA InfoGroups ==
    ASSUME GroupsInv, NEW c \in Conns, userConversations(c)
    PROVE  GroupsInv'
<1> USE DEF GroupsInv
<1>1. /\ view' = [view EXCEPT ![c] = IF Owner[c] \in memberRows /\ creator # NoUser THEN right ELSE NoView]
      /\ ghosts' = IF leaving(Owner[c]) THEN ghosts \cup {c} ELSE ghosts \ {c}
      /\ UNCHANGED <<creator, convoName, memberRows, friendship, gpc, arg, list, carried,
                     sometime, throughout, overlap, failed, changes>>
  BY DEF userConversations, right, rows, local
<1>2. /\ view'[c] = (IF Owner[c] \in memberRows THEN right ELSE NoView)
      /\ \A d \in Conns \ {c} : view'[d] = view[d] /\ (d \in ghosts' <=> d \in ghosts)
      /\ leaving(Owner[c]) => c \in ghosts'
      /\ right' = right
  BY <1>1, Created DEF GTypeOK, right
<1>3. right \in Views
  BY DEF right, Views, GTypeOK
<1>4. GTypeOK'
  <2>1. view' \in [Conns -> Views] /\ ghosts' \subseteq Conns
    BY <1>1, <1>3 DEF GTypeOK, Views
  <2>2. QED
    BY <1>1, <2>1 DEF GTypeOK
<1>5. CreateInv' /\ ArgInv' /\ MessageInv'
  BY <1>1, <1>2 DEF CreateInv, ArgInv, MessageInv, GTypeOK
<1>6. knows(c)' /\ \A d \in Conns \ {c} : (knows(d)' <=> knows(d)) /\ (off(d)' <=> off(d))
  BY <1>1, <1>2 DEF knows, off, right
<1>7. Owner[c] \notin memberRows => off(c)'
  BY <1>2 DEF off
<1>8. ASSUME NEW k \in Conns, StageInv(k) PROVE StageInv(k)'
  <2>1. gpc[k] = "leave" /\ Owner[c] = Owner[k] => off(c)'
    BY <1>2 DEF leaving, connsOf, off
  <2>2. gpc[k] \in {"create", "add", "remove", "rename"} => \A d \in Conns : knows(d)'
    BY <1>6, <1>8 DEF StageInv
  <2>3. gpc[k] = "leave" => \A d \in Conns : IF Owner[d] = Owner[k] THEN off(d)' ELSE knows(d)'
    BY <1>6, <1>8, <2>1 DEF StageInv
  <2>4. gpc[k] \in {"readLeft", "tellLeft"} =>
           /\ Owner[k] \notin memberRows
           /\ \A d \in Conns : Owner[d] \in memberRows =>
                  \E M \in SUBSET Users : view'[d] = [name |-> convoName, members |-> M] /\ M \ {Owner[k]} = memberRows
    <3> SUFFICES ASSUME gpc[k] \in {"readLeft", "tellLeft"}, NEW d \in Conns, Owner[d] \in memberRows
                 PROVE  /\ Owner[k] \notin memberRows
                        /\ \E M \in SUBSET Users : view'[d] = [name |-> convoName, members |-> M] /\ M \ {Owner[k]} = memberRows
      BY <1>8 DEF StageInv
    <3>1. Owner[k] \notin memberRows
      BY <1>8 DEF StageInv
    <3>2. CASE d = c
      <4>1. memberRows \in SUBSET Users /\ memberRows \ {Owner[k]} = memberRows
        BY <3>1 DEF GTypeOK
      <4>2. view'[d] = [name |-> convoName, members |-> memberRows]
        BY <1>2, <3>2 DEF right
      <4>3. QED
        BY <3>1, <4>1, <4>2
    <3>3. CASE d # c
      BY <1>2, <1>8, <3>1, <3>3 DEF StageInv
    <3>4. QED
      BY <3>2, <3>3
  <2>5. gpc[k] \in {"readLeft", "tellLeft", "removed", "readUpdated", "readRenamed", "tellUpdated", "readCreated", "tellCreated"} =>
           \A d \in Conns : Owner[d] \notin memberRows => off(d)' \/ (gpc[k] = "removed" /\ Owner[d] \in arg[k])
    BY <1>6, <1>7, <1>8 DEF StageInv
  <2>6. gpc[k] \in {"readCreated", "tellCreated"} =>
           \A d \in Conns : Owner[d] \in memberRows => view'[d] \in {NoView, right}
    BY <1>2, <1>8 DEF StageInv
  <2>7. QED
    BY <1>1, <1>2, <1>8, <2>2, <2>3, <2>4, <2>5, <2>6 DEF StageInv
<1>9. ViewInv'
  BY <1>1, <1>6, <1>8 DEF ViewInv
<1>10. QED
  BY <1>4, <1>5, <1>9

LEMMA FriendsGroups ==
    ASSUME GroupsInv, NEW p \in MayPart, Befriend(p) \/ PartFriends(p)
    PROVE  GroupsInv'
<1> USE DEF GroupsInv
<1>1. /\ friendship' \subseteq SUBSET Users
      /\ UNCHANGED <<creator, convoName, memberRows, gpc, arg, list, carried, view,
                     sometime, throughout, overlap, failed, ghosts, changes>>
  BY GroupsAssumption DEF Befriend, PartFriends, rows, local, history, GTypeOK
<1>2. GTypeOK'
  BY <1>1 DEF GTypeOK
<1>3. CreateInv' /\ ArgInv' /\ MessageInv'
  BY <1>1 DEF CreateInv, ArgInv, MessageInv
<1>4. \A k \in Conns : (knows(k)' <=> knows(k)) /\ (StageInv(k) => StageInv(k)')
  BY <1>1, KnowsSame, StageSame
<1>5. ViewInv'
  BY <1>1, <1>4 DEF ViewInv
<1>6. QED
  BY <1>2, <1>3, <1>5

LEMMA StartGroups ==
    ASSUME GroupsInv, NEW c \in Conns,
           \/ \E S \in SUBSET Users : ConvoCreate(c, S) \/ ConvoAddMember(c, S)
           \/ \E u \in Users : ConvoRemoveMember(c, u)
           \/ ConvoLeave(c) \/ ConvoRename(c)
    PROVE  GroupsInv'
<1>0. Owner[c] \in Users /\ Owner[c] # NoUser /\ (memberRows # {} => creator # NoUser)
  BY GOwnerFacts, Created
<1>1. CASE \E S \in SUBSET Users : ConvoCreate(c, S)
  <2> PICK S \in SUBSET Users : ConvoCreate(c, S)
    BY <1>1
  <2>1. eligible(c, S) \in SUBSET Users
    BY DEF eligible
  <2>2. QED
    BY <2>1, BeginGroups DEF ConvoCreate
<1>2. CASE \E S \in SUBSET Users : ConvoAddMember(c, S)
  <2> PICK S \in SUBSET Users : ConvoAddMember(c, S)
    BY <1>2
  <2>1. toAdd(c, S) \in SUBSET Users
    BY DEF toAdd
  <2>2. creator # NoUser
    BY <1>0 DEF ConvoAddMember, conversationMembers
  <2>3. QED
    BY <2>1, <2>2, BeginGroups DEF ConvoAddMember
<1>3. CASE \E u \in Users : ConvoRemoveMember(c, u)
  <2> PICK u \in Users : ConvoRemoveMember(c, u)
    BY <1>3
  <2>1. {u} \in SUBSET Users /\ \E v \in Users : {u} = {v}
    OBVIOUS
  <2>2. creator # NoUser
    BY <1>0 DEF ConvoRemoveMember, mayAdminister
  <2>3. QED
    BY <2>1, <2>2, BeginGroups DEF ConvoRemoveMember
<1>4. CASE ConvoLeave(c)
  <2>1. creator # NoUser /\ {Owner[c]} \in SUBSET Users
    BY <1>0, <1>4 DEF ConvoLeave, conversationMembers
  <2>2. QED
    BY <1>4, <2>1, BeginGroups DEF ConvoLeave
<1>5. CASE ConvoRename(c)
  <2>1. creator # NoUser /\ {} \in SUBSET Users
    BY <1>0, <1>5 DEF ConvoRename, mayAdminister
  <2>2. QED
    BY <1>5, <2>1, BeginGroups DEF ConvoRename
<1>6. QED
  BY <1>1, <1>2, <1>3, <1>4, <1>5

LEMMA GroupsNext == GroupsInv /\ [GNext]_gvars => GroupsInv'
<1> SUFFICES ASSUME GroupsInv, [GNext]_gvars PROVE GroupsInv'
  OBVIOUS
<1>1. CASE UNCHANGED gvars
  <2>1. \A k \in Conns : (knows(k)' <=> knows(k)) /\ (StageInv(k) => StageInv(k)')
    BY <1>1, KnowsSame, StageSame DEF gvars
  <2>2. QED
    BY <1>1, <2>1 DEF gvars, GroupsInv, GTypeOK, CreateInv, ArgInv, MessageInv, ViewInv
<1>2. CASE \E c \in Conns : GHandler(c)
  BY <1>2, StartGroups, MessageGroups, CreateGroups, AddGroups, RefusedGroups, DeleteGroups, RemovedGroups,
     RenameGroups, ReadGroups, TellGroups, InfoGroups DEF GHandler
<1>3. CASE \E p \in MayPart : Befriend(p) \/ PartFriends(p)
  BY <1>3, FriendsGroups
<1>4. QED
  BY <1>1, <1>2, <1>3 DEF GNext

(***************************************************************************)
(* The handlers of groups: a message of convo_msg goes to people who were  *)
(* members while it was under way and to all who were throughout, and once *)
(* the notices of a change are out every client shows the group as the     *)
(* tables have it, unless two changes overlapped or a DELETE was refused.  *)
(***************************************************************************)
THEOREM GroupsKept == GSpec => []GroupsSafe
<1>1. GroupsInv => GroupsSafe
  <2> SUFFICES ASSUME GroupsInv PROVE GroupsSafe
    OBVIOUS
  <2>1. CopiesGoToMembers
    BY DEF GroupsInv, MessageInv, CopiesGoToMembers, recipients
  <2>2. CopiesAgree
    BY DEF GroupsInv, ViewInv, CopiesAgree
  <2>3. QED
    BY <2>1, <2>2 DEF GroupsInv, GroupsSafe
<1>2. QED
  BY <1>1, GroupsInit, GroupsNext, PTL DEF GSpec

-----------------------------------------------------------------------------
(* Direct message history. *)

\* What a goroutine's place says of the change it is about.
PlacedInv ==
    \A c \in Conns :
        /\ change[c] # "none" <=> dpc[c] \in {"write", "relay"}
        /\ dpc[c] = "write" => change[c] = "react"
        /\ change[c] \in {"msg", "edit", "delete"} => Owner[c] = Writer
        /\ dpc[c] # "read" => c \in parties

\* Before the message is stored nobody has it or has done anything to it.
StoredInv ==
    /\ ~row.there => marks = {} /\ ~erased /\ ~row.deleted
    /\ row.deleted => row.body = "none"
    /\ row.there /\ ~row.deleted => row.body # "none"
    /\ erased => row.deleted
    /\ \A c \in Conns :
        /\ ~row.there => ~line[c].there /\ ~answered[c].there /\ change[c] = "none"
        /\ ~line[c].there => ~line[c].mark

fetching(c) == dpc[c] \in {"reactions", "answer"}

sameMark(c) == line[c].mark <=> otherOf(c) \in marks

sameBody(c) == line[c].body = row.body /\ line[c].deleted = row.deleted

\* What a history that will be exact has found so far.
Fetched(c) ==
    /\ ~answered[c].there => ~line[c].there
    /\ dpc[c] = "answer" /\ answered[c].there => (answered[c].mark <=> otherOf(c) \in marks)
    /\ Owner[c] = Reader =>
           answered[c].there = row.there /\ answered[c].body = row.body /\ answered[c].deleted = row.deleted

\* A copy that has missed nothing, while the other person changes nothing.
Settled(c) ==
    /\ line[c].there => sameMark(c)
    /\ Owner[c] = Reader => (row.there => line[c].there) /\ (line[c].there => sameBody(c))

\* A copy that has missed nothing but the change of d, which it will be told.
Awaits(c, d) ==
    /\ change[d] = "react" =>
           /\ dpc[d] = "write" => (hadMark[d] <=> otherOf(c) \in marks) /\ (line[c].there => sameMark(c))
           /\ dpc[d] = "relay" => (line[c].there => ~sameMark(c))
           /\ Owner[c] = Reader => line[c].there /\ sameBody(c)
    /\ change[d] # "react" => sameMark(c)
    /\ change[d] = "msg" => row.body = "text" /\ ~row.deleted
    /\ change[d] = "edit" => row.body = "edited" /\ ~row.deleted /\ line[c].there
    /\ change[d] = "delete" => row.body = "none" /\ row.deleted /\ line[c].there

ExactInv(c) ==
    /\ \A d, e \in connsOf(otherOf(c)) : change[d] # "none" /\ change[e] # "none" => d = e
    /\ fetching(c) /\ ~busy(otherOf(c)) => Fetched(c)
    /\ ~fetching(c) /\ ~busy(otherOf(c)) => Settled(c)
    /\ ~fetching(c) => \A d \in connsOf(otherOf(c)) : change[d] # "none" => Awaits(c, d)

HistoryInv ==
    /\ DTypeOK /\ PlacedInv /\ StoredInv
    /\ \A c \in parties : exact[c] => ExactInv(c)

-----------------------------------------------------------------------------
LEMMA DmInit == DInit => HistoryInv
<1> SUFFICES ASSUME DInit PROVE HistoryInv
  OBVIOUS
<1>1. Absent \in Rows /\ NoLine \in Lines
  BY DEF Absent, Rows, NoLine, Lines
<1>2. ~Absent.there /\ ~Absent.deleted /\ Absent.body = "none" /\ ~NoLine.there /\ ~NoLine.mark
  BY DEF Absent, NoLine
<1>3. DTypeOK
  <2>1. dmChanges \in 0..MaxDmChanges
    BY DmHistoryAssumption DEF DInit
  <2>2. QED
    BY <1>1, <2>1 DEF DInit, DTypeOK
<1>4. PlacedInv
  BY DEF DInit, PlacedInv
<1>5. StoredInv
  BY <1>2, Zenon DEF DInit, StoredInv
<1>6. \A c \in parties : ExactInv(c)
  <2> SUFFICES ASSUME NEW c \in parties PROVE ExactInv(c)
    OBVIOUS
  <2>1. c \in Conns /\ ~line[c].there /\ ~row.there /\ dpc[c] = "read" /\ \A d \in Conns : change[d] = "none"
    BY <1>2 DEF DInit, parties
  <2>2. connsOf(otherOf(c)) \subseteq Conns
    BY DEF connsOf
  <2>3. Settled(c)
    BY <2>1, Zenon DEF Settled
  <2>4. QED
    BY <2>1, <2>2, <2>3 DEF ExactInv, fetching
<1>7. QED
  BY <1>3, <1>4, <1>5, <1>6 DEF HistoryInv

LEMMA PartyFacts ==
    ASSUME NEW c \in parties
    PROVE  /\ c \in Conns /\ Owner[c] \in {Writer, Reader} /\ Writer # Reader
           /\ otherOf(c) = IF Owner[c] = Writer THEN Reader ELSE Writer
           /\ \A d \in parties : /\ Owner[d] # otherOf(c) => Owner[d] = Owner[c] /\ otherOf(d) = otherOf(c)
                                 /\ Owner[d] = otherOf(c) => otherOf(d) = Owner[c]
           /\ \A d \in connsOf(otherOf(c)) : d \in Conns /\ Owner[d] = otherOf(c) /\ d # c /\ d \in parties
BY DmHistoryAssumption DEF parties, otherOf, connsOf

LEMMA LineFields ==
    ASSUME DTypeOK, NEW c \in Conns
    PROVE  /\ line[c] \in Lines /\ line[c].there \in BOOLEAN /\ line[c].mark \in BOOLEAN /\ line[c].deleted \in BOOLEAN
           /\ answered[c] \in Lines /\ answered[c].there \in BOOLEAN /\ answered[c].mark \in BOOLEAN
BY DEF DTypeOK, Lines

LEMMA RowFields ==
    ASSUME DTypeOK
    PROVE  row \in Rows /\ row.there \in BOOLEAN /\ row.deleted \in BOOLEAN /\ row.body \in {"none", "text", "edited"}
BY DEF DTypeOK, Rows

\* A step that the client of e has no part in: its copy, the other person's
\* changes and reaction, and, for the reader, the row are as they were.
LEMMA ExactSame ==
    ASSUME PlacedInv, NEW e \in parties,
           line'[e] = line[e], answered'[e] = answered[e],
           Owner[e] = Reader => row' = row,
           otherOf(e) \in marks' <=> otherOf(e) \in marks,
           fetching(e)' <=> fetching(e), fetching(e) => dpc'[e] = dpc[e],
           \A d \in connsOf(otherOf(e)) :
               change'[d] = change[d] /\ (change[d] # "none" => dpc'[d] = dpc[d] /\ hadMark'[d] = hadMark[d]),
           ExactInv(e)
    PROVE  ExactInv(e)'
<1> DEFINE o == otherOf(e)
<1>1. busy(o)' <=> busy(o)
  BY DEF busy
<1>2. sameMark(e)' <=> sameMark(e)
  BY DEF sameMark, otherOf
<1>3. Owner[e] = Reader => (sameBody(e)' <=> sameBody(e))
  BY DEF sameBody
<1>4. fetching(e) /\ Fetched(e) => Fetched(e)'
  BY DEF Fetched, otherOf
<1>5. Settled(e) => Settled(e)'
  BY <1>2, <1>3 DEF Settled
<1>6. ASSUME NEW d \in connsOf(o), change[d] # "none", Awaits(e, d) PROVE Awaits(e, d)'
  <2>1. d \in Conns /\ Owner[d] = otherOf(e)
    BY PartyFacts
  <2>2. change[d] \in {"msg", "edit", "delete"} => Owner[e] = Reader
    BY <2>1, PartyFacts DEF PlacedInv
  <2>3. change'[d] = change[d] /\ dpc'[d] = dpc[d] /\ hadMark'[d] = hadMark[d]
    BY <1>6
  <2>4. QED
    BY <1>2, <1>3, <1>6, <2>2, <2>3 DEF Awaits, otherOf
<1>7. QED
  BY <1>1, <1>4, <1>5, <1>6 DEF ExactInv, otherOf

\* The other person begins a change, having none under way: the copy awaits it.
LEMMA BeginsOther ==
    ASSUME DTypeOK, PlacedInv, StoredInv, NEW c \in parties, NEW e \in parties, Owner[e] = otherOf(c),
           change' = [change EXCEPT ![c] = change'[c]], dpc' = [dpc EXCEPT ![c] = dpc'[c]],
           dpc[c] = "read", change'[c] \in {"msg", "edit", "delete", "react"},
           change'[c] = "react" => dpc'[c] = "write" /\ row' = row /\ (hadMark'[c] <=> Owner[c] \in marks),
           change'[c] # "react" => Owner[c] = Writer,
           change'[c] # "msg" => row.there,
           change'[c] = "msg" => row'.body = "text" /\ ~row'.deleted,
           change'[c] = "edit" => row'.body = "edited" /\ ~row'.deleted,
           change'[c] = "delete" => row'.body = "none" /\ row'.deleted,
           UNCHANGED marks, line'[e] = line[e],
           ~busy(Owner[c]), ExactInv(e)
    PROVE  ExactInv(e)'
<1>1. c \in Conns /\ e \in Conns /\ c # e /\ otherOf(e) = Owner[c] /\ Writer # Reader
      /\ (Owner[c] = Writer => Owner[e] = Reader)
  BY PartyFacts
<1>2. \A d \in connsOf(Owner[c]) : d \in Conns /\ change[d] = "none" /\ (d # c => change'[d] = "none")
  BY DEF busy, connsOf, DTypeOK
<1>3. change'[c] # "none" /\ c \in connsOf(Owner[c])
  BY <1>1 DEF connsOf
<1>4. busy(Owner[c])'
  BY <1>3 DEF busy, connsOf
<1>5. dpc'[e] = dpc[e]
  BY <1>1 DEF DTypeOK
<1>6. ASSUME ~fetching(e) PROVE Awaits(e, c)'
  <2>1. Settled(e)
    BY <1>1, <1>6 DEF ExactInv
  <2>2. sameMark(e)' <=> sameMark(e)
    BY DEF sameMark, otherOf
  <2>3. line[e].there => sameMark(e)
    BY <2>1 DEF Settled
  <2>4. Owner[e] = Reader /\ row.there => line[e].there /\ sameBody(e)
    BY <2>1 DEF Settled
  <2>5. change'[c] # "react" => sameMark(e)
    <3> SUFFICES ASSUME change'[c] # "react", ~line[e].there PROVE sameMark(e)
      BY <2>3
    <3>1. ~row.there
      BY <1>1, <2>4
    <3>2. marks = {} /\ ~line[e].mark
      BY <1>1, <3>1 DEF StoredInv
    <3>3. QED
      BY <3>2 DEF sameMark
  <2>6. change'[c] \in {"edit", "delete"} => line'[e].there
    BY <1>1, <2>4
  <2>7. change'[c] = "react" =>
           /\ dpc'[c] = "write" => (hadMark'[c] <=> otherOf(e) \in marks') /\ (line'[e].there => sameMark(e)')
           /\ dpc'[c] # "relay"
           /\ Owner[e] = Reader => line'[e].there /\ sameBody(e)'
    BY <1>1, <2>2, <2>3, <2>4 DEF sameBody
  <2>8. QED
    BY <2>2, <2>5, <2>6, <2>7 DEF Awaits, otherOf
<1>7. fetching(e)' <=> fetching(e)
  BY <1>5 DEF fetching
<1>8. QED
  BY <1>1, <1>2, <1>3, <1>4, <1>6, <1>7 DEF ExactInv, otherOf

\* A change that begins, for everybody else who is exact.
LEMMA BeginsExact ==
    ASSUME HistoryInv, NEW c \in parties, NEW why, apart(c, why), busy(Owner[c]) => why,
           change' = [change EXCEPT ![c] = change'[c]], dpc' = [dpc EXCEPT ![c] = dpc'[c]],
           dpc[c] = "read", change'[c] \in {"msg", "edit", "delete", "react"}, dpc'[c] \in {"write", "relay"},
           change'[c] = "react" => dpc'[c] = "write" /\ row' = row /\ (hadMark'[c] <=> Owner[c] \in marks),
           change'[c] # "react" => Owner[c] = Writer,
           change'[c] # "msg" => row.there,
           ~why /\ change'[c] = "msg" => row'.body = "text" /\ ~row'.deleted,
           ~why /\ change'[c] = "edit" => row'.body = "edited" /\ ~row'.deleted,
           change'[c] = "delete" => row'.body = "none" /\ row'.deleted,
           \A d \in Conns \ {c} : line'[d] = line[d] /\ hadMark'[d] = hadMark[d],
           line'[c] = line[c] \/ (Owner[c] = Writer /\ ~row.there /\ ~line'[c].mark),
           UNCHANGED <<marks, answered>>
    PROVE  \A e \in parties : exact'[e] => ExactInv(e)'
<1> USE DEF HistoryInv
<1> SUFFICES ASSUME NEW e \in parties, exact'[e] PROVE ExactInv(e)'
  OBVIOUS
<1>1. c \in Conns /\ e \in Conns /\ Writer # Reader
  BY PartyFacts
<1>2. exact[e] /\ ~(why /\ Owner[e] = otherOf(c))
  BY <1>1 DEF apart
<1>3. ExactInv(e)
  BY <1>2
<1>4. CASE Owner[e] = otherOf(c)
  <2>1. e # c /\ ~why
    BY <1>2, <1>4, PartyFacts
  <2>2. QED
    BY <1>1, <1>3, <1>4, <2>1, BeginsOther
<1>5. CASE Owner[e] # otherOf(c)
  <2>1. Owner[e] = Owner[c] /\ otherOf(e) = otherOf(c)
    BY <1>5, PartyFacts
  <2>2. \A d \in connsOf(otherOf(e)) : d \in Conns /\ d # c
    BY <2>1, PartyFacts
  <2>3. \A d \in connsOf(otherOf(e)) : change'[d] = change[d] /\ dpc'[d] = dpc[d] /\ hadMark'[d] = hadMark[d]
    BY <1>1, <2>2 DEF DTypeOK
  <2>4. fetching(e)' <=> fetching(e)
    BY <1>1 DEF fetching, DTypeOK
  <2>5. fetching(e) => dpc'[e] = dpc[e]
    BY <1>1 DEF fetching, DTypeOK
  <2>6. Owner[e] = Reader => row' = row
    BY <1>1, <2>1
  <2>7. CASE line'[e] = line[e]
    BY <1>3, <2>3, <2>4, <2>5, <2>6, <2>7, ExactSame
  <2>8. CASE line'[e] # line[e]
    <3>1. e = c /\ Owner[c] = Writer /\ ~row.there /\ ~line'[c].mark
      BY <1>1, <2>8
    <3>2. marks = {} /\ \A d \in Conns : change[d] = "none"
      BY <3>1 DEF StoredInv
    <3>3. ~fetching(e)'
      BY <2>4, <3>1 DEF fetching
    <3>4. \A d \in connsOf(otherOf(e)) : change'[d] = "none"
      BY <2>2, <2>3, <3>2
    <3>5. Settled(e)'
      BY <1>1, <3>1, <3>2 DEF Settled, sameMark
    <3>6. QED
      BY <3>3, <3>4, <3>5 DEF ExactInv, otherOf
  <2>9. QED
    BY <2>7, <2>8
<1>6. QED
  BY <1>4, <1>5

\* What every message that changes something does to the handler's own state.
LEMMA ReceivesFacts ==
    ASSUME HistoryInv, NEW c \in parties, NEW what \in {"msg", "edit", "delete", "react"}, receives(c, what),
           NEW to \in {"write", "relay"}, goes(c, to), NEW why, apart(c, why)
    PROVE  /\ c \in Conns /\ dpc[c] = "read" /\ UNCHANGED <<answered, away>>
           /\ change'[c] = what /\ dpc'[c] = to
           /\ change' = [change EXCEPT ![c] = change'[c]] /\ dpc' = [dpc EXCEPT ![c] = dpc'[c]]
           /\ dpc' \in [Conns -> {"read", "write", "relay", "reactions", "answer"}]
           /\ change' \in [Conns -> {"none", "msg", "edit", "delete", "react"}]
           /\ exact' \in [Conns -> BOOLEAN]
           /\ dmChanges' \in 0..MaxDmChanges
           /\ (what = "react" <=> to = "write") /\ (what # "react" => Owner[c] = Writer) => PlacedInv'
<1>1. c \in Conns /\ dpc[c] = "read" /\ UNCHANGED <<answered, away>>
      /\ change' = [change EXCEPT ![c] = what] /\ dpc' = [dpc EXCEPT ![c] = to]
  BY DEF parties, receives, goes
<1>2. dmChanges' \in 0..MaxDmChanges
  BY DmHistoryAssumption DEF receives, HistoryInv, DTypeOK
<1>3. exact' \in [Conns -> BOOLEAN]
  BY Zenon DEF apart
<1>4. change'[c] = what /\ dpc'[c] = to /\ \A d \in Conns \ {c} : change'[d] = change[d] /\ dpc'[d] = dpc[d]
  BY <1>1 DEF HistoryInv, DTypeOK
<1>5. (what = "react" <=> to = "write") /\ (what # "react" => Owner[c] = Writer) => PlacedInv'
  BY <1>4 DEF HistoryInv, PlacedInv, parties
<1>6. QED
  BY <1>1, <1>2, <1>3, <1>4, <1>5 DEF HistoryInv, DTypeOK

LEMMA PersistHistory ==
    ASSUME HistoryInv, NEW c \in Conns, persistDM(c)
    PROVE  HistoryInv'
<1> USE DEF HistoryInv
<1> DEFINE why == busy(Writer) \/ row.body = "edited" \/ row.deleted
<1>1. c \in parties /\ Owner[c] = Writer
  BY DEF persistDM, parties
<1>2. /\ (row.there => line[c].there) /\ receives(c, "msg") /\ goes(c, "relay") /\ apart(c, why)
      /\ row' = persisted /\ line' = [line EXCEPT ![c].there = TRUE]
      /\ UNCHANGED <<marks, hadMark, erased>>
  BY DEF persistDM
<1>3. /\ dpc[c] = "read" /\ UNCHANGED <<answered, away>>
      /\ change'[c] = "msg" /\ dpc'[c] = "relay"
      /\ change' = [change EXCEPT ![c] = change'[c]] /\ dpc' = [dpc EXCEPT ![c] = dpc'[c]]
      /\ dpc' \in [Conns -> {"read", "write", "relay", "reactions", "answer"}]
      /\ change' \in [Conns -> {"none", "msg", "edit", "delete", "react"}]
      /\ exact' \in [Conns -> BOOLEAN] /\ dmChanges' \in 0..MaxDmChanges /\ PlacedInv'
  BY <1>1, <1>2, ReceivesFacts
<1>4. /\ row' \in Rows /\ row'.there
      /\ row.there => row' = row
      /\ ~row.there => row'.body = "text" /\ ~row'.deleted
  BY <1>2, RowFields DEF persisted, Rows
<1>5. /\ \A d \in Conns \ {c} : line'[d] = line[d]
      /\ line'[c] \in Lines /\ line'[c].there /\ line'[c].mark = line[c].mark
      /\ line' \in [Conns -> Lines]
  BY <1>2 DEF DTypeOK, Lines
<1>6. line[c].there => line'[c] = line[c]
  BY <1>2, LineFields DEF DTypeOK, Lines
<1>7. DTypeOK'
  BY <1>2, <1>3, <1>4, <1>5 DEF DTypeOK
<1>8. StoredInv'
  <2>1. row'.deleted => row'.body = "none"
    BY <1>4 DEF StoredInv
  <2>2. (erased => row'.deleted) /\ (~row'.deleted => row'.body # "none")
    BY <1>4 DEF StoredInv
  <2>3. \A d \in Conns : ~line'[d].there => ~line'[d].mark
    BY <1>5 DEF StoredInv
  <2>4. QED
    BY <1>2, <1>4, <2>1, <2>2, <2>3, Zenon DEF StoredInv
<1>9. \A e \in parties : exact'[e] => ExactInv(e)'
  <2>1. ~why => row'.body = "text" /\ ~row'.deleted
    <3>1. ~why /\ row.there => row.body = "text"
      BY RowFields DEF StoredInv
    <3>2. QED
      BY <1>4, <3>1
  <2>2. busy(Owner[c]) => why
    BY <1>1
  <2>3. line'[c] = line[c] \/ (Owner[c] = Writer /\ ~row.there /\ ~line'[c].mark)
    BY <1>1, <1>2, <1>5, <1>6 DEF StoredInv
  <2> HIDE DEF why
  <2>4. QED
    BY <1>1, <1>2, <1>3, <1>5, <2>1, <2>2, <2>3, BeginsExact
<1>10. QED
  BY <1>3, <1>7, <1>8, <1>9

LEMMA EditHistory ==
    ASSUME HistoryInv, NEW c \in Conns, editDM(c)
    PROVE  HistoryInv'
<1> USE DEF HistoryInv
<1> DEFINE why == busy(Writer) \/ row.deleted
<1>1. c \in parties /\ Owner[c] = Writer
  BY DEF editDM, parties
<1>2. /\ line[c].there /\ receives(c, "edit") /\ goes(c, "relay") /\ apart(c, why)
      /\ row' = IF row.deleted THEN row ELSE [row EXCEPT !.body = "edited"]
      /\ UNCHANGED <<marks, hadMark, line, erased>>
  BY DEF editDM
<1>3. /\ dpc[c] = "read" /\ UNCHANGED <<answered, away>>
      /\ change'[c] = "edit" /\ dpc'[c] = "relay"
      /\ change' = [change EXCEPT ![c] = change'[c]] /\ dpc' = [dpc EXCEPT ![c] = dpc'[c]]
      /\ dpc' \in [Conns -> {"read", "write", "relay", "reactions", "answer"}]
      /\ change' \in [Conns -> {"none", "msg", "edit", "delete", "react"}]
      /\ exact' \in [Conns -> BOOLEAN] /\ dmChanges' \in 0..MaxDmChanges /\ PlacedInv'
  BY <1>1, <1>2, ReceivesFacts
<1>4. row.there
  BY <1>2 DEF StoredInv
<1>5. /\ row' \in Rows /\ row'.there
      /\ row.deleted => row' = row
      /\ ~row.deleted => row'.body = "edited" /\ ~row'.deleted
  BY <1>2, <1>4, RowFields DEF Rows
<1>6. DTypeOK'
  BY <1>2, <1>3, <1>5 DEF DTypeOK
<1>7. StoredInv'
  <2>1. /\ row'.deleted => row'.body = "none"
        /\ ~row'.deleted => row'.body # "none"
        /\ erased => row'.deleted
    BY <1>5 DEF StoredInv
  <2>2. QED
    BY <1>2, <1>5, <2>1, Zenon DEF StoredInv
<1>8. \A e \in parties : exact'[e] => ExactInv(e)'
  <2>1. ~why => row'.body = "edited" /\ ~row'.deleted
    BY <1>5
  <2>2. busy(Owner[c]) => why
    BY <1>1
  <2> HIDE DEF why
  <2>3. QED
    BY <1>1, <1>2, <1>3, <1>4, <2>1, <2>2, BeginsExact
<1>9. QED
  BY <1>3, <1>6, <1>7, <1>8

LEMMA DeleteHistory ==
    ASSUME HistoryInv, NEW c \in Conns, deleteDM(c)
    PROVE  HistoryInv'
<1> USE DEF HistoryInv
<1>1. c \in parties /\ Owner[c] = Writer
  BY DEF deleteDM, parties
<1>2. /\ line[c].there /\ receives(c, "delete") /\ goes(c, "relay") /\ apart(c, busy(Writer))
      /\ row' = [row EXCEPT !.body = "none", !.deleted = TRUE] /\ erased' = TRUE
      /\ UNCHANGED <<marks, hadMark, line>>
  BY DEF deleteDM
<1>3. /\ dpc[c] = "read" /\ UNCHANGED <<answered, away>>
      /\ change'[c] = "delete" /\ dpc'[c] = "relay"
      /\ change' = [change EXCEPT ![c] = change'[c]] /\ dpc' = [dpc EXCEPT ![c] = dpc'[c]]
      /\ dpc' \in [Conns -> {"read", "write", "relay", "reactions", "answer"}]
      /\ change' \in [Conns -> {"none", "msg", "edit", "delete", "react"}]
      /\ exact' \in [Conns -> BOOLEAN] /\ dmChanges' \in 0..MaxDmChanges /\ PlacedInv'
  BY <1>1, <1>2, ReceivesFacts
<1>4. row.there
  BY <1>2 DEF StoredInv
<1>5. row' \in Rows /\ row'.there /\ row'.body = "none" /\ row'.deleted
  BY <1>2, <1>4, RowFields DEF Rows
<1>6. DTypeOK'
  BY <1>2, <1>3, <1>5 DEF DTypeOK
<1>7. StoredInv'
  BY <1>2, <1>5, Zenon DEF StoredInv
<1>8. \A e \in parties : exact'[e] => ExactInv(e)'
  <2>1. busy(Owner[c]) => busy(Writer)
    BY <1>1
  <2>2. QED
    BY <1>1, <1>2, <1>3, <1>4, <1>5, <2>1, BeginsExact
<1>9. QED
  BY <1>3, <1>6, <1>7, <1>8

LEMMA CountHistory ==
    ASSUME HistoryInv, NEW c \in Conns, countReaction(c)
    PROVE  HistoryInv'
<1> USE DEF HistoryInv
<1>1. c \in parties
  BY DEF countReaction
<1>2. /\ line[c].there /\ receives(c, "react") /\ goes(c, "write") /\ apart(c, busy(Owner[c]))
      /\ hadMark' = [hadMark EXCEPT ![c] = Owner[c] \in marks]
      /\ UNCHANGED <<row, marks, line, erased>>
  BY DEF countReaction
<1>3. /\ dpc[c] = "read" /\ UNCHANGED <<answered, away>>
      /\ change'[c] = "react" /\ dpc'[c] = "write"
      /\ change' = [change EXCEPT ![c] = change'[c]] /\ dpc' = [dpc EXCEPT ![c] = dpc'[c]]
      /\ dpc' \in [Conns -> {"read", "write", "relay", "reactions", "answer"}]
      /\ change' \in [Conns -> {"none", "msg", "edit", "delete", "react"}]
      /\ exact' \in [Conns -> BOOLEAN] /\ dmChanges' \in 0..MaxDmChanges /\ PlacedInv'
  BY <1>1, <1>2, ReceivesFacts
<1>4. row.there
  BY <1>2 DEF StoredInv
<1>5. /\ hadMark' \in [Conns -> BOOLEAN] /\ (hadMark'[c] <=> Owner[c] \in marks)
      /\ \A d \in Conns \ {c} : hadMark'[d] = hadMark[d]
  <2> DEFINE b == Owner[c] \in marks
  <2>a. b \in BOOLEAN
    BY SMT
  <2>b. hadMark' = [hadMark EXCEPT ![c] = b]
    BY <1>2
  <2>c. hadMark \in [Conns -> BOOLEAN]
    BY DEF DTypeOK
  <2>1. b \in BOOLEAN /\ hadMark' = [hadMark EXCEPT ![c] = b] /\ hadMark \in [Conns -> BOOLEAN]
    BY <2>a, <2>b, <2>c, Zenon
  <2> HIDE DEF b
  <2>2. hadMark' \in [Conns -> BOOLEAN] /\ hadMark'[c] = b /\ \A d \in Conns \ {c} : hadMark'[d] = hadMark[d]
    BY <2>1
  <2>3. hadMark'[c] <=> b
    BY <2>1, <2>2
  <2>4. b <=> Owner[c] \in marks
    BY Zenon DEF b
  <2>5. QED
    BY <2>2, <2>3, <2>4, Zenon
<1>6. DTypeOK'
  BY <1>2, <1>3, <1>5 DEF DTypeOK
<1>7. StoredInv'
  BY <1>2, <1>3, <1>4, Zenon DEF StoredInv
<1>8. \A e \in parties : exact'[e] => ExactInv(e)'
  BY <1>1, <1>2, <1>3, <1>4, <1>5, BeginsExact
<1>9. QED
  BY <1>3, <1>6, <1>7, <1>8

LEMMA ToggleHistory ==
    ASSUME HistoryInv, NEW c \in Conns, toggleReaction(c)
    PROVE  HistoryInv'
<1> USE DEF HistoryInv
<1>1. /\ dpc[c] = "write" /\ dpc' = [dpc EXCEPT ![c] = "relay"]
      /\ marks' = toggled(c) /\ hadMark' = [hadMark EXCEPT ![c] = FALSE]
      /\ UNCHANGED <<row, change, answered, line, away, exact, erased, dmChanges>>
  BY DEF toggleReaction, goes
<1>2. c \in parties /\ change[c] = "react" /\ Owner[c] \in {Writer, Reader}
  BY <1>1, PartyFacts DEF PlacedInv
<1>3. /\ marks' \subseteq {Writer, Reader}
      /\ \A u : u # Owner[c] => (u \in marks' <=> u \in marks)
      /\ Owner[c] \in marks' <=> ~hadMark[c]
  BY <1>1, <1>2 DEF toggled, DTypeOK
<1>4. DTypeOK'
  BY <1>1, <1>3 DEF DTypeOK
<1>5. dpc'[c] = "relay" /\ \A d \in Conns \ {c} : dpc'[d] = dpc[d] /\ hadMark'[d] = hadMark[d]
  BY <1>1 DEF DTypeOK
<1>6. PlacedInv'
  BY <1>1, <1>2, <1>5 DEF PlacedInv, parties
<1>7. row.there
  BY <1>2 DEF StoredInv
<1>8. StoredInv'
  BY <1>1, <1>7, Zenon DEF StoredInv
<1>9. ASSUME NEW e \in parties, exact'[e] PROVE ExactInv(e)'
  <2>1. ExactInv(e) /\ e \in Conns
    BY <1>1, <1>9, PartyFacts
  <2>2. CASE Owner[e] = otherOf(c)
    <3>1. e # c /\ otherOf(e) = Owner[c] /\ dpc'[e] = dpc[e]
      BY <1>2, <1>5, <2>1, <2>2, PartyFacts
    <3>2. c \in connsOf(otherOf(e)) /\ change'[c] # "none"
      BY <1>1, <1>2, <3>1 DEF connsOf
    <3>3. busy(otherOf(e))'
      BY <3>2 DEF busy, connsOf, otherOf
    <3>4. \A d \in connsOf(otherOf(e)) : change'[d] # "none" => d = c
      BY <1>1, <2>1, <3>2 DEF ExactInv
    <3>5. ASSUME ~fetching(e) PROVE Awaits(e, c)'
      <4>1. Awaits(e, c)
        BY <1>1, <2>1, <3>2, <3>5 DEF ExactInv
      <4>2. /\ hadMark[c] <=> otherOf(e) \in marks
            /\ line[e].there => sameMark(e)
            /\ Owner[e] = Reader => line[e].there /\ sameBody(e)
        BY <1>1, <1>2, <4>1 DEF Awaits
      <4>3. line[e].there => ~(sameMark(e)')
        BY <1>1, <1>3, <3>1, <4>2 DEF sameMark, otherOf
      <4>4. sameBody(e)' <=> sameBody(e)
        BY <1>1 DEF sameBody
      <4>5. QED
        BY <1>1, <1>2, <1>5, <4>2, <4>3, <4>4 DEF Awaits
    <3>6. fetching(e)' <=> fetching(e)
      BY <3>1 DEF fetching
    <3>7. QED
      BY <3>2, <3>3, <3>4, <3>5, <3>6 DEF ExactInv, otherOf
  <2>3. CASE Owner[e] # otherOf(c)
    <3>1. Owner[e] = Owner[c] /\ otherOf(e) = otherOf(c) /\ otherOf(e) # Owner[c]
      BY <1>2, <2>3, PartyFacts
    <3>2. \A d \in connsOf(otherOf(e)) : d \in Conns /\ d # c
      BY <1>2, <3>1, PartyFacts
    <3>3. (fetching(e)' <=> fetching(e)) /\ (fetching(e) => dpc'[e] = dpc[e])
      BY <1>1, <1>5, <2>1 DEF fetching
    <3>4. QED
      BY <1>1, <1>3, <1>5, <2>1, <3>1, <3>2, <3>3, ExactSame
  <2>4. QED
    BY <2>2, <2>3
<1>10. QED
  BY <1>4, <1>6, <1>8, <1>9

\* What a client makes of a relay, field by field.
LEMMA RelayedFacts ==
    ASSUME DTypeOK, NEW d \in Conns, NEW what \in {"msg", "edit", "delete", "react"}
    PROVE  /\ relayed(d, what) \in Lines
           /\ what = "msg" => /\ relayed(d, what).there /\ relayed(d, what).body = "text" /\ ~relayed(d, what).deleted
                              /\ relayed(d, what).mark = line[d].mark
           /\ what # "msg" /\ ~line[d].there => relayed(d, what) = line[d]
           /\ what # "msg" /\ line[d].there => relayed(d, what).there
           /\ what = "edit" /\ line[d].there =>
                  relayed(d, what).body = "edited" /\ ~relayed(d, what).deleted /\ relayed(d, what).mark = line[d].mark
           /\ what = "delete" /\ line[d].there =>
                  relayed(d, what).body = "none" /\ relayed(d, what).deleted /\ relayed(d, what).mark = line[d].mark
           /\ what = "react" /\ line[d].there =>
                  /\ relayed(d, what).body = line[d].body /\ relayed(d, what).deleted = line[d].deleted
                  /\ relayed(d, what).mark <=> ~line[d].mark
<1>1. line[d] \in Lines
  BY LineFields
<1>2. CASE what = "msg"
  <2>1. relayed(d, what) = [line[d] EXCEPT !.there = TRUE, !.body = "text", !.deleted = FALSE]
    BY <1>2, Zenon DEF relayed
  <2>2. QED
    BY <1>1, <1>2, <2>1 DEF Lines
<1>3. CASE what # "msg" /\ ~line[d].there
  <2>1. relayed(d, what) = line[d]
    BY <1>3 DEF relayed
  <2>2. QED
    BY <1>1, <1>3, <2>1
<1>4. CASE what = "edit" /\ line[d].there
  <2>1. relayed(d, what) = [line[d] EXCEPT !.body = "edited", !.deleted = FALSE]
    BY <1>4 DEF relayed
  <2>2. QED
    BY <1>1, <1>4, <2>1 DEF Lines
<1>5. CASE what = "delete" /\ line[d].there
  <2>1. relayed(d, what) = [line[d] EXCEPT !.body = "none", !.deleted = TRUE]
    BY <1>5 DEF relayed
  <2>2. QED
    BY <1>1, <1>5, <2>1 DEF Lines
<1>6. CASE what = "react" /\ line[d].there
  <2>1. relayed(d, what) = [line[d] EXCEPT !.mark = ~line[d].mark]
    BY <1>6 DEF relayed
  <2> DEFINE b == ~line[d].mark
  <2>2. b \in BOOLEAN /\ (b <=> ~line[d].mark)
    OBVIOUS
  <2> HIDE DEF b
  <2>3. relayed(d, what) = [line[d] EXCEPT !.mark = b]
    BY <2>1 DEF b
  <2>4. /\ relayed(d, what) \in Lines /\ relayed(d, what).mark = b /\ relayed(d, what).there = line[d].there
        /\ relayed(d, what).body = line[d].body /\ relayed(d, what).deleted = line[d].deleted
    BY <1>1, <2>2, <2>3 DEF Lines
  <2>5. QED
    BY <1>6, <2>2, <2>4
<1>7. QED
  BY <1>2, <1>3, <1>4, <1>5, <1>6

LEMMA RelayHistory ==
    ASSUME HistoryInv, NEW c \in Conns, relay(c)
    PROVE  HistoryInv'
<1> USE DEF HistoryInv
<1>1. /\ dpc[c] = "relay" /\ dpc' = [dpc EXCEPT ![c] = "read"]
      /\ line' = [d \in Conns |->
             IF Owner[d] = otherOf(c) /\ d \notin away THEN relayed(d, change[c]) ELSE line[d]]
      /\ exact' = [d \in Conns |->
             exact[d] /\ ~(Owner[d] = otherOf(c) /\ (d \in away \/ dpc[d] \in {"reactions", "answer"}))]
      /\ change' = [change EXCEPT ![c] = "none"]
      /\ UNCHANGED <<row, marks, hadMark, answered, away, erased, dmChanges>>
  BY DEF relay, goes
<1>2. c \in parties /\ change[c] \in {"msg", "edit", "delete", "react"}
  BY <1>1 DEF PlacedInv, DTypeOK
<1>3. \A d \in Conns : line'[d] = (IF Owner[d] = otherOf(c) /\ d \notin away THEN relayed(d, change[c]) ELSE line[d])
  BY <1>1
<1>4. line' \in [Conns -> Lines]
  BY <1>1, <1>2, RelayedFacts, LineFields
<1>5. exact' \in [Conns -> BOOLEAN]
  BY <1>1, Zenon
<1>6. DTypeOK'
  BY <1>1, <1>4, <1>5 DEF DTypeOK
<1>7. /\ dpc'[c] = "read" /\ change'[c] = "none"
      /\ \A d \in Conns \ {c} : dpc'[d] = dpc[d] /\ change'[d] = change[d]
  BY <1>1 DEF DTypeOK
<1>8. PlacedInv'
  BY <1>7 DEF PlacedInv, parties
<1>9. row.there
  BY <1>2 DEF StoredInv
<1>10. \A d \in Conns : ~line'[d].there => ~line'[d].mark
  BY <1>2, <1>3, RelayedFacts DEF StoredInv
<1>11. StoredInv'
  BY <1>1, <1>9, <1>10, Zenon DEF StoredInv
<1>12. ASSUME NEW e \in parties, exact'[e] PROVE ExactInv(e)'
  <2>1. e \in Conns /\ exact[e] /\ ~(Owner[e] = otherOf(c) /\ (e \in away \/ dpc[e] \in {"reactions", "answer"}))
    BY <1>1, <1>12, PartyFacts
  <2>2. ExactInv(e)
    BY <2>1
  <2>3. CASE Owner[e] = otherOf(c)
    <3>1. e # c /\ otherOf(e) = Owner[c] /\ dpc'[e] = dpc[e]
      BY <1>2, <1>7, <2>1, <2>3, PartyFacts
    <3>2. e \notin away /\ ~fetching(e) /\ ~(fetching(e)')
      BY <2>1, <2>3, <3>1 DEF fetching
    <3>3. c \in connsOf(otherOf(e)) /\ change[c] # "none"
      BY <1>2, <3>1 DEF connsOf
    <3>4. Awaits(e, c) /\ \A d \in connsOf(otherOf(e)) : d \in Conns /\ change'[d] = "none"
      BY <1>7, <2>2, <3>2, <3>3 DEF ExactInv, connsOf
    <3>5. line'[e] = relayed(e, change[c])
      BY <1>3, <2>1, <2>3, <3>2
    <3>6. Settled(e)'
      <4>1. CASE change[c] = "react"
        <5>1. (line[e].there => ~sameMark(e)) /\ (Owner[e] = Reader => line[e].there /\ sameBody(e))
          BY <1>1, <3>4, <4>1 DEF Awaits
        <5>2. CASE line[e].there
          <6>1. /\ line'[e].there /\ line'[e].body = line[e].body /\ line'[e].deleted = line[e].deleted
                /\ line'[e].mark <=> ~line[e].mark
            BY <2>1, <3>5, <4>1, <5>2, RelayedFacts
          <6>2. sameMark(e)' /\ (Owner[e] = Reader => sameBody(e)')
            BY <1>1, <5>1, <5>2, <6>1 DEF sameMark, sameBody, otherOf
          <6>3. QED
            BY <6>1, <6>2 DEF Settled
        <5>3. CASE ~line[e].there
          <6>1. line'[e] = line[e] /\ Owner[e] # Reader
            BY <2>1, <3>5, <4>1, <5>1, <5>3, RelayedFacts
          <6>2. QED
            BY <5>3, <6>1 DEF Settled
        <5>4. QED
          BY <5>2, <5>3
      <4>2. CASE change[c] # "react"
        <5>1. sameMark(e) /\ (change[c] # "msg" => line[e].there)
          BY <1>2, <3>4, <4>2 DEF Awaits
        <5>2. line'[e].there /\ line'[e].mark = line[e].mark
          BY <1>2, <2>1, <3>5, <4>2, <5>1, RelayedFacts
        <5>3. line'[e].body = row.body /\ (line'[e].deleted <=> row.deleted)
          BY <1>2, <2>1, <3>4, <3>5, <4>2, <5>1, RelayedFacts DEF Awaits
        <5>4. line'[e].deleted = row.deleted
          BY <1>4, <2>1, <5>3, RowFields DEF Lines
        <5>5. sameMark(e)' /\ sameBody(e)'
          BY <1>1, <5>1, <5>2, <5>3, <5>4 DEF sameMark, sameBody, otherOf
        <5>6. QED
          BY <5>2, <5>5 DEF Settled
      <4>3. QED
        BY <4>1, <4>2
    <3>7. QED
      BY <3>2, <3>4, <3>6 DEF ExactInv, otherOf
  <2>4. CASE Owner[e] # otherOf(c)
    <3>1. Owner[e] = Owner[c] /\ otherOf(e) = otherOf(c)
      BY <1>2, <2>4, PartyFacts
    <3>2. \A d \in connsOf(otherOf(e)) : d \in Conns /\ d # c
      BY <1>2, <3>1, PartyFacts
    <3>3. (fetching(e)' <=> fetching(e)) /\ (fetching(e) => dpc'[e] = dpc[e])
      BY <1>1, <1>7, <2>1 DEF fetching
    <3>4. line'[e] = line[e]
      BY <1>3, <2>1, <2>4
    <3>5. QED
      BY <1>1, <1>7, <2>2, <3>2, <3>3, <3>4, ExactSame
  <2>5. QED
    BY <2>3, <2>4
<1>13. QED
  BY <1>6, <1>8, <1>11, <1>12

LEMMA DropHistory ==
    ASSUME HistoryInv, NEW c \in Conns, drop(c)
    PROVE  HistoryInv'
<1> USE DEF HistoryInv
<1>1. away' \subseteq Conns /\ UNCHANGED <<row, marks, dpc, change, hadMark, answered, line, exact, erased, dmChanges>>
  BY DEF drop, DTypeOK
<1>2. DTypeOK' /\ PlacedInv' /\ StoredInv'
  BY <1>1, Zenon DEF DTypeOK, PlacedInv, StoredInv
<1>3. ASSUME NEW e \in parties, exact'[e] PROVE ExactInv(e)'
  <2>1. ExactInv(e) /\ (fetching(e)' <=> fetching(e))
    BY <1>1, <1>3 DEF fetching
  <2>2. QED
    BY <1>1, <2>1, ExactSame
<1>4. QED
  BY <1>2, <1>3

LEMMA FetchMessagesHistory ==
    ASSUME HistoryInv, NEW c \in Conns, fetchMessages(c)
    PROVE  HistoryInv'
<1> USE DEF HistoryInv
<1>1. /\ c \in parties /\ dpc[c] = "read" /\ dpc' = [dpc EXCEPT ![c] = "reactions"]
      /\ away' = away \ {c} /\ answered' = [answered EXCEPT ![c] = shownRow]
      /\ exact' = [exact EXCEPT ![c] = ~busy(otherOf(c))]
      /\ UNCHANGED <<row, marks, change, hadMark, line, erased, dmChanges>>
  BY DEF fetchMessages, goes
<1>2. /\ shownRow \in Lines /\ shownRow.there = row.there /\ shownRow.body = row.body /\ shownRow.deleted = row.deleted
  BY RowFields DEF shownRow, Lines, StoredInv
<1>3. exact' \in [Conns -> BOOLEAN] /\ (exact'[c] <=> ~busy(otherOf(c))) /\ \A d \in Conns \ {c} : exact'[d] = exact[d]
  <2> DEFINE b == ~busy(otherOf(c))
  <2>1. b \in BOOLEAN /\ exact' = [exact EXCEPT ![c] = b] /\ exact \in [Conns -> BOOLEAN]
    BY <1>1, Zenon DEF DTypeOK
  <2> SUFFICES exact' \in [Conns -> BOOLEAN] /\ exact'[c] = b /\ \A d \in Conns \ {c} : exact'[d] = exact[d]
    OBVIOUS
  <2> HIDE DEF b
  <2>2. QED
    BY <2>1
<1>4. DTypeOK'
  BY <1>1, <1>2, <1>3 DEF DTypeOK
<1>5. /\ dpc'[c] = "reactions" /\ answered'[c] = shownRow
      /\ \A d \in Conns \ {c} : dpc'[d] = dpc[d] /\ answered'[d] = answered[d]
  BY <1>1 DEF DTypeOK
<1>6. PlacedInv'
  BY <1>1, <1>5 DEF PlacedInv, parties
<1>7. StoredInv'
  BY <1>1, <1>2, <1>5, Zenon DEF StoredInv
<1>8. ASSUME NEW e \in parties, exact'[e] PROVE ExactInv(e)'
  <2>0. e \in Conns
    BY PartyFacts
  <2>1. CASE e = c
    <3>1. ~busy(otherOf(c)) /\ ~(busy(otherOf(c))')
      BY <1>1, <1>3, <1>8, <2>1 DEF busy
    <3>2. \A d \in connsOf(otherOf(c)) : change'[d] = "none"
      BY <1>1, <3>1 DEF busy
    <3>3. ~row.there => ~line[c].there
      BY DEF StoredInv
    <3>4. Fetched(c)'
      BY <1>1, <1>2, <1>5, <3>3 DEF Fetched
    <3>5. fetching(c)'
      BY <1>5 DEF fetching
    <3>6. QED
      BY <2>1, <3>1, <3>2, <3>4, <3>5 DEF ExactInv, otherOf
  <2>2. CASE e # c
    <3>1. ExactInv(e) /\ dpc'[e] = dpc[e]
      BY <1>3, <1>5, <1>8, <2>0, <2>2
    <3>2. fetching(e)' <=> fetching(e)
      BY <3>1 DEF fetching
    <3>3. change[c] = "none"
      BY <1>1 DEF PlacedInv
    <3>4. \A d \in connsOf(otherOf(e)) : d \in Conns
      BY DEF connsOf
    <3>5. QED
      BY <1>1, <1>5, <2>0, <2>2, <3>1, <3>2, <3>3, <3>4, ExactSame
  <2>3. QED
    BY <2>1, <2>2
<1>9. QED
  BY <1>4, <1>6, <1>7, <1>8

LEMMA FetchReactionsHistory ==
    ASSUME HistoryInv, NEW c \in Conns, fetchReactions(c)
    PROVE  HistoryInv'
<1> USE DEF HistoryInv
<1> DEFINE b == answered[c].there /\ otherOf(c) \in marks
<1>1. /\ dpc[c] = "reactions" /\ dpc' = [dpc EXCEPT ![c] = "answer"]
      /\ answered' = [answered EXCEPT ![c].mark = b]
      /\ UNCHANGED <<row, marks, change, hadMark, line, away, exact, erased, dmChanges>>
  BY DEF fetchReactions, goes
<1>2. c \in parties
  BY <1>1 DEF PlacedInv
<1>3. b \in BOOLEAN /\ (answered[c].there => (b <=> otherOf(c) \in marks))
  OBVIOUS
<1> HIDE DEF b
<1>4. /\ answered' \in [Conns -> Lines] /\ answered'[c].mark = b /\ answered'[c].there = answered[c].there
      /\ answered'[c].body = answered[c].body /\ answered'[c].deleted = answered[c].deleted
      /\ \A d \in Conns \ {c} : answered'[d] = answered[d]
  BY <1>1, <1>3 DEF DTypeOK, Lines
<1>5. DTypeOK'
  BY <1>1, <1>4 DEF DTypeOK
<1>6. dpc'[c] = "answer" /\ \A d \in Conns \ {c} : dpc'[d] = dpc[d]
  BY <1>1 DEF DTypeOK
<1>7. PlacedInv'
  BY <1>1, <1>2, <1>6 DEF PlacedInv, parties
<1>8. StoredInv'
  <2>1. \A d \in Conns : answered'[d].there = answered[d].there
    BY <1>4
  <2>2. QED
    BY <1>1, <2>1, Zenon DEF StoredInv
<1>9. ASSUME NEW e \in parties, exact'[e] PROVE ExactInv(e)'
  <2>0. e \in Conns /\ ExactInv(e)
    BY <1>1, <1>9, PartyFacts
  <2>1. CASE e = c
    <3>1. busy(otherOf(c))' <=> busy(otherOf(c))
      BY <1>1 DEF busy
    <3>2. fetching(c) /\ fetching(c)'
      BY <1>1, <1>6 DEF fetching
    <3>3. Fetched(c) => Fetched(c)'
      BY <1>1, <1>3, <1>4 DEF Fetched, otherOf
    <3>4. QED
      BY <1>1, <2>0, <2>1, <3>1, <3>2, <3>3 DEF ExactInv, otherOf
  <2>2. CASE e # c
    <3>1. dpc'[e] = dpc[e]
      BY <1>6, <2>0, <2>2
    <3>2. fetching(e)' <=> fetching(e)
      BY <3>1 DEF fetching
    <3>3. change[c] = "none"
      BY <1>1 DEF PlacedInv
    <3>4. \A d \in connsOf(otherOf(e)) : d \in Conns
      BY DEF connsOf
    <3>5. QED
      BY <1>1, <1>4, <1>6, <2>0, <2>2, <3>1, <3>2, <3>3, <3>4, ExactSame
  <2>3. QED
    BY <2>1, <2>2
<1>10. QED
  BY <1>5, <1>7, <1>8, <1>9

LEMMA AnswerHistory ==
    ASSUME HistoryInv, NEW c \in Conns, dmHistory(c)
    PROVE  HistoryInv'
<1> USE DEF HistoryInv
<1>1. /\ dpc[c] = "answer" /\ dpc' = [dpc EXCEPT ![c] = "read"]
      /\ line' = IF answered[c].there THEN [line EXCEPT ![c] = answered[c]] ELSE line
      /\ answered' = [answered EXCEPT ![c] = NoLine]
      /\ exact' = [exact EXCEPT ![c] = exact[c] /\ ~busy(otherOf(c))]
      /\ UNCHANGED <<row, marks, change, hadMark, away, erased, dmChanges>>
  BY DEF dmHistory, goes
<1>2. c \in parties
  BY <1>1 DEF PlacedInv
<1>3. /\ line' \in [Conns -> Lines]
      /\ line'[c] = (IF answered[c].there THEN answered[c] ELSE line[c])
      /\ \A d \in Conns \ {c} : line'[d] = line[d]
  BY <1>1 DEF DTypeOK
<1>4. NoLine \in Lines /\ ~NoLine.there
  BY DEF NoLine, Lines
<1>5. exact' \in [Conns -> BOOLEAN] /\ (exact'[c] <=> exact[c] /\ ~busy(otherOf(c))) /\ \A d \in Conns \ {c} : exact'[d] = exact[d]
  <2> DEFINE b == exact[c] /\ ~busy(otherOf(c))
  <2>1. b \in BOOLEAN /\ exact' = [exact EXCEPT ![c] = b] /\ exact \in [Conns -> BOOLEAN]
    BY <1>1, Zenon DEF DTypeOK
  <2> SUFFICES exact' \in [Conns -> BOOLEAN] /\ exact'[c] = b /\ \A d \in Conns \ {c} : exact'[d] = exact[d]
    OBVIOUS
  <2> HIDE DEF b
  <2>2. QED
    BY <2>1
<1>6. DTypeOK'
  BY <1>1, <1>3, <1>4, <1>5 DEF DTypeOK
<1>7. /\ dpc'[c] = "read" /\ answered'[c] = NoLine
      /\ \A d \in Conns \ {c} : dpc'[d] = dpc[d] /\ answered'[d] = answered[d]
  BY <1>1 DEF DTypeOK
<1>8. PlacedInv'
  BY <1>1, <1>7 DEF PlacedInv, parties
<1>9. StoredInv'
  <2>1. \A d \in Conns : /\ ~line'[d].there => ~line'[d].mark
                         /\ ~row.there => ~line'[d].there /\ ~answered'[d].there
    BY <1>3, <1>4, <1>7 DEF StoredInv
  <2>2. QED
    BY <1>1, <2>1, Zenon DEF StoredInv
<1>10. ASSUME NEW e \in parties, exact'[e] PROVE ExactInv(e)'
  <2>0. e \in Conns /\ ExactInv(e)
    BY <1>5, <1>10, PartyFacts
  <2>1. CASE e = c
    <3>1. ~busy(otherOf(c)) /\ ~(busy(otherOf(c))')
      BY <1>1, <1>5, <1>10, <2>1 DEF busy
    <3>2. \A d \in connsOf(otherOf(c)) : change'[d] = "none"
      BY <1>1, <3>1 DEF busy
    <3>3. Fetched(c)
      BY <1>1, <2>0, <2>1, <3>1 DEF ExactInv, fetching
    <3>4. Settled(c)'
      <4>1. CASE answered[c].there
        <5>1. line'[c] = answered[c]
          BY <1>3, <4>1
        <5>2. sameMark(c)' /\ (Owner[c] = Reader => sameBody(c)')
          BY <1>1, <3>3, <4>1, <5>1 DEF Fetched, sameMark, sameBody, otherOf
        <5>3. QED
          BY <4>1, <5>1, <5>2 DEF Settled
      <4>2. CASE ~answered[c].there
        <5>1. line'[c] = line[c] /\ ~line[c].there /\ (Owner[c] = Reader => ~row.there)
          BY <1>3, <3>3, <4>2 DEF Fetched
        <5>2. QED
          BY <1>1, <5>1 DEF Settled
      <4>3. QED
        BY <4>1, <4>2
    <3>5. ~(fetching(c)')
      BY <1>7 DEF fetching
    <3>6. QED
      BY <2>1, <3>1, <3>2, <3>4, <3>5 DEF ExactInv, otherOf
  <2>2. CASE e # c
    <3>1. dpc'[e] = dpc[e] /\ line'[e] = line[e] /\ answered'[e] = answered[e]
      BY <1>3, <1>7, <2>0, <2>2
    <3>2. fetching(e)' <=> fetching(e)
      BY <3>1 DEF fetching
    <3>3. change[c] = "none"
      BY <1>1 DEF PlacedInv
    <3>4. \A d \in connsOf(otherOf(e)) : d \in Conns
      BY DEF connsOf
    <3>5. QED
      BY <1>1, <1>7, <2>0, <2>2, <3>1, <3>2, <3>3, <3>4, ExactSame
  <2>3. QED
    BY <2>1, <2>2
<1>11. QED
  BY <1>6, <1>8, <1>9, <1>10

LEMMA DmNext == HistoryInv /\ [DNext]_dvars => HistoryInv'
<1> SUFFICES ASSUME HistoryInv, [DNext]_dvars PROVE HistoryInv'
  OBVIOUS
<1>1. CASE UNCHANGED dvars
  <2>1. DTypeOK' /\ PlacedInv' /\ StoredInv'
    BY <1>1, Zenon DEF dvars, HistoryInv, DTypeOK, PlacedInv, StoredInv
  <2>2. ASSUME NEW e \in parties, exact'[e] PROVE ExactInv(e)'
    <3>1. ExactInv(e) /\ PlacedInv /\ (fetching(e)' <=> fetching(e))
      BY <1>1, <2>2 DEF dvars, fetching, HistoryInv
    <3>2. QED
      BY <1>1, <3>1, ExactSame DEF dvars
  <2>3. QED
    BY <2>1, <2>2 DEF HistoryInv
<1>2. CASE DNext
  BY <1>2, PersistHistory, EditHistory, DeleteHistory, CountHistory, ToggleHistory, RelayHistory, DropHistory,
     FetchMessagesHistory, FetchReactionsHistory, AnswerHistory DEF DNext
<1>3. QED
  BY <1>1, <1>2

(***************************************************************************)
(* persistDM, editDM, deleteDM, toggleReaction, the relays and             *)
(* fetchDMHistory: a deleted message stays deleted whatever is sent about  *)
(* it later, and when nothing is under way every client that has missed    *)
(* nothing has what the tables have, for any number of devices.            *)
(***************************************************************************)
THEOREM HistoryKept == DSpec => []HistorySafe
<1>1. HistoryInv => HistorySafe
  <2> SUFFICES ASSUME HistoryInv PROVE HistorySafe
    OBVIOUS
  <2>1. DeletedForGood
    BY DEF HistoryInv, StoredInv, DeletedForGood
  <2>2. BothSidesConverge
    <3> SUFFICES ASSUME \A c \in Conns : dpc[c] = "read", NEW c \in parties, line[c].there, exact[c]
                 PROVE  sameMark(c) /\ (Owner[c] = Reader => sameBody(c))
      BY DEF BothSidesConverge, sameMark, sameBody
    <3>1. c \in Conns /\ ~fetching(c) /\ ~busy(otherOf(c))
      BY PartyFacts DEF fetching, busy, connsOf, HistoryInv, PlacedInv
    <3>2. Settled(c)
      BY <3>1 DEF HistoryInv, ExactInv
    <3>3. QED
      BY <3>2 DEF Settled
  <2>3. QED
    BY <2>1, <2>2 DEF HistoryInv, HistorySafe
<1>2. QED
  BY <1>1, DmInit, DmNext, PTL DEF DSpec
=============================================================================
