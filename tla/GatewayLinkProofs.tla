-------------------------- MODULE GatewayLinkProofs --------------------------
(***************************************************************************)
(* The gateway's map holds open connections only, and whoever awaits a     *)
(* CALL awaits one that is watched: for any number of chargers,            *)
(* connections, solves and breaks.                                         *)
(***************************************************************************)
EXTENDS GatewayLink, TLAPS

\* An OcppRpc exists only for a socket that was accepted, and that one has a charger.
RpcIsInUse ==
  /\ \A s \in rpc : sock[s] # "unused"
  /\ \A s \in Sockets : sock[s] # "unused" => owner[s] \in Chargers

IInv == TypeOK /\ RpcIsInUse /\ MapHoldsOpenRpc /\ AwaitedCallsAreWatched

-----------------------------------------------------------------------------

\* What a queue of CALLs holds after one more was added.
LEMMA RangeOfAppend ==
  ASSUME NEW q \in Seq(Commands), NEW m \in Commands
  PROVE  /\ Append(q, m) \in Seq(Commands)
         /\ m \in Range(Append(q, m))
         /\ \A x \in Range(q) : x \in Range(Append(q, m))
<1>1. /\ Append(q, m) \in Seq(Commands)
      /\ DOMAIN q = 1..Len(q) /\ Len(q) \in Nat
      /\ DOMAIN Append(q, m) = 1..(Len(q) + 1)
      /\ Append(q, m)[Len(q) + 1] = m
      /\ \A i \in DOMAIN q : i \in DOMAIN Append(q, m) /\ Append(q, m)[i] = q[i]
  OBVIOUS
<1>2. Len(q) + 1 \in DOMAIN Append(q, m)
  BY <1>1
<1> QED
  BY <1>1, <1>2 DEF Range

\* What it loses with its head.
LEMMA RangeOfTail ==
  ASSUME NEW q \in Seq(Commands), q # <<>>
  PROVE  /\ Tail(q) \in Seq(Commands)
         /\ Head(q) \in Commands
         /\ \A x \in Range(q) : x = Head(q) \/ x \in Range(Tail(q))
<1>1. /\ Tail(q) \in Seq(Commands) /\ Head(q) = q[1] /\ Head(q) \in Commands
      /\ DOMAIN q = 1..Len(q) /\ Len(q) \in Nat
      /\ DOMAIN Tail(q) = 1..(Len(q) - 1)
      /\ \A i \in 1..(Len(q) - 1) : Tail(q)[i] = q[i + 1]
  OBVIOUS
<1>2. \A i \in DOMAIN q : i = 1 \/ (i - 1 \in DOMAIN Tail(q) /\ Tail(q)[i - 1] = q[i])
  BY <1>1
<1> QED
  BY <1>1, <1>2 DEF Range

\* Which CALL carries a share, and which hands back control.
LEMMA CommandsAreTyped ==
  /\ Cmd("safety", "safety") \in Commands
  /\ Cmd("clear", "none") \in Commands
  /\ \A share \in Shares : Cmd("reserve", share) \in Commands /\ Cmd("reserve", share).kind = "reserve"
  /\ \A m \in Commands : /\ m.kind = "reserve" => m.level \in Shares
                         /\ m.kind # "clear" => m # Cmd("clear", "none")
<1>1. \A m \in Commands : \/ m = [kind |-> "safety", level |-> "safety"]
                         \/ m = [kind |-> "clear", level |-> "none"]
                         \/ \E share \in Shares : m = [kind |-> "reserve", level |-> share]
  BY DEF Cmd, Commands
<1>2. \A m \in Commands : m.kind = "reserve" => m.level \in Shares
  <2> SUFFICES ASSUME NEW m \in Commands, m.kind = "reserve" PROVE m.level \in Shares
    OBVIOUS
  <2>1. \E share \in Shares : m = [kind |-> "reserve", level |-> share]
    BY <1>1
  <2> QED
    BY <2>1
<1>3. \A m \in Commands : m.kind # "clear" => m # Cmd("clear", "none")
  BY DEF Cmd
<1>4. \A share \in Shares : Cmd("reserve", share) \in Commands /\ Cmd("reserve", share).kind = "reserve"
  BY DEF Cmd, Commands
<1>5. Cmd("safety", "safety") \in Commands /\ Cmd("clear", "none") \in Commands
  BY DEF Commands
<1> QED
  BY <1>2, <1>3, <1>4, <1>5

\* Nobody is connected and nobody waits.
LEMMA InitIInv == Init => IInv
BY BoundsAssumption DEF Init, IInv, TypeOK, RpcIsInUse, MapHoldsOpenRpc, Reachable,
   AwaitedCallsAreWatched, Sockets, NoPass, Shares

\* Closing OcppRpcs tells whoever awaits one of their CALLs, and nobody else.
LEMMA ToldAreFree ==
  ASSUME IInv, NEW closing \in SUBSET Sockets, CallersTold(closing),
         rpc' \in SUBSET Sockets, rpc \ closing \subseteq rpc',
         \A s \in rpc : owner'[s] = owner[s]
  PROVE  /\ calls' \in [Sockets -> Seq(Commands)]
         /\ solve' \in [on : BOOLEAN, share : Shares, todo : SUBSET Chargers,
                        awaits : Sockets \cup {0}]
         /\ handing' \in SUBSET Chargers
         /\ AwaitedCallsAreWatched'
<1>1. /\ calls' = [s \in Sockets |-> IF s \in closing THEN <<>> ELSE calls[s]]
      /\ solve' = IF solve.awaits \in closing THEN [solve EXCEPT !.awaits = 0] ELSE solve
      /\ handing' = handing \ {owner[s] : s \in {r \in closing : Cmd("clear", "none") \in Range(calls[r])}}
  BY DEF CallersTold
<1>2. calls \in [Sockets -> Seq(Commands)] /\ rpc \subseteq Sockets
  BY DEF IInv, TypeOK, Commands
<1>3. calls' \in [Sockets -> Seq(Commands)]
  BY <1>1, <1>2
<1>4. /\ solve' \in [on : BOOLEAN, share : Shares, todo : SUBSET Chargers,
                     awaits : Sockets \cup {0}]
      /\ handing' \in SUBSET Chargers
  BY <1>1 DEF IInv, TypeOK
<1>5. ASSUME solve'.awaits # 0
      PROVE  solve'.awaits \in rpc' /\ \E m \in Range(calls'[solve'.awaits]) : m.kind = "reserve"
  <2>1. solve' = solve /\ solve.awaits \notin closing
    BY <1>1, <1>5 DEF IInv, TypeOK
  <2>2. solve.awaits \in rpc /\ \E m \in Range(calls[solve.awaits]) : m.kind = "reserve"
    BY <1>5, <2>1 DEF IInv, AwaitedCallsAreWatched
  <2> QED
    BY <1>1, <1>2, <2>1, <2>2
<1>6. ASSUME NEW c \in handing'
      PROVE  \E s \in rpc' : owner'[s] = c /\ Cmd("clear", "none") \in Range(calls'[s])
  <2>1. PICK s \in rpc : owner[s] = c /\ Cmd("clear", "none") \in Range(calls[s])
    BY <1>1, <1>6 DEF IInv, AwaitedCallsAreWatched
  <2>2. s \notin closing
    BY <1>1, <1>6, <2>1
  <2> QED
    BY <1>1, <1>2, <2>1, <2>2
<1> QED
  BY <1>3, <1>4, <1>5, <1>6 DEF AwaitedCallsAreWatched

\* When the CALL at the head is settled, whoever awaited it goes on, and the
\* others still find theirs behind it.
LEMMA SettleCallKeeps ==
  ASSUME IInv, NEW s \in Sockets, NEW answered \in BOOLEAN,
         s \in rpc, calls[s] # <<>>, SettleCall(s, answered), faults' \in 0..MaxFaults
  PROVE  IInv'
<1> DEFINE m == Head(calls[s])
<1>1. /\ calls' = [calls EXCEPT ![s] = Tail(@)]
      /\ lastDefaultW' = IF answered THEN Remember(owner[s], m) ELSE lastDefaultW
      /\ solve' = IF m.kind # "reserve" THEN solve ELSE [solve EXCEPT !.awaits = 0]
      /\ handing' = IF m.kind = "clear" THEN handing \ {owner[s]} ELSE handing
      /\ UNCHANGED <<linkVars, shut, solves>>
  BY DEF SettleCall
<1>2. calls \in [Sockets -> Seq(Commands)]
  BY DEF IInv, TypeOK
<1>3. /\ Tail(calls[s]) \in Seq(Commands) /\ m \in Commands
      /\ \A x \in Range(calls[s]) : x = m \/ x \in Range(Tail(calls[s]))
  BY <1>2, RangeOfTail
<1> HIDE DEF m
<1>4. TypeOK'
  <2>1. calls' \in [Sockets -> Seq(Commands)]
    BY <1>1, <1>2, <1>3
  <2>2. lastDefaultW' \in [Chargers -> Shares \cup {"none"}]
    BY <1>1, <1>3, CommandsAreTyped DEF IInv, TypeOK, Remember
  <2> QED
    BY <1>1, <2>1, <2>2 DEF IInv, TypeOK, linkVars
<1>5. RpcIsInUse' /\ MapHoldsOpenRpc'
  BY <1>1 DEF IInv, RpcIsInUse, MapHoldsOpenRpc, Reachable, linkVars
<1>6. ASSUME solve'.awaits # 0
      PROVE  solve'.awaits \in rpc' /\ \E x \in Range(calls'[solve'.awaits]) : x.kind = "reserve"
  <2>1. m.kind # "reserve" /\ solve' = solve
    BY <1>1, <1>6 DEF IInv, TypeOK
  <2>2. PICK x \in Range(calls[solve.awaits]) : x.kind = "reserve"
    BY <1>6, <2>1 DEF IInv, AwaitedCallsAreWatched
  <2>3. x \in Range(calls'[solve.awaits])
    BY <1>1, <1>2, <1>3, <1>6, <2>1, <2>2 DEF IInv, TypeOK
  <2> QED
    BY <1>1, <1>6, <2>1, <2>2, <2>3 DEF IInv, AwaitedCallsAreWatched, linkVars
<1>7. ASSUME NEW c \in handing'
      PROVE  \E r \in rpc' : owner'[r] = c /\ Cmd("clear", "none") \in Range(calls'[r])
  <2>1. PICK r \in rpc : owner[r] = c /\ Cmd("clear", "none") \in Range(calls[r])
    BY <1>1, <1>7 DEF IInv, AwaitedCallsAreWatched
  <2>2. r = s => m # Cmd("clear", "none")
    BY <1>1, <1>3, <1>7, <2>1, CommandsAreTyped
  <2>3. r \in Sockets
    BY DEF IInv, TypeOK
  <2>4. Cmd("clear", "none") \in Range(calls'[r])
    BY <1>1, <1>2, <1>3, <2>1, <2>2, <2>3
  <2> QED
    BY <1>1, <2>1, <2>4 DEF linkVars
<1> QED
  BY <1>4, <1>5, <1>6, <1>7 DEF IInv, AwaitedCallsAreWatched

-----------------------------------------------------------------------------
(* One lemma for each step that changes the map or the queues. *)

\* A new socket replaces the charger's entry, and the old OcppRpc is closed.
LEMMA AcceptKeeps ==
  ASSUME IInv, NEW c \in Chargers, Accept(c)
  PROVE  IInv'
<1> DEFINE existing == {connections[c]} \ {0}
<1>1. PICK s \in Sockets :
        /\ sock[s] = "unused"
        /\ owner' = [owner EXCEPT ![s] = c]
        /\ sock' = [sock EXCEPT ![s] = "open"]
        /\ connections' = [connections EXCEPT ![c] = s]
        /\ rpc' = (rpc \ existing) \cup {s}
        /\ CallersTold(existing)
        /\ online' = [online EXCEPT ![c] = TRUE]
        /\ UNCHANGED <<booted, lastDefaultW, shut, solves, faults>>
  BY DEF Accept
<1>2. /\ existing \in SUBSET Sockets
      /\ rpc' \in SUBSET Sockets
      /\ rpc \ existing \subseteq rpc'
      /\ s \notin rpc /\ 0 \notin Sockets
  <2>1. connections[c] \in Sockets \cup {0} /\ rpc \in SUBSET Sockets
    BY DEF IInv, TypeOK
  <2>2. s \notin rpc
    BY <1>1 DEF IInv, RpcIsInUse
  <2>3. 0 \notin Sockets
    BY BoundsAssumption DEF Sockets
  <2> QED
    BY <1>1, <2>1, <2>2, <2>3
<1>3. \A r \in rpc : owner'[r] = owner[r]
  BY <1>1, <1>2 DEF IInv, TypeOK
<1>4. /\ calls' \in [Sockets -> Seq(Commands)]
      /\ solve' \in [on : BOOLEAN, share : Shares, todo : SUBSET Chargers,
                     awaits : Sockets \cup {0}]
      /\ handing' \in SUBSET Chargers
      /\ AwaitedCallsAreWatched'
  BY <1>1, <1>2, <1>3, ToldAreFree
<1>5. TypeOK'
  BY <1>1, <1>2, <1>4 DEF IInv, TypeOK
<1>6. RpcIsInUse'
  BY <1>1, <1>2 DEF IInv, TypeOK, RpcIsInUse
<1>7. MapHoldsOpenRpc'
  <2> SUFFICES ASSUME NEW d \in Chargers, connections'[d] # 0
               PROVE  connections'[d] \in rpc' /\ owner'[connections'[d]] = d
    BY DEF MapHoldsOpenRpc, Reachable
  <2>1. CASE d = c
    BY <1>1, <2>1 DEF IInv, TypeOK
  <2>2. CASE d # c
    <3>1. connections'[d] = connections[d] /\ connections[d] \in rpc /\ owner[connections[d]] = d
      BY <1>1, <2>2 DEF IInv, TypeOK, MapHoldsOpenRpc, Reachable
    <3>2. connections[d] \notin existing
      BY <2>2, <3>1 DEF IInv, MapHoldsOpenRpc, Reachable
    <3> QED
      BY <1>1, <1>3, <3>1, <3>2
  <2> QED
    BY <2>1, <2>2
<1> QED
  BY <1>4, <1>5, <1>6, <1>7 DEF IInv

\* A close event takes the charger's entry, which can only be of that socket.
LEMMA HandleCloseKeeps ==
  ASSUME IInv, NEW s \in Sockets, HandleClose(s)
  PROVE  IInv'
<1>1. /\ sock[s] = "gone" /\ sock' = [sock EXCEPT ![s] = "closed"]
      /\ rpc' = rpc \ {s}
      /\ CallersTold({s})
      /\ connections' = [connections EXCEPT ![owner[s]] = 0]
      /\ online' = [online EXCEPT ![owner[s]] = FALSE]
      /\ UNCHANGED <<owner, booted, lastDefaultW, shut, solves, faults>>
  BY DEF HandleClose
<1>2. /\ calls' \in [Sockets -> Seq(Commands)]
      /\ solve' \in [on : BOOLEAN, share : Shares, todo : SUBSET Chargers,
                     awaits : Sockets \cup {0}]
      /\ handing' \in SUBSET Chargers
      /\ AwaitedCallsAreWatched'
  <2>1. rpc' \in SUBSET Sockets /\ rpc \ {s} \subseteq rpc' /\ \A r \in rpc : owner'[r] = owner[r]
    BY <1>1 DEF IInv, TypeOK
  <2> QED
    BY <1>1, <2>1, ToldAreFree
<1>3. TypeOK'
  BY <1>1, <1>2 DEF IInv, TypeOK
<1>4. RpcIsInUse'
  BY <1>1 DEF IInv, TypeOK, RpcIsInUse
<1>5. MapHoldsOpenRpc'
  BY <1>1 DEF IInv, TypeOK, MapHoldsOpenRpc, Reachable
<1> QED
  BY <1>2, <1>3, <1>4, <1>5 DEF IInv

\* A CALL more in one queue disturbs nobody who waits.
LEMMA EnqueuedKeeps ==
  ASSUME IInv, NEW c \in Chargers, Reachable(c), NEW m \in Commands
  PROVE  /\ Enqueued(c, m) \in [Sockets -> Seq(Commands)]
         /\ m \in Range(Enqueued(c, m)[connections[c]])
         /\ \A s \in Sockets : \A x \in Range(calls[s]) : x \in Range(Enqueued(c, m)[s])
<1>1. connections[c] \in Sockets /\ calls \in [Sockets -> Seq(Commands)]
  BY DEF IInv, TypeOK, Reachable
<1>2. \A q \in Seq(Commands) : /\ Append(q, m) \in Seq(Commands)
                               /\ m \in Range(Append(q, m))
                               /\ \A x \in Range(q) : x \in Range(Append(q, m))
  BY RangeOfAppend
<1> QED
  BY <1>1, <1>2 DEF Enqueued

\* The safety profile of a boot is sent on the connection in the map.
LEMMA BootNotificationKeeps ==
  ASSUME IInv, NEW s \in Sockets, BootNotification(s)
  PROVE  IInv'
<1>1. /\ booted' = booted \cup {s}
      /\ online' = [online EXCEPT ![owner[s]] = TRUE]
      /\ calls' = IF Reachable(owner[s]) THEN Enqueued(owner[s], Cmd("safety", "safety")) ELSE calls
      /\ UNCHANGED <<owner, sock, rpc, connections, lastDefaultW, solve, shutVars, solves, faults>>
  BY DEF BootNotification
<1>2. /\ calls' \in [Sockets -> Seq(Commands)]
      /\ \A r \in Sockets : \A x \in Range(calls[r]) : x \in Range(calls'[r])
  <2>1. CASE owner[s] \in Chargers /\ Reachable(owner[s])
    BY <1>1, <2>1, EnqueuedKeeps, CommandsAreTyped
  <2>2. CASE ~Reachable(owner[s])
    BY <1>1, <2>2 DEF IInv, TypeOK
  <2>3. owner[s] \in Chargers
    BY DEF BootNotification, IsOpen, IInv, RpcIsInUse
  <2> QED
    BY <2>1, <2>2, <2>3
<1> QED
  BY <1>1, <1>2 DEF IInv, TypeOK, RpcIsInUse, MapHoldsOpenRpc, Reachable, AwaitedCallsAreWatched, shutVars

\* The pass waits for the CALL it has just queued, or goes on.
LEMMA ReserveKeeps ==
  ASSUME IInv, NEW c \in Chargers, Reserve(c)
  PROVE  IInv'
<1> DEFINE same == lastDefaultW[c] = solve.share
           m == Cmd("reserve", solve.share)
<1>1. /\ calls' = IF ~same /\ Reachable(c) THEN Enqueued(c, m) ELSE calls
      /\ solve' = [solve EXCEPT !.todo = @ \ {c}, !.awaits = IF same THEN 0 ELSE connections[c]]
      /\ UNCHANGED <<linkVars, lastDefaultW, shutVars, solves, faults>>
  BY DEF Reserve
<1>2. m \in Commands /\ m.kind = "reserve"
  BY CommandsAreTyped DEF IInv, TypeOK
<1> HIDE DEF m
<1>3. /\ calls' \in [Sockets -> Seq(Commands)]
      /\ \A r \in Sockets : \A x \in Range(calls[r]) : x \in Range(calls'[r])
  <2>1. CASE ~same /\ Reachable(c)
    BY <1>1, <1>2, <2>1, EnqueuedKeeps
  <2>2. CASE ~(~same /\ Reachable(c))
    BY <1>1, <2>2 DEF IInv, TypeOK
  <2> QED
    BY <2>1, <2>2
<1>4. TypeOK'
  BY <1>1, <1>3 DEF IInv, TypeOK, linkVars, shutVars
<1>5. ASSUME solve'.awaits # 0
      PROVE  solve'.awaits \in rpc' /\ \E x \in Range(calls'[solve'.awaits]) : x.kind = "reserve"
  <2>1. ~same /\ solve'.awaits = connections[c] /\ Reachable(c)
    BY <1>1, <1>5 DEF IInv, TypeOK, Reachable
  <2>2. calls' = Enqueued(c, m)
    BY <1>1, <2>1
  <2>3. m \in Range(Enqueued(c, m)[connections[c]])
    BY <1>2, <2>1, EnqueuedKeeps
  <2> QED
    BY <1>1, <1>2, <2>1, <2>2, <2>3 DEF IInv, MapHoldsOpenRpc, linkVars
<1>6. RpcIsInUse' /\ MapHoldsOpenRpc'
  BY <1>1 DEF IInv, RpcIsInUse, MapHoldsOpenRpc, Reachable, linkVars
<1>7. \A d \in handing' : \E s \in rpc' : owner'[s] = d /\ Cmd("clear", "none") \in Range(calls'[s])
  BY <1>1, <1>3 DEF IInv, TypeOK, AwaitedCallsAreWatched, linkVars, shutVars
<1> QED
  BY <1>4, <1>5, <1>6, <1>7 DEF IInv, AwaitedCallsAreWatched

\* close() awaits a CALL on the connection of every charger in the map.
LEMMA ReleaseKeeps ==
  ASSUME IInv, Release
  PROVE  IInv'
<1> DEFINE clear == Cmd("clear", "none")
           mapped(s) == \E c \in Chargers : connections[c] = s
<1>1. /\ shut' = "releasing"
      /\ handing' = {c \in Chargers : Reachable(c)}
      /\ calls' = [s \in Sockets |-> IF mapped(s) THEN Append(calls[s], clear) ELSE calls[s]]
      /\ UNCHANGED <<linkVars, lastDefaultW, solve, solves, faults>>
  BY DEF Release
<1>2. clear \in Commands
  BY CommandsAreTyped
<1> HIDE DEF clear
<1>3. \A q \in Seq(Commands) : /\ Append(q, clear) \in Seq(Commands)
                               /\ clear \in Range(Append(q, clear))
                               /\ \A x \in Range(q) : x \in Range(Append(q, clear))
  BY <1>2, RangeOfAppend
<1>4. calls \in [Sockets -> Seq(Commands)]
  BY DEF IInv, TypeOK
<1>5. calls' \in [Sockets -> Seq(Commands)]
  BY <1>1, <1>3, <1>4
<1>6. \A s \in Sockets : \A x \in Range(calls[s]) : x \in Range(calls'[s])
  BY <1>1, <1>3, <1>4
<1>7. \A c \in handing' : \E s \in rpc' : owner'[s] = c /\ clear \in Range(calls'[s])
  <2> SUFFICES ASSUME NEW c \in Chargers, Reachable(c)
               PROVE  \E s \in rpc' : owner'[s] = c /\ clear \in Range(calls'[s])
    BY <1>1
  <2>1. connections[c] \in rpc /\ connections[c] \in Sockets /\ owner[connections[c]] = c
    BY DEF IInv, TypeOK, MapHoldsOpenRpc
  <2>2. clear \in Range(calls'[connections[c]])
    BY <1>1, <1>3, <1>4, <2>1
  <2> QED
    BY <1>1, <2>1, <2>2 DEF linkVars
<1>8. TypeOK'
  BY <1>1, <1>5 DEF IInv, TypeOK, linkVars
<1>9. RpcIsInUse' /\ MapHoldsOpenRpc'
  BY <1>1 DEF IInv, RpcIsInUse, MapHoldsOpenRpc, Reachable, linkVars
<1>10. solve'.awaits # 0 =>
         solve'.awaits \in rpc' /\ \E x \in Range(calls'[solve'.awaits]) : x.kind = "reserve"
  BY <1>1, <1>6 DEF IInv, TypeOK, AwaitedCallsAreWatched, linkVars
<1> QED
  BY <1>7, <1>8, <1>9, <1>10 DEF IInv, AwaitedCallsAreWatched, clear

\* wss.close() empties the map and closes what it held.
LEMMA LetGoKeeps ==
  ASSUME IInv, LetGo
  PROVE  IInv'
<1> DEFINE closing == {connections[c] : c \in Chargers} \ {0}
<1>1. /\ shut' = "closing"
      /\ rpc' = rpc \ closing
      /\ CallersTold(closing)
      /\ sock' = [s \in Sockets |-> IF s \in closing THEN "gone" ELSE sock[s]]
      /\ connections' = [c \in Chargers |-> 0]
      /\ UNCHANGED <<owner, booted, online, lastDefaultW, solves, faults>>
  BY DEF LetGo
<1>2. closing \in SUBSET Sockets /\ \A s \in closing : owner[s] \in Chargers
  BY DEF IInv, TypeOK, MapHoldsOpenRpc, Reachable
<1> HIDE DEF closing
<1>3. /\ calls' \in [Sockets -> Seq(Commands)]
      /\ solve' \in [on : BOOLEAN, share : Shares, todo : SUBSET Chargers,
                     awaits : Sockets \cup {0}]
      /\ handing' \in SUBSET Chargers
      /\ AwaitedCallsAreWatched'
  <2>1. rpc' \in SUBSET Sockets /\ rpc \ closing \subseteq rpc' /\ \A r \in rpc : owner'[r] = owner[r]
    BY <1>1 DEF IInv, TypeOK
  <2> QED
    BY <1>1, <1>2, <2>1, ToldAreFree
<1>4. TypeOK'
  BY <1>1, <1>3 DEF IInv, TypeOK
<1>5. RpcIsInUse'
  BY <1>1, <1>2 DEF IInv, TypeOK, RpcIsInUse
<1>6. MapHoldsOpenRpc'
  BY <1>1 DEF MapHoldsOpenRpc, Reachable
<1> QED
  BY <1>3, <1>4, <1>5, <1>6 DEF IInv

\* Every step keeps the invariant.
LEMMA NextKeepsIInv == IInv /\ [Next]_vars => IInv'
<1> SUFFICES ASSUME IInv, [Next]_vars PROVE IInv'
  OBVIOUS
<1>1. ASSUME NEW c \in Chargers, Accept(c) PROVE IInv'
  BY <1>1, AcceptKeeps
<1>2. ASSUME NEW c \in Chargers, Reserve(c) PROVE IInv'
  BY <1>2, ReserveKeeps
<1>3. ASSUME NEW s \in Sockets, Deliver(s) PROVE IInv'
  <2>1. s \in rpc /\ calls[s] # <<>> /\ SettleCall(s, TRUE) /\ faults' \in 0..MaxFaults
    BY <1>3 DEF Deliver, IInv, TypeOK
  <2> QED
    BY <2>1, SettleCallKeeps
<1>4. ASSUME NEW s \in Sockets, Timeout(s) PROVE IInv'
  <2>1. s \in rpc /\ calls[s] # <<>> /\ SettleCall(s, FALSE)
    BY <1>4 DEF Timeout
  <2>2. faults' \in 0..MaxFaults
    <3>1. (faults < MaxFaults /\ faults' = faults + 1) \/ faults' = faults
      BY <1>4 DEF Timeout
    <3> QED
      BY <3>1, BoundsAssumption DEF IInv, TypeOK
  <2> QED
    BY <2>1, <2>2, SettleCallKeeps
<1>5. ASSUME NEW s \in Sockets, HandleClose(s) PROVE IInv'
  BY <1>5, HandleCloseKeeps
<1>6. ASSUME NEW s \in Sockets, BootNotification(s) PROVE IInv'
  BY <1>6, BootNotificationKeeps
<1>7. ASSUME NEW s \in Sockets, Break(s) PROVE IInv'
  BY <1>7, BoundsAssumption DEF Break, IsOpen, IInv, TypeOK, RpcIsInUse, MapHoldsOpenRpc, Reachable,
     AwaitedCallsAreWatched, shutVars
<1>8. CASE PassBegins
  <2>1. PICK share \in Shares, idle \in SUBSET {c \in Chargers : online[c]} :
          solve' = [NoPass EXCEPT !.on = TRUE, !.share = share, !.todo = idle]
    BY <1>8 DEF PassBegins
  <2>2. /\ solve' \in [on : BOOLEAN, share : Shares, todo : SUBSET Chargers, awaits : Sockets \cup {0}]
        /\ solve'.awaits = 0
    BY <2>1 DEF NoPass, Shares
  <2>3. solves' \in 0..MaxSolves /\ UNCHANGED <<linkVars, calls, lastDefaultW, shutVars, faults>>
    BY <1>8, BoundsAssumption DEF PassBegins, IInv, TypeOK
  <2> QED
    BY <2>2, <2>3 DEF IInv, TypeOK, RpcIsInUse, MapHoldsOpenRpc, Reachable,
       AwaitedCallsAreWatched, linkVars, shutVars
<1>9. CASE PassEnds
  BY <1>9 DEF PassEnds, NoPass, Shares, IInv, TypeOK, RpcIsInUse, MapHoldsOpenRpc, Reachable,
     AwaitedCallsAreWatched, linkVars, shutVars
<1>10. CASE StopLoop
  BY <1>10 DEF StopLoop, IInv, TypeOK, RpcIsInUse, MapHoldsOpenRpc, Reachable,
     AwaitedCallsAreWatched, linkVars
<1>11. CASE Release
  BY <1>11, ReleaseKeeps
<1>12. CASE LetGo
  BY <1>12, LetGoKeeps
<1>13. CASE AllClosed
  BY <1>13 DEF AllClosed, IInv, TypeOK, RpcIsInUse, MapHoldsOpenRpc, Reachable,
     AwaitedCallsAreWatched, linkVars
<1>14. CASE UNCHANGED vars
  BY <1>14 DEF vars, IInv, TypeOK, RpcIsInUse, MapHoldsOpenRpc, Reachable,
     AwaitedCallsAreWatched, linkVars, shutVars
<1> QED
  BY <1>1, <1>2, <1>3, <1>4, <1>5, <1>6, <1>7, <1>8, <1>9, <1>10, <1>11, <1>12, <1>13, <1>14 DEF Next

-----------------------------------------------------------------------------

\* The invariant holds in every reachable state.
THEOREM InductiveInvariant == Spec => []IInv
BY InitIInv, NextKeepsIInv, PTL DEF Spec

\* The state of the gateway keeps its shape.
THEOREM TypeCorrect == Spec => []TypeOK
<1>1. IInv => TypeOK
  BY DEF IInv
<1> QED
  BY <1>1, InductiveInvariant, PTL

\* However many breaks, reconnects and late close events mix, a CALL is only
\* given to an open OcppRpc of the charger it is for.
THEOREM CallsReachTheirCharger == Spec => []MapHoldsOpenRpc
<1>1. IInv => MapHoldsOpenRpc
  BY DEF IInv
<1> QED
  BY <1>1, InductiveInvariant, PTL

\* Neither the pass over the idle bays nor close() is left with a promise that
\* nobody keeps.
THEOREM NobodyWaitsInVain == Spec => []AwaitedCallsAreWatched
<1>1. IInv => AwaitedCallsAreWatched
  BY DEF IInv
<1> QED
  BY <1>1, InductiveInvariant, PTL
=============================================================================
