------------------------------- MODULE Clients ------------------------------
(***************************************************************************)
(* Runs of the client scripts with one wallet, at the same time.  A run    *)
(* reads the chain as it was last mined, sends the transactions it thinks  *)
(* it needs without waiting for them, and then its multicall; the wallet's *)
(* transactions are mined in the order of their nonces.  Meanwhile keepers *)
(* settle requests and the gas price may rise.  The test helpers run one   *)
(* after the other and settle their requests themselves.                   *)
(***************************************************************************)
EXTENDS ClientScripts, FiniteSetsExt

CONSTANTS Casts,        \* the scripts that run together, each a sequence of names
          Wallets,      \* what the wallet has at first
          MaxGasPrice   \* bound: the gas price

ASSUME ClientsAssumption ==
    /\ Wallets \subseteq [Tokens -> Nat] /\ MaxGasPrice \in Nat \ {0}
    /\ \A cast \in Casts : Len(cast) \in Nat

VARIABLES chain,   \* what is mined
          queue,   \* the wallet's transactions that are not: who sent them, and the step
          run      \* the runs

clientVars == <<chain, gasPrice, queue, run>>

Runs == DOMAIN run
StepsOf(r) == Steps(run[r].script, run[r].learned)
StepAt(r) == StepsOf(r)[run[r].at]
IsHelper(r) == run[r].script \in Helpers
Ended(r) == run[r].phase \notin {"looking", "waiting"}
Started(r) == run[r].at > 1
CanStep(r) == run[r].phase = "looking" /\ run[r].at <= Len(StepsOf(r))

-----------------------------------------------------------------------------
(* The steps of a script.                                                  *)

Needed(step, learned) ==
    CASE step.do \in {"wrap", "unwrap", "mint"}     -> chain.wallet[step.token] < step.below
      [] step.do \in {"approve", "approveOnly"}     -> chain.allowance[step.token] < step.below
      [] step.do = "approveBalance"                 -> chain.allowance[step.token] < learned
      [] OTHER                                      -> TRUE

Applied(c, step, by) ==
    CASE step.do = "wrap"        -> Deposited(c, step.below)
      [] step.do = "unwrap"      -> Withdrawn(c, step.below)
      [] step.do = "approveOnly" -> Approved(c, step.token, step.below)
      [] step.do \in {"approve", "approveBalance"} -> Approved(c, step.token, Unlimited)
      [] step.do = "mint"        -> Minted(c, step.token, step.below)
      [] step.do = "mintTo"      -> MintedTo(c, step.vault, step.token, step.amount)
      [] step.do = "transferTo"  -> Transferred(c, step.vault, step.token, step.amount)
      [] step.do = "send"        -> Multicall(c, step.value, step.calls, by)

\* The chain as it will be when everything sent so far is mined.
Pending == FoldLeft(LAMBDA c, tx : LET next == Applied(c, tx.step, tx.by)
                                   IN  IF next.ok THEN next ELSE c,
                    chain, queue)

\* What run r does, as opposed to where it is.
Does(r, what, token) ==
    \E i \in DOMAIN StepsOf(r) : StepsOf(r)[i].do \in what /\ StepsOf(r)[i].token = token
Calls(r) == UNION {ToSet(StepsOf(r)[i].calls) :
                     i \in {j \in DOMAIN StepsOf(r) : StepsOf(r)[j].do = "send"}}

\* A run that takes something for granted which the wallet does not have: tokens
\* it spends without minting them, market tokens to withdraw, and wrapped native
\* tokens that it "unwraps".
Lacks(r) == \E t \in Tokens :
    \/ /\ \E call \in Calls(r) : /\ call.name = "sendTokens" /\ call.token = t
                                  /\ call.amount > chain.wallet[t]
       /\ ~ Does(r, {"wrap", "mint"}, t)
    \/ Does(r, {"readBalance"}, t) /\ chain.wallet[t] = 0
    \/ \E i \in DOMAIN StepsOf(r) :
          /\ StepsOf(r)[i].do \in {"unwrap", "transferTo"} /\ StepsOf(r)[i].token = t
          /\ chain.wallet[t] < StepsOf(r)[i].amount

\* One look of run r, and what it sends.
Look(r) ==
    /\ CanStep(r)
    /\ StepAt(r).do \notin {"send", "handle"}
    /\ IsHelper(r) => \A s \in Runs : s < r => Ended(s)
    /\ LET step  == StepAt(r)
           needs == Needed(step, run[r].learned)
           next  == [run[r] EXCEPT !.at = @ + 1,
                                   !.lacking = @ \/ (~ Started(r) /\ Lacks(r))]
       IN  CASE step.do = "readBalance" ->
                  /\ run' = [run EXCEPT ![r] = [next EXCEPT !.learned = chain.wallet[step.token]]]
                  /\ UNCHANGED <<chain, queue>>
             [] step.do = "readGasPrice" ->
                  /\ run' = [run EXCEPT ![r] = [next EXCEPT !.learned = gasPrice]]
                  /\ UNCHANGED <<chain, queue>>
             [] OTHER ->
                  /\ run' = [run EXCEPT ![r] =
                        IF needs /\ ~ Applied(chain, step, r).ok   \* estimating its gas throws
                        THEN [next EXCEPT !.phase = "failed"]
                        ELSE IF needs /\ IsHelper(r) THEN [next EXCEPT !.phase = "waiting"]
                        ELSE next]
                  /\ queue' = IF needs /\ Applied(chain, step, r).ok
                              THEN Append(queue, [by |-> r, step |-> step]) ELSE queue
                  /\ UNCHANGED chain
    /\ UNCHANGED gasPrice

\* What the transaction takes from the wallet, or from an allowance, disturbs the
\* other runs under way.
Disturbs(tx) == tx.step.do \in {"send", "approveOnly"}

\* The multicall.  A node estimates gas on the last block or on the pending one.
\* A run is hasty when it has transactions of its own that are not mined by then;
\* those of others that are not may disturb it already.
SendMulticall(r) ==
    /\ CanStep(r)
    /\ StepAt(r).do = "send"
    /\ \/ /\ StepAt(r).estimated => \E c \in {chain, Pending} : Applied(c, StepAt(r), r).ok
          /\ queue' = Append(queue, [by |-> r, step |-> StepAt(r)])
          /\ run' = [run EXCEPT ![r].phase = "waiting"]
       \/ /\ StepAt(r).estimated
          /\ \E c \in {chain, Pending} : ~ Applied(c, StepAt(r), r).ok
          /\ run' = [run EXCEPT ![r].phase = "failed",
                                ![r].hasty = \E tx \in ToSet(queue) : tx.by = r,
                                ![r].disturbed = @ \/ \E tx \in ToSet(queue) :
                                                        tx.by # r /\ Disturbs(tx)]
          /\ UNCHANGED queue
    /\ UNCHANGED <<chain, gasPrice>>

\* The next transaction of the wallet is mined.
Mine ==
    /\ queue # <<>>
    /\ LET tx    == Head(queue)
           after == Applied(chain, tx.step, tx.by)
           last  == tx.step.do = "send"
       IN  /\ chain' = IF after.ok THEN after ELSE chain
           /\ run' = [s \in Runs |->
                IF s # tx.by
                THEN [run[s] EXCEPT !.disturbed = @ \/ (Disturbs(tx) /\ Started(s) /\ ~ Ended(s))]
                ELSE IF ~ after.ok THEN [run[s] EXCEPT !.phase = "failed"]
                ELSE IF ~ last /\ IsHelper(s) THEN [run[s] EXCEPT !.phase = "looking"]
                ELSE IF last /\ run[s].at = Len(StepsOf(s)) THEN [run[s] EXCEPT !.phase = "made"]
                ELSE IF last THEN [run[s] EXCEPT !.at = @ + 1, !.phase = "looking"]
                ELSE run[s]]
           /\ queue' = Tail(queue)
    /\ UNCHANGED gasPrice

\* An executed request gives the wallet a unit of some token it may be paid in,
\* or nothing: prices and positions are left out.
Payments(request) == {[Nothing EXCEPT ![t] = 1] : t \in request.gives} \cup {Nothing}

\* executeDeposit, executeWithdrawal and executeOrder of the helpers: the first
\* or the last request of the list.  The transaction may revert, which throws, and
\* changes nothing; a request that it cancels, or freezes, makes them throw too.
HandleRequest(r) ==
    /\ CanStep(r)
    /\ StepAt(r).do = "handle"
    /\ LET list == chain.requests[StepAt(r).vault]
           i    == IF StepAt(r).pick = "first" THEN 1 ELSE Len(list)
       IN  IF list = <<>>
           THEN /\ run' = [run EXCEPT ![r].phase = "failed"]
                /\ UNCHANGED chain
           ELSE \/ /\ \E paid \in Payments(list[i]) :
                         chain' = Settled(chain, StepAt(r).vault, i, paid)
                   /\ run' = [run EXCEPT ![r].phase = "handled"]
                \/ /\ chain' = Settled(chain, StepAt(r).vault, i, list[i].holds)
                   /\ run' = [run EXCEPT ![r].phase = "cancelled"]
                \/ /\ StepAt(r).vault = "OrderVault" /\ list[i].fee > 0
                   /\ chain' = Frozen(chain, i)
                   /\ run' = [run EXCEPT ![r].phase = "frozen"]
                \/ /\ run' = [run EXCEPT ![r].phase = "refused"]
                   /\ UNCHANGED chain
    /\ UNCHANGED <<gasPrice, queue>>

-----------------------------------------------------------------------------
(* Around the runs.                                                        *)

\* A cancelled request gives its tokens back.
KeeperSettles(vault, i) ==
    /\ \A r \in Runs : ~ IsHelper(r)
    /\ \E paid \in Payments(chain.requests[vault][i]) \cup {chain.requests[vault][i].holds} :
          chain' = Settled(chain, vault, i, paid)
    /\ UNCHANGED <<gasPrice, queue, run>>

\* Only orders with a trigger are ever frozen.
KeeperFreezes(i) ==
    /\ \E r \in Runs : /\ chain.requests["OrderVault"][i].by = r
                      /\ run[r].script \in TriggerScripts
    /\ chain.requests["OrderVault"][i].fee > 0
    /\ chain' = Frozen(chain, i)
    /\ UNCHANGED <<gasPrice, queue, run>>

GasPriceRises ==
    /\ gasPrice < MaxGasPrice
    /\ gasPrice' = gasPrice + 1
    /\ run' = [r \in Runs |-> [run[r] EXCEPT !.disturbed = @ \/ (Started(r) /\ ~ Ended(r))]]
    /\ UNCHANGED <<chain, queue>>

ClientInit ==
    /\ \E wallet \in Wallets :
          chain = [wallet |-> wallet, allowance |-> Nothing, native |-> 0,
                   vaults |-> [v \in Vaults |-> EmptyBank],
                   requests |-> [v \in Vaults |-> <<>>],
                   nonce |-> 0, ok |-> TRUE]
    /\ gasPrice = 1
    /\ queue = <<>>
    /\ \E cast \in Casts :
          run = [r \in DOMAIN cast |-> [script |-> cast[r], at |-> 1, learned |-> 0,
                                        phase |-> "looking", disturbed |-> FALSE,
                                        lacking |-> FALSE, hasty |-> FALSE]]

ClientNext ==
    \/ \E r \in Runs : Look(r) \/ SendMulticall(r) \/ HandleRequest(r)
    \/ Mine
    \/ \E v \in Vaults : \E i \in DOMAIN chain.requests[v] : KeeperSettles(v, i)
    \/ \E i \in DOMAIN chain.requests["OrderVault"] : KeeperFreezes(i)
    \/ GasPriceRises

ClientSpec == ClientInit /\ [][ClientNext]_clientVars

-----------------------------------------------------------------------------
\* The fee a run pays is fixed in its script, but for createOrder's.
FeeTooLow(r) == \E call \in Calls(r) : call.name = "create" /\ call.fee < gasPrice

\* A script that finds what it does not mint for itself makes its request: its looks
\* leave out no approval, no minting and no wrapping, although none of the
\* transactions they send has been mined when the next look is taken.  When it
\* fails, another run of the wallet spent or approved something in between, or the
\* gas price was, or became, too high for its fee, or (createOrder alone has its gas
\* estimated) it did not wait for its own approval; an order of type 7 is never
\* created.
UndisturbedRunsSucceed ==
    \A r \in Runs : run[r].phase = "failed" =>
        \/ run[r].disturbed \/ run[r].lacking \/ FeeTooLow(r)
        \/ run[r].hasty /\ run[r].script = "createOrder"
        \/ run[r].script = "createLiquidationOrder"
        \/ run[r].script \in {"handleDepositUnderpaid", "handleOrderUnderpaid"}

\* "create a new wallet account ... then run ... after running the script the
\* position should be viewable" (createOrder.ts:10 to 20): run by itself, with a
\* wallet that has the collateral and a fee that suffices, createOrder creates its
\* order.  It is violated: its approval is sent and not waited for, and a node that
\* estimates the gas of the multicall on the last block finds no allowance.
NewWalletsCanOrder ==
    \A r \in Runs : run[r].script = "createOrder" /\ run[r].phase = "failed" =>
        run[r].disturbed \/ run[r].lacking \/ FeeTooLow(r)

\* A request holds the tokens and the fee its script meant it to have: not what
\* other runs sent to the same vault, nor less.  Only what the calls of a test
\* that failed had already minted to the vault comes on top.
RequestsAsAsked ==
    \A v \in Vaults : \A i \in DOMAIN chain.requests[v] :
        LET request == chain.requests[v][i]
        IN  /\ \A t \in Tokens : request.holds[t] >= request.asked[t]
            /\ request.fee >= request.askedFee
            /\ (\A r \in Runs : IsHelper(r) => run[r].phase # "failed") =>
                  request.holds = request.asked /\ request.fee = request.askedFee

Owed(v, t) ==
    FoldLeft(LAMBDA sum, request : sum + request.holds[t] + IF t = Wnt THEN request.fee ELSE 0,
             0, chain.requests[v])

\* Nothing is left behind: the vaults hold what their requests hold, and the
\* ExchangeRouter keeps native tokens of nobody but createDepositWbtcUsdt, whose
\* value counts the WBTC as if they were native.
NothingStranded ==
    /\ \A v \in Vaults, t \in Tokens :
          /\ Owed(v, t) <= chain.vaults[v].recorded[t]
          /\ chain.vaults[v].recorded[t] <= chain.vaults[v].balance[t]
          /\ (\A r \in Runs : ~ IsHelper(r)) => chain.vaults[v].balance[t] = Owed(v, t)
    /\ chain.native = Cardinality({r \in Runs : run[r].script = "createDepositWbtcUsdt"
                                                /\ run[r].phase = "made"})
=============================================================================
