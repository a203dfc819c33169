---------------------------- MODULE AcrossBridge ----------------------------
(***************************************************************************)
(* One transfer over the Across bridge (across.rs and bridge_across of      *)
(* rebalance/runtime.rs): the quote the Across API returns, everything      *)
(* validate_quote demands of it, the approval and the bridge transaction    *)
(* built from it, and the deposit status and fill receipt that end it.      *)
(*                                                                          *)
(* The API is external.  It answers what was asked, or an answer in which   *)
(* one field differs: a stale, mixed-up or changed reply.  The two bridge   *)
(* contracts are external too: depositV3 of the Across spoke pool and       *)
(* depositForBurn of Circle's token messenger.  A decoded word of          *)
(* calldata is its value, and NotAWord is a word that does not fit the type *)
(* it is read as.  Restarts are RebalanceSaga's subject.                    *)
(***************************************************************************)
EXTENDS Naturals

CONSTANTS
  Amount,         \* the amount to bridge
  MaxTime         \* bound: the seconds the model lasts

VARIABLES
  stage,          \* where bridge_across and wait_across_fill are
  request,        \* the AcrossQuoteRequest
  terms,          \* the ValidatedErc20Quote in use
  now,            \* unix time
  allowance,      \* spender -> what the input token lets it take
  approved,       \* the journaled approval call, or NoCall
  deposit,        \* what the mined bridge transaction did on the origin chain
  credit,         \* what the bridge paid out at the destination
  received        \* received_base_units of AcrossFilled

acrossVars == <<stage, request, terms, now, allowance, approved, deposit,
                credit, received>>

MAX_QUOTE_EXPIRY_SECONDS == 2
NoDeadline == MaxTime + MAX_QUOTE_EXPIRY_SECONDS + 5   \* u32::MAX
NotAWord == 10 * (Amount + NoDeadline)
Owner == "owner"
Other == "other"
Messenger == "messenger"
SpokePool == "spoke"

NoCall == [target |-> "none", amount |-> 0]
NoDeposit == [form |-> "none", dest |-> 0, to |-> "none", token |-> "none",
              taken |-> 0, least |-> 0, deadline |-> 0]
NoCredit == [dest |-> 0, to |-> "none", token |-> "none", amount |-> 0]

(* The tokens token_on_chain knows on the three chains of an Across route.  *)
Optimism == 10
World == 480
Linea == 59144
token_on_chain(symbol, chain) ==
  CASE symbol = "USDC" /\ chain = Optimism -> "op_usdc"
    [] symbol = "USDC" /\ chain = World -> "world_usdc"
    [] symbol = "USDC" /\ chain = Linea -> "linea_usdc"
    [] symbol = "USDT" /\ chain = Optimism -> "op_usdt"
    [] symbol = "USDT" /\ chain = Linea -> "linea_usdt"
    [] symbol = "WLD" /\ chain = Optimism -> "op_wld"
    [] symbol = "WLD" /\ chain = World -> "world_wld"

(* The routes of the fleet: a symbol between Optimism and a wallet chain.   *)
AcrossRoutes ==
  {<<"USDC", World>>, <<"USDC", Linea>>, <<"USDT", Linea>>, <<"WLD", World>>}
across_route_chains(r, out) == IF out THEN <<Optimism, r[2]>> ELSE <<r[2], Optimism>>

(* quote_across_bridge: the request follows from the durable route.         *)
QuoteRequest(r, out) ==
  LET ends == across_route_chains(r, out) IN
  [symbol |-> r[1], origin |-> ends[1], dest |-> ends[2],
   input |-> token_on_chain(r[1], ends[1]),
   output |-> token_on_chain(r[1], ends[2])]

Decimals(symbol) == IF symbol = "WLD" THEN 18 ELSE 6
SupportedPairs ==
  LET Pair(req) == <<req.input, req.output, req.symbol, Decimals(req.symbol)>>
  IN  {Pair(QuoteRequest(r, out)) : r \in AcrossRoutes, out \in BOOLEAN}
supported_erc20_pair(req, symbol, decimals) ==
  <<req.input, req.output, symbol, decimals>> \in SupportedPairs

----------------------------------------------------------------------------
(* The calldata of the swap transaction: depositV3's words and those of     *)
(* depositForBurn.  Both carry `form`, the selector.                        *)
circle_domain(chain) ==
  CASE chain = Optimism -> 2 [] chain = World -> 14 [] OTHER -> NotAWord

validate_deposit_v3_calldata(req, q) ==
  /\ q.depositor = Owner /\ q.recipient = Owner
  /\ q.inWord = req.input /\ q.outWord = req.output
  /\ q.amountWord = Amount /\ q.minWord = q.minOutput
  /\ q.chainWord = req.dest
  /\ q.stamp > 0 /\ q.stamp <= now + MAX_QUOTE_EXPIRY_SECONDS
  /\ q.deadline < NotAWord
  /\ q.deadline # NoDeadline =>
       q.deadline > now /\ q.deadline <= now + MAX_QUOTE_EXPIRY_SECONDS
  /\ q.exclusive <= q.deadline

\* Mutant: the fee Circle may keep is not held against the minimum.
AnyFee(req, q) ==
  /\ req.input \in {"op_usdc", "world_usdc"}
  /\ q.trailing <= 32
  /\ q.amountWord = Amount /\ q.chainWord = circle_domain(req.dest)
  /\ q.recipient = Owner /\ q.inWord = req.input
  /\ q.callerCanonical
  /\ q.maxFee <= Amount
  /\ q.finality > 0 /\ q.finality < NotAWord
validate_cctp_v2_deposit_for_burn_calldata(req, q) ==
  /\ req.input \in {"op_usdc", "world_usdc"}
  /\ q.trailing <= 32
  /\ q.amountWord = Amount
  /\ q.chainWord < NotAWord /\ q.chainWord = circle_domain(req.dest)
  /\ q.recipient = Owner /\ q.inWord = req.input
  /\ q.callerCanonical
  /\ q.maxFee <= Amount /\ Amount - q.maxFee >= q.minOutput
  /\ q.finality > 0 /\ q.finality < NotAWord

validate_swap_calldata(req, q) ==
  \/ q.form = "depositV3" /\ validate_deposit_v3_calldata(req, q)
  \/ /\ q.form = "depositForBurn"
     /\ validate_cctp_v2_deposit_for_burn_calldata(req, q)

finite_deadline(q) ==
  IF q.form = "depositV3" THEN q.deadline ELSE NoDeadline

validate_quote_expiry(q) ==
  \/ q.expiry = 0
  \/ /\ q.expiry > now /\ q.expiry <= now + MAX_QUOTE_EXPIRY_SECONDS
     /\ finite_deadline(q) # NoDeadline => q.expiry <= finite_deadline(q)

(* No approval is an answer too, when the allowance is said to be enough.   *)
validate_approvals(req, q) ==
  \/ q.approvals = 0 /\ q.allowActual >= Amount
  \/ /\ q.approvals = 1
     /\ q.apChain = req.origin /\ q.apTo = req.input /\ q.apValue = 0
     /\ q.apIsApprove /\ q.apSpender = q.spender /\ q.apAmount >= Amount

(* The tokens and amounts of the answer against the request's.              *)
ensure_token(chain, token, wantChain, want) == chain = wantChain /\ token = want
QuotedAmounts(q) ==
  /\ q.inputAmount = Amount /\ q.maxInput = Amount
  /\ q.expected > 0 /\ q.expected <= Amount
  /\ q.minOutput > 0 /\ q.minOutput <= q.expected
  /\ q.fee < Amount
  /\ q.fillTime <= 600
QuotedChecks(req, q) ==
  /\ q.allowToken = req.input /\ q.balToken = req.input
  /\ q.allowExpected = Amount /\ q.balExpected = Amount
  /\ q.swapChain = req.origin /\ q.swapTo = q.spender /\ q.swapValue = 0

validate_quote(req, q) ==
  /\ q.amountType = "exactInput" /\ q.idOk
  /\ ensure_token(q.inChain, q.inToken, req.origin, req.input)
  /\ ensure_token(q.outChain, q.outToken, req.dest, req.output)
  /\ supported_erc20_pair(req, q.symbol, q.decimals)
  /\ QuotedAmounts(q)
  /\ QuotedChecks(req, q)
  /\ validate_swap_calldata(req, q)
  /\ validate_quote_expiry(q)
  /\ validate_approvals(req, q)

----------------------------------------------------------------------------
(* What the API answers.  An honest answer names the contract that takes    *)
(* the calldata it returns and needs an approval when the allowance is      *)
(* short.                                                                   *)
Contract(form) == IF form = "depositV3" THEN SpokePool ELSE Messenger

Honest(req, form, minOutput, deadline, expiry) ==
  LET spender == Contract(form)
      enough == allowance[spender] >= Amount
  IN [amountType |-> "exactInput", idOk |-> TRUE,
      inChain |-> req.origin, inToken |-> req.input,
      outChain |-> req.dest, outToken |-> req.output,
      symbol |-> req.symbol, decimals |-> Decimals(req.symbol),
      inputAmount |-> Amount, maxInput |-> Amount, expected |-> Amount,
      minOutput |-> minOutput, fee |-> Amount - minOutput, fillTime |-> 60,
      allowToken |-> req.input, balToken |-> req.input,
      allowExpected |-> Amount, balExpected |-> Amount, spender |-> spender,
      allowActual |-> allowance[spender],
      swapChain |-> req.origin, swapTo |-> spender, swapValue |-> 0,
      form |-> form, depositor |-> Owner, recipient |-> Owner,
      inWord |-> req.input, outWord |-> req.output, amountWord |-> Amount,
      minWord |-> minOutput,
      chainWord |-> IF form = "depositV3" THEN req.dest
                    ELSE circle_domain(req.dest),
      stamp |-> now + 1, deadline |-> deadline, exclusive |-> 0,
      trailing |-> 4, callerCanonical |-> TRUE, maxFee |-> Amount - minOutput,
      finality |-> 1, expiry |-> expiry,
      approvals |-> IF enough THEN 0 ELSE 1, apChain |-> req.origin,
      apTo |-> req.input, apValue |-> 0, apIsApprove |-> TRUE,
      apSpender |-> spender, apAmount |-> Amount]

(* The values a wrong field may have.                                       *)
Words == 0 .. Amount + 1 \cup {NotAWord}
Tokens == {request.input, request.output, "foreign"}
Chains == {Optimism, World, Linea}
Times == 0 .. MaxTime + MAX_QUOTE_EXPIRY_SECONDS + 1
Wrong ==
  [amountType |-> {"minOutput"}, idOk |-> {FALSE},
   inChain |-> Chains, inToken |-> Tokens, outChain |-> Chains,
   outToken |-> Tokens, symbol |-> {"USDC", "USDT", "WLD"},
   decimals |-> {6, 18}, inputAmount |-> Words, maxInput |-> Words,
   expected |-> Words, minOutput |-> Words, fee |-> Words,
   fillTime |-> {601}, allowToken |-> Tokens, balToken |-> Tokens,
   allowExpected |-> Words, balExpected |-> Words,
   spender |-> {SpokePool, Messenger}, allowActual |-> Words,
   swapChain |-> Chains, swapTo |-> {SpokePool, Messenger}, swapValue |-> {1},
   form |-> {"depositV3", "depositForBurn", "unknown"},
   depositor |-> {Other}, recipient |-> {Other}, inWord |-> Tokens,
   outWord |-> Tokens, amountWord |-> Words, minWord |-> Words,
   chainWord |-> Chains \cup {2, 14, NotAWord},
   stamp |-> Times, deadline |-> Times \cup {NotAWord},
   exclusive |-> Times, trailing |-> {33}, callerCanonical |-> {FALSE},
   maxFee |-> Words, finality |-> {0, NotAWord}, expiry |-> Times,
   approvals |-> {0, 1, 2}, apChain |-> Chains, apTo |-> Tokens,
   apValue |-> {1}, apIsApprove |-> {FALSE},
   apSpender |-> {SpokePool, Messenger}, apAmount |-> Words]

(* The honest answer, and that answer with one field wrong.                 *)
Answers(q) ==
  {q} \cup UNION {{[q EXCEPT ![f] = v] : v \in Wrong[f]} : f \in DOMAIN Wrong}

----------------------------------------------------------------------------
(* AcrossClient::quote and decode_response end in an answer, in an error    *)
(* is_retryable_quote_error calls retryable, or in another error.           *)
is_retryable_quote_error(outcome) ==
  outcome \in {"transport", "timeout_status", "too_many", "server_error"}
QuoteErrors == {"transport", "timeout_status", "too_many", "server_error",
                "client_error", "too_large", "bad_json"}

AcrossInit ==
  /\ stage = "quote"
  /\ request \in {QuoteRequest(r, out) : r \in AcrossRoutes, out \in BOOLEAN}
  /\ terms = [swap |-> NoDeposit, target |-> "none", minOutput |-> 0,
              approval |-> NoCall]
  /\ now = 1
  /\ allowance \in {[s \in {SpokePool, Messenger} |-> a] : a \in {0, Amount}}
  /\ approved = NoCall
  /\ deposit = NoDeposit /\ credit = NoCredit /\ received = 0

(* Effect of the calldata at its own contract.  Elsewhere, or past the fill *)
(* deadline, or without allowance, the call reverts.                        *)
Swap(req, q) ==
  [form |-> q.form,
   dest |-> IF q.form = "depositV3" THEN q.chainWord
            ELSE CASE q.chainWord = 2 -> Optimism [] q.chainWord = 14 -> World
                   [] OTHER -> 0,
   to |-> q.recipient,
   token |-> IF q.form = "depositV3" THEN q.outWord
             ELSE CASE q.chainWord = 2 -> "op_usdc" [] q.chainWord = 14 -> "world_usdc"
                    [] OTHER -> "none",
   taken |-> q.amountWord,
   least |-> IF q.form = "depositV3" THEN q.minWord
             ELSE IF q.maxFee <= q.amountWord THEN q.amountWord - q.maxFee ELSE 0,
   deadline |-> finite_deadline(q)]

TermsOf(req, q) ==
  [swap |-> Swap(req, q), target |-> q.spender, minOutput |-> q.minOutput,
   approval |-> IF q.approvals = 0 THEN NoCall
                ELSE [target |-> q.spender, amount |-> q.apAmount]]

(* bridge_across, up to the first transaction it sends.  After a mined      *)
(* approval the fresh answer may not ask for another.                       *)
QuoteAnswered ==
  /\ stage \in {"quote", "requote"}
  /\ \E form \in {"depositV3", "depositForBurn"}, minOutput \in 1 .. Amount,
        expiry \in {0, now + 1} :
       \E deadline \in {NoDeadline} \cup
                       (IF form = "depositV3" THEN {now + MAX_QUOTE_EXPIRY_SECONDS} ELSE {}) :
       \E q \in Answers(Honest(request, form, minOutput, deadline, expiry)) :
         IF ~validate_quote(request, q)
         THEN stage' = "failed" /\ UNCHANGED terms
         ELSE /\ terms' = TermsOf(request, q)
              /\ stage' = IF terms'.approval = NoCall THEN "broadcast"
                          ELSE IF stage = "quote" THEN "approve" ELSE "failed"
  /\ UNCHANGED <<request, now, allowance, approved, deposit, credit, received>>

(* The retry loop runs the operation again from its durable progress, and   *)
(* there an approval may be asked for again.                                *)
QuoteFailed ==
  /\ stage \in {"quote", "requote"}
  /\ \E e \in QuoteErrors :
       stage' = IF is_retryable_quote_error(e) THEN "quote" ELSE "failed"
  /\ UNCHANGED <<request, terms, now, allowance, approved, deposit, credit,
                 received>>

(* execute_wallet_call replays a mined transaction of the same operation    *)
(* id, and refuses another call under it.                                   *)
ApprovalSent ==
  /\ stage = "approve"
  /\ \/ /\ approved = NoCall
        /\ approved' = terms.approval
        /\ allowance' = [allowance EXCEPT ![terms.approval.target] =
                                             terms.approval.amount]
        /\ stage' = "requote"
     \/ /\ approved = terms.approval
        /\ stage' = "requote" /\ UNCHANGED <<approved, allowance>>
     \/ /\ approved \notin {NoCall, terms.approval}
        /\ stage' = "failed" /\ UNCHANGED <<approved, allowance>>
  /\ UNCHANGED <<request, terms, now, deposit, credit, received>>

Reverts(t) ==
  \/ t.target # Contract(t.swap.form)
  \/ t.swap.deadline < now
  \/ allowance[t.target] < t.swap.taken

(* The bridge transaction, mined at any time after it was prepared.         *)
BridgeSent ==
  /\ stage = "broadcast"
  /\ IF Reverts(terms)
     THEN stage' = "failed" /\ UNCHANGED <<deposit, allowance>>
     ELSE /\ stage' = "waiting" /\ deposit' = terms.swap
          /\ allowance' = [allowance EXCEPT ![terms.target] = @ - terms.swap.taken]
  /\ UNCHANGED <<request, terms, now, approved, credit, received>>

(* The bridge pays: a relayer exactly the deposited output amount, before   *)
(* the fill deadline; Circle at least the amount less its highest fee.      *)
BridgePays ==
  /\ deposit # NoDeposit /\ credit = NoCredit /\ now <= deposit.deadline
  /\ \E a \in deposit.least ..
              (IF deposit.form = "depositV3" THEN deposit.least ELSE deposit.taken) :
       credit' = [dest |-> deposit.dest, to |-> deposit.to,
                  token |-> deposit.token, amount |-> a]
  /\ UNCHANGED <<stage, request, terms, now, allowance, approved, deposit,
                 received>>

----------------------------------------------------------------------------
(* The deposit status.  Absent is a field the answer leaves out; paid is 0  *)
(* when the answer has no output amount.                                    *)
Absent == "absent"
Ours == "ours"
HonestStatus ==
  [status |-> IF credit = NoCredit THEN "pending" ELSE "filled",
   originRight |-> TRUE, hash |-> Ours, ref |-> Ours, dest |-> request.dest,
   token |-> request.output,
   fill |-> IF credit = NoCredit THEN Absent ELSE "fill",
   paid |-> IF credit = NoCredit THEN 0 ELSE credit.amount,
   fillTime |-> credit # NoCredit]
WrongStatus ==
  [status |-> {"pending", "filled", "expired"}, originRight |-> {FALSE},
   hash |-> {Absent, "theirs"}, ref |-> {Absent, "theirs"}, dest |-> Chains,
   token |-> Tokens \cup {Absent}, fill |-> {Absent, "not_a_hash", "theirs"},
   paid |-> {0, 1}, fillTime |-> BOOLEAN]

validate_deposit_status(s) ==
  IF \/ ~s.originRight \/ s.hash # Ours \/ s.ref # Ours \/ s.dest # request.dest
     \/ s.token \notin {Absent, request.output}
  THEN "error"
  ELSE IF s.status = "pending"
  THEN IF s.fill # Absent \/ s.paid # 0 \/ s.fillTime THEN "error" ELSE "pending"
  ELSE IF s.status = "filled"
  THEN IF \/ s.fill \in {Absent, "not_a_hash"}
          \/ s.paid # 0 /\ s.paid < terms.minOutput
       THEN "error" ELSE "filled"
  ELSE "error"

\* Mutant: the receipt of the fill is not compared with the minimum.
AnyReceipt(fill) ==
  IF fill = "fill" THEN credit.amount ELSE 1
(* validate_across_fill_receipt: the transfers of the output token to the   *)
(* wallet in the fill transaction on the destination chain.  Somebody       *)
(* else's fill paid the wallet nothing.  0 is the error.                    *)
validate_across_fill_receipt(fill) ==
  LET credited == IF /\ fill = "fill" /\ credit.dest = request.dest
                     /\ credit.to = Owner /\ credit.token = request.output
                  THEN credit.amount ELSE 0
  IN  IF credited >= terms.minOutput THEN credited ELSE 0

(* One pass of wait_across_fill: an unreadable answer and a pending deposit *)
(* are asked again, a wrong one ends the operation, and a filled one waits  *)
(* for the receipt, which never comes for a transaction that is not there.  *)
StatusAnswered ==
  /\ stage = "waiting"
  /\ \E f \in DOMAIN WrongStatus \cup {"none"} :
       \E s \in IF f = "none" THEN {HonestStatus}
                ELSE {[HonestStatus EXCEPT ![f] = v] : v \in WrongStatus[f]} :
         LET verdict == validate_deposit_status(s)
             got == IF s.fill = "fill" /\ credit = NoCredit THEN 0
                    ELSE validate_across_fill_receipt(s.fill)
         IN  CASE verdict = "error" -> stage' = "failed" /\ UNCHANGED received
               [] verdict = "pending" -> UNCHANGED <<stage, received>>
               [] verdict = "filled" ->
                    /\ stage' = IF got = 0 THEN "failed" ELSE "filled"
                    /\ received' = got
  /\ UNCHANGED <<request, terms, now, allowance, approved, deposit, credit>>

(* operation_timeout without a fill.                                        *)
FillTimeout ==
  /\ stage = "waiting" /\ stage' = "failed"
  /\ UNCHANGED <<request, terms, now, allowance, approved, deposit, credit,
                 received>>

Second ==
  /\ now < MaxTime /\ now' = now + 1
  /\ UNCHANGED <<stage, request, terms, allowance, approved, deposit, credit,
                 received>>

AcrossNext == QuoteAnswered \/ QuoteFailed \/ ApprovalSent \/ BridgeSent
                \/ BridgePays \/ StatusAnswered \/ FillTimeout \/ Second
AcrossSpec == AcrossInit /\ [][AcrossNext]_acrossVars

----------------------------------------------------------------------------
(* A bridge transaction that is mined takes exactly the requested amount    *)
(* and obliges the bridge to pay the output token of the route, at the      *)
(* destination of the route, to the wallet, and never less than the minimum *)
(* the journal recorded, whichever calldata form the API chose and whatever *)
(* it got wrong; and AcrossFilled is only recorded, for exactly what the    *)
(* wallet received, once the bridge has paid (validate_quote,               *)
(* validate_deposit_status, validate_across_fill_receipt).                  *)
BridgeKeepsTheTerms ==
  /\ deposit # NoDeposit =>
       /\ deposit.taken = Amount
       /\ deposit.dest = request.dest /\ deposit.token = request.output
       /\ deposit.to = Owner
       /\ deposit.least >= terms.minOutput /\ terms.minOutput > 0
  /\ stage = "filled" =>
       /\ credit # NoCredit /\ received = credit.amount
       /\ received >= terms.minOutput
=============================================================================
