---------------------- MODULE RlcAmStatusExchangeProofs ----------------------
(***************************************************************************)
(* The three buffers of the status exchange, for any number of reports.    *)
(***************************************************************************)
EXTENDS RlcAmStatusExchange, TLAPS

\* The buffers change owners only in the two exchanges, and each of them swaps two
\* different buffers.
LEMMA StepKeepsBuffersApart == NoSharedBuffer /\ [Next]_vars => NoSharedBuffer'
  <1> SUFFICES ASSUME NoSharedBuffer, [Next]_vars PROVE NoSharedBuffer'
    OBVIOUS
  <1>1. CASE StoreStatusReport
    BY <1>1 DEF StoreStatusReport, NoSharedBuffer
  <1>2. CASE TakeReport
    BY <1>2 DEF TakeReport, SwapReport, NoSharedBuffer
  <1>3. CASE UNCHANGED <<writer_buf, exchange_buf, reader_buf>>
    BY <1>3 DEF NoSharedBuffer
  <1>4. CASE \/ RefreshStatusReport \/ HandleSdu \/ ExpireStatusProhibitTimer
             \/ ForceUpdate \/ PullPdu \/ UNCHANGED vars
    BY <1>3, <1>4 DEF RefreshStatusReport, HandleSdu, ExpireStatusProhibitTimer, ForceUpdate,
       PullPdu, vars, reportVars
  <1>5. CASE UpStep
    BY <1>1, <1>3, <1>5 DEF UpStep, RequestStatus, CheckRequest, CheckProhibit, TestAndSet,
       DeferUpdate, RunProhibitTimer, reportVars
  <1>6. CASE LowStep
    BY <1>2, <1>3, <1>6 DEF LowStep, StartUpdate, ClearPendingBufferState, LoadData,
       LoadRequest, LoadProhibit, NotifyMac, MacRefresh, PullCheckProhibit, ClearRequest,
       DeferProhibit, SetProhibit, PullData, reportVars
  <1> QED
    BY <1>4, <1>5, <1>6 DEF Next

\* pull_pdu never packs the report that refresh_status_report is writing, however
\* the accesses of the two executors interleave.
THEOREM BuffersApart == Spec => []NoSharedBuffer
  <1>1. Init => NoSharedBuffer
    BY DEF Init, NoSharedBuffer
  <1> QED
    BY <1>1, StepKeepsBuffersApart, PTL DEF Spec
=============================================================================
