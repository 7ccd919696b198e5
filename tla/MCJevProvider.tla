---- MODULE MCJevProvider ----
(* One call of the adapter on small values: ticks of 100ms scaled down. *)
EXTENDS JevProvider
mcRetryBudgets == {-1, 0, 1, 2}
mcClientTimeouts == {2, 6}
mcStatuses == {200, 401, 422, 429, 500, 503}
mcRetryAfters ==
    {NoHeader} \cup [form : {"seconds"}, n : {0, 2, 9, 20}] \cup [form : {"date"}, n : {-1, 2}]
mcOneRetry == {1}
mcManyRetries == {40}
mcOneTimeout == {60}
mcOverloaded == {503}
mcNoRetryAfter == {NoHeader}
====
