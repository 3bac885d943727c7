\* The pair of a guarded buy holds the bought token as its token0.
SPECIFICATION Spec
CONSTANTS
  owner = owner  executor = executor  stranger = stranger  friend = friend
  nobody = nobody  v2Router = v2Router  solidlyRouter = solidlyRouter
  Calls <- GuardedCalls
  Routers = {v2Router, solidlyRouter}
  Owner = owner
  Executor = executor
  Accounts = {owner, executor, friend}
  NoCall = noCall
  BaseIsToken0 = FALSE
  BaseSupply = 3
  TokenSupply = 2
  MaxHeight = 2
INVARIANT ReservesGuarded
