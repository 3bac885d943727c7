\* Buys of every shape against a contract with and without base of its own,
\* calls that fail at any point, and the owner and others acting in between.
SPECIFICATION Spec
CONSTANTS
  owner = owner  executor = executor  stranger = stranger  friend = friend
  nobody = nobody  v2Router = v2Router  solidlyRouter = solidlyRouter
  Calls <- TheCalls
  Routers = {v2Router, solidlyRouter}
  Owner = owner
  Executor = executor
  Accounts = {owner, executor, friend}
  NoCall = noCall
  BaseIsToken0 = TRUE
  BaseSupply = 3
  TokenSupply = 2
  MaxHeight = 2
INVARIANTS
  TypeOK
  NoStandingAllowance
PROPERTY
  ImplementsAtomicBuy
