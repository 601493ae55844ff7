CONSTANTS
  su = su
  keystoreCtx = keystoreCtx
  suKeyCtx = suKeyCtx
  notFound = notFound
  noCtx = noCtx
  Callers <- MCCallers
  KeystoreCtx <- keystoreCtx
  Namespaces <- MCNamespaces
  NsContext <- MCNsContext
  NotFound <- notFound
  NoCtx <- noCtx
  ReqKeyPerms <- MCReqKeyPerms
  ReqKeystorePerms <- MCReqKeystorePerms
  ReqSets <- MCReqSets
SPECIFICATION Spec
INVARIANTS
  TypeOK
  AllowOnlyIfAuthorized
  ErrorsClassified
  QueryOrder
PROPERTIES
  CallReturns
  FailureEndsCall
