SPECIFICATION FrontEndSpec
CONSTANTS
  Sources <- MCSources
  KeywordKinds <- MCKeywordKinds
  WordBits = 6
  SpellingLimit = 5
  NestingLimit = 2
  Streams <- MCStreams
  NameTokens <- MCNames
  KeywordTokens <- MCKeywords
  NumberTokens = {"1"}
  TextTokens = {"t", "linux", "x86"}
  TargetFacts <- MCFacts
  Programs <- MCPrograms
  Arms = {"outer", "inner"}
  Builtins <- MCBuiltins
  LookedUp <- MCLookedUp
  PathNames <- MCPathNames
  RegularFiles <- MCRegularFiles
  Links <- MCLinks
  ProjectRoot <- MCRoot
  SourceNames <- MCSourceNames
  Importings <- MCImportings
INVARIANTS
  TokensCoverText
  TokensExact
  ParsesAsWritten
  AcceptsTheGrammar
  LookupMatchesScope
  AliasesLead
  ImportsStayInTheirRoot
CHECK_DEADLOCK FALSE
