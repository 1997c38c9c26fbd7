SPECIFICATION Spec
CONSTANTS
  Languages = {"python", "ruby", "javascript", "go", "java", "csharp", "cpp", "rust"}
  Accounts = {a, b}
  WithOrg = {a}
  Ahead = {0, 1, 2}
  Behind = {10}
  Lifetime = 1
  MaxTime = 3
  None = None
INVARIANTS TypeOK ActsAsLastSet FreshTokenWorks ClaimsOfOneAccount TokenGranted AnswersRead
