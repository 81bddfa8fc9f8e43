CONSTANTS
  Chars <- MCChars
  Names <- MCNames
  UserNames <- MCUserNames
  Passwords <- MCPasswords
  Privs <- MCPrivs
  IdentLen = 2
  Reserved <- MCReserved
SPECIFICATION Spec
INVARIANTS UserReadsBack NamesApart PrivilegeReadsBack
CHECK_DEADLOCK FALSE
