CONSTANTS
    Name = {self, alice, bob}
    TokenSelf = self
    Code = {EOS}
    Precision = {2, 4}
    MaxAmount = 2
SPECIFICATION TokenSpec
INVARIANTS TokenTypeOK SupplyIsHeld RowsMatchStat SupplyCapped
PROPERTIES DebitsSigned PayersSigned ImplementsLedger
