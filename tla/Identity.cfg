SPECIFICATION MCSpec
CONSTANT None = None
INVARIANTS SkippingIsSafe OutageContained TokenForThisGateway
